------------------------- MODULE DriverTablesProofs -------------------------
(***************************************************************************)
(* Proofs about the two tables the entry points answer from.               *)
(*                                                                         *)
(* ObjectHeap, what a handle names: for every number of objects, holders,  *)
(* slots and generations.                                                  *)
(*                                                                         *)
(* Capabilities, what the driver advertises it accepts: for every setting  *)
(* of the two environment gates, every width, every length and order of    *)
(* the attribute lists, and however often an application starts over.      *)
(***************************************************************************)
EXTENDS ObjectHeap, Capabilities, FiniteSetTheorems, TLAPS

-----------------------------------------------------------------------------
(***************************************************************************)
(* The layout of a handle.                                                 *)
(***************************************************************************)

(* The three layout constants are numbers.                                 *)
LEMMA LayoutNat ==
  /\ IndexSpan \in Nat \ {0}
  /\ TypeUnit \in Nat \ {0}
  /\ MaxHandle \in Nat
  BY Z3 DEF IndexSpan, TypeUnit, MaxHandle

(* decode_id recovers the three fields that make_id packed.                *)
LEMMA DecodeMakeId ==
  ASSUME NEW t \in 1..5, NEW g \in 0..255, NEW i \in Nat, i < IndexSpan
  PROVE  /\ id_type(make_id(t, g, i)) = t
         /\ id_generation(make_id(t, g, i)) = g
         /\ id_index(make_id(t, g, i)) = i
         /\ make_id(t, g, i) \in Nat
         /\ make_id(t, g, i) # 0
  BY Z3 DEF id_type, id_generation, id_index, make_id, IndexSpan, TypeUnit

(* No two handles decode to the same three fields.                         *)
LEMMA MakeDecodeId ==
  ASSUME NEW x \in Nat, x <= MaxHandle
  PROVE  /\ id_index(x) \in Nat
         /\ make_id(id_type(x), id_generation(x), id_index(x)) = x
  BY Z3 DEF id_type, id_generation, id_index, make_id, IndexSpan, TypeUnit,
            MaxHandle

(* What make_id gives for a slot and a generation of this heap.            *)
LEMMA MakeIdHere ==
  ASSUME NEW g \in 0..MaxGeneration, NEW i \in Slots
  PROVE  /\ id_type(make_id(Type, g, i)) = Type
         /\ id_generation(make_id(Type, g, i)) = g
         /\ id_index(make_id(Type, g, i)) = i
         /\ make_id(Type, g, i) \in Nat
         /\ make_id(Type, g, i) # 0
  <1>1. Type \in 1..5 /\ g \in 0..255 /\ i \in Nat /\ i < IndexSpan
    BY HeapAssumption, LayoutNat DEF Slots
  <1> QED  BY <1>1, DecodeMakeId

-----------------------------------------------------------------------------
(***************************************************************************)
(* The inductive invariant of the slots and of the handles given out.      *)
(***************************************************************************)

(* An occupied slot lies below high_water, is not retired, and its object  *)
(* carries the slot's current handle; nothing above high_water was used.   *)
SlotsSound ==
  /\ high_water <= capacity
  /\ \A i \in Slots : object[i] # Null =>
       /\ open
       /\ i < high_water
       /\ ~retired[i]
       /\ generation[i] # 0
       /\ id[object[i]] = make_id(Type, generation[i], i)
  /\ open => \A i \in Slots : i >= high_water => ~retired[i]

(* A handle o was given belongs to a slot and a generation; the slot has   *)
(* since moved to a later generation, was retired, or still holds o.       *)
HandleAged(o) ==
  LET i == id_index(id[o])
      g == id_generation(id[o])
  IN  /\ i \in Slots
      /\ g \in 1..MaxGeneration
      /\ id[o] = make_id(Type, g, i)
      /\ open => /\ i < high_water
                 /\ g <= generation[i]
                 /\ g = generation[i] => object[i] = o \/ retired[i]

HandlesSound ==
  /\ \A o \in Objects : id[o] # 0 => HandleAged(o)
  /\ \A o, p \in Objects : o # p /\ id[o] = id[p] => id[o] = 0

SlotInv == TypeOK /\ FreeListSound /\ SlotsSound /\ HandlesSound

(* insert never takes its rejection path: the slot it pops or opens is     *)
(* empty, not retired, and has a valid generation.                         *)
LEMMA InsertOccupies ==
  ASSUME SlotInv, NEW h \in Holders, NEW o \in Objects,
         insert_reused(h, o) \/ insert_fresh(h, o)
  PROVE  \E i \in Slots, g \in 1..MaxGeneration :
           /\ Occupy(h, o, i, g)
           /\ object[i] = Null /\ ~retired[i]
           /\ \/ /\ insert_reused(h, o)
                 /\ i = free_head /\ i < high_water /\ g = generation[i]
                 /\ free_head' = next_free[free_head]
                 /\ UNCHANGED <<high_water, capacity, open>>
              \/ /\ insert_fresh(h, o)
                 /\ i = high_water /\ g = 1 /\ free_head = NoSlot
                 /\ high_water' = high_water + 1
                 /\ high_water' <= capacity'
                 /\ capacity' \in 0..MaxSlots
                 /\ UNCHANGED <<free_head, open>>
  <1>1. CASE insert_reused(h, o)
    <2>1. /\ free_head \in FreeSlots
          /\ generation[free_head] # 0
      BY <1>1 DEF SlotInv, FreeListSound, insert_reused
    <2>2. /\ free_head \in Slots /\ free_head < high_water
          /\ object[free_head] = Null /\ ~retired[free_head]
      BY <2>1 DEF FreeSlots
    <2>3. generation[free_head] \in 1..MaxGeneration
      BY <2>1, <2>2, HeapAssumption DEF SlotInv, TypeOK
    <2>4. Occupy(h, o, free_head, generation[free_head])
      BY <1>1, <2>1, <2>2 DEF insert_reused, Place, SlotUsable
    <2> QED  BY <1>1, <2>2, <2>3, <2>4 DEF insert_reused
  <1>2. CASE insert_fresh(h, o)
    <2>1. /\ capacity' \in 0..MaxSlots
          /\ high_water < capacity'
      BY <1>2, HeapAssumption
      DEF insert_fresh, GrownCapacity, SlotInv, TypeOK, SlotsSound
    <2>2. high_water \in Slots
      BY <2>1, HeapAssumption DEF SlotInv, TypeOK, Slots
    <2>3. object[high_water] = Null /\ ~retired[high_water]
      BY <1>2, <2>2 DEF SlotInv, SlotsSound, TypeOK, insert_fresh, Slots
    <2>4. Occupy(h, o, high_water, 1)
      BY <1>2, <2>3 DEF insert_fresh, Place, SlotUsable
    <2>5. 1 \in 1..MaxGeneration
      BY HeapAssumption
    <2>6. high_water' = high_water + 1 /\ high_water' <= capacity'
      BY <1>2, <2>1 DEF insert_fresh, SlotInv, TypeOK
    <2> QED  BY <1>2, <2>1, <2>2, <2>3, <2>4, <2>5, <2>6 DEF insert_fresh
  <1> QED  BY <1>1, <1>2

(* A handle that resolves, resolves to the slot it names.                  *)
LEMMA LookupFinds ==
  ASSUME SlotInv, NEW x \in Nat, lookup(x) # Null, id_index(x) \in Nat
  PROVE  LET i == id_index(x)
         IN  /\ open
             /\ i \in Slots /\ i < high_water /\ ~retired[i]
             /\ object[i] = lookup(x) /\ object[i] \in Objects
             /\ generation[i] = id_generation(x)
             /\ id_type(x) = Type
  <1>1. /\ open /\ id_index(x) < high_water
        /\ ~retired[id_index(x)]
        /\ generation[id_index(x)] = id_generation(x)
        /\ object[id_index(x)] = lookup(x)
        /\ id_type(x) = Type
    BY DEF lookup, decode_id
  <1>2. id_index(x) \in Slots
    BY <1>1, HeapAssumption DEF SlotInv, TypeOK, Slots
  <1>3. object[id_index(x)] \in Objects
    BY <1>1, <1>2 DEF SlotInv, TypeOK
  <1> QED  BY <1>1, <1>2, <1>3

(* No object sits in two slots.                                            *)
LEMMA OneSlotEach ==
  ASSUME SlotInv, NEW i \in Slots, NEW j \in Slots,
         object[i] # Null, object[i] = object[j]
  PROVE  i = j
  <1>1. make_id(Type, generation[i], i) = make_id(Type, generation[j], j)
    BY DEF SlotInv, SlotsSound
  <1>2. generation[i] \in 0..MaxGeneration /\ generation[j] \in 0..MaxGeneration
    BY DEF SlotInv, TypeOK
  <1> QED  BY <1>1, <1>2, MakeIdHere

-----------------------------------------------------------------------------
(***************************************************************************)
(* The inductive invariant of the reference counts.                        *)
(***************************************************************************)
HeapInv == SlotInv /\ RefsExact /\ LifetimeExact /\ CountExact

(* How a count relates to its holders and to the slot's reference.         *)
LEMMA RefsCount ==
  ASSUME TypeOK, RefsExact, NEW o \in Objects
  PROVE  /\ IsFiniteSet(holders[o])
         /\ InHeap(o) => refs[o] >= 1 /\ (refs[o] = 1 <=> holders[o] = {})
         /\ \A h \in holders[o] :
              /\ refs[o] >= 1
              /\ refs[o] = 1 <=> holders[o] \ {h} = {} /\ ~InHeap(o)
              /\ Cardinality(holders[o] \ {h}) = Cardinality(holders[o]) - 1
         /\ \A h \in Holders \ holders[o] :
              Cardinality(holders[o] \cup {h}) = Cardinality(holders[o]) + 1
  <1>1. holders[o] \in SUBSET Holders /\ refs[o] \in Nat
    BY DEF TypeOK
  <1>2. IsFiniteSet(holders[o])
    BY <1>1, HeapAssumption, FS_Subset
  <1>3. Cardinality(holders[o]) \in Nat
    BY <1>2, FS_CardinalityType
  <1>4. Cardinality(holders[o]) = 0 <=> holders[o] = {}
    BY <1>2, FS_EmptySet
  <1>5. refs[o] = Cardinality(holders[o]) + (IF InHeap(o) THEN 1 ELSE 0)
    BY DEF RefsExact
  <1>6. ASSUME NEW h \in holders[o]
        PROVE  /\ refs[o] >= 1
               /\ refs[o] = 1 <=> holders[o] \ {h} = {} /\ ~InHeap(o)
               /\ Cardinality(holders[o] \ {h}) = Cardinality(holders[o]) - 1
    <2>1. /\ IsFiniteSet(holders[o] \ {h})
          /\ Cardinality(holders[o] \ {h}) = Cardinality(holders[o]) - 1
      BY <1>2, FS_RemoveElement
    <2>2. Cardinality(holders[o] \ {h}) = 0 <=> holders[o] \ {h} = {}
      BY <2>1, FS_EmptySet
    <2>3. Cardinality(holders[o]) >= 1
      BY <1>3, <1>4
    <2> QED  BY <1>3, <1>5, <2>1, <2>2, <2>3
  <1>7. ASSUME NEW h \in Holders \ holders[o]
        PROVE  Cardinality(holders[o] \cup {h}) = Cardinality(holders[o]) + 1
    BY <1>2, FS_AddElement
  <1>8. InHeap(o) => refs[o] >= 1 /\ (refs[o] = 1 <=> holders[o] = {})
    BY <1>3, <1>4, <1>5
  <1> QED  BY <1>2, <1>6, <1>7, <1>8

(* The occupied slots.                                                     *)
Occupied == {i \in Slots : object[i] # Null}

(* They are finitely many.                                                 *)
LEMMA OccupiedFinite ==
  IsFiniteSet(Occupied) /\ Cardinality(Occupied) \in Nat
  <1>1. IsFiniteSet(Slots)
    BY FS_Interval, HeapAssumption, LayoutNat DEF Slots
  <1>2. IsFiniteSet(Occupied)
    BY <1>1, FS_Subset DEF Occupied
  <1> QED  BY <1>2, FS_CardinalityType

(* The heap starts empty.                                                  *)
LEMMA InitHeapInv == Init => HeapInv
  <1> SUFFICES ASSUME Init PROVE HeapInv
    OBVIOUS
  <1> USE DEF Init
  <1>2. \A o \in Objects : ~InHeap(o)
    BY HeapAssumption DEF InHeap
  <1>3. TypeOK
    BY HeapAssumption, LayoutNat DEF TypeOK, Slots, NoSlot
  <1>4. FreeListSound
    BY HeapAssumption, LayoutNat DEF FreeListSound, FreeSlots, NoSlot, Slots
  <1>5. SlotsSound /\ HandlesSound
    BY DEF SlotsSound, HandlesSound
  <1>6. RefsExact
    BY <1>2, FS_EmptySet DEF RefsExact
  <1>7. LifetimeExact
    BY <1>2 DEF LifetimeExact
  <1>8. CountExact
    <2>1. {i \in Slots : object[i] # Null} = {}
      OBVIOUS
    <2> QED  BY <2>1, FS_EmptySet DEF CountExact
  <1> QED  BY <1>3, <1>4, <1>5, <1>6, <1>7, <1>8 DEF HeapInv, SlotInv

-----------------------------------------------------------------------------
(***************************************************************************)
(* The effect of an insert and of a remove on what is published.           *)
(***************************************************************************)

(* An insert publishes its object and no other.                            *)
LEMMA OccupyPublishes ==
  ASSUME SlotInv, NEW o \in Objects, NEW i \in Slots, object[i] = Null,
         object' = [object EXCEPT ![i] = o], NEW p \in Objects
  PROVE  InHeap(p)' <=> InHeap(p) \/ p = o
  <1>1. object \in [Slots -> Objects \cup {Null}] /\ Null \notin Objects
    BY HeapAssumption DEF SlotInv, TypeOK
  <1> QED  BY <1>1 DEF InHeap

(* A remove withdraws the object of its slot and no other.                 *)
LEMMA RemoveWithdraws ==
  ASSUME SlotInv, NEW i \in Slots, object[i] # Null,
         object' = [object EXCEPT ![i] = Null], NEW p \in Objects
  PROVE  InHeap(p)' <=> InHeap(p) /\ p # object[i]
  <1>1. object \in [Slots -> Objects \cup {Null}] /\ Null \notin Objects
    BY HeapAssumption DEF SlotInv, TypeOK
  <1>2. \A j \in Slots : object[i] = object[j] => i = j
    BY OneSlotEach
  <1> QED  BY <1>1, <1>2 DEF InHeap

(* Steps that leave the slots, the heap's fields and the handles alone.    *)
LEMMA SlotsUntouched ==
  ASSUME SlotInv, UNCHANGED <<slotVars, heapVars, id>>, TypeOK'
  PROVE  /\ SlotInv'
         /\ \A p \in Objects : InHeap(p)' <=> InHeap(p)
         /\ CountExact => CountExact'
  <1> USE DEF slotVars, heapVars
  <1>1. FreeListSound'
    BY DEF SlotInv, FreeListSound, FreeSlots
  <1>2. SlotsSound'
    BY DEF SlotInv, SlotsSound
  <1>3. HandlesSound'
    BY DEF SlotInv, HandlesSound, HandleAged
  <1> QED  BY <1>1, <1>2, <1>3 DEF SlotInv, InHeap, CountExact

(* Types after a step that only counts references.                         *)
LEMMA TypesKept ==
  ASSUME TypeOK, UNCHANGED <<slotVars, heapVars, id>>,
         refs' \in [Objects -> Nat],
         life' \in [Objects -> {"unborn", "live", "destroyed"}],
         holders' \in [Objects -> SUBSET Holders]
  PROVE  TypeOK'
  BY DEF TypeOK, slotVars, heapVars

-----------------------------------------------------------------------------
(***************************************************************************)
(* Every action preserves the invariant.                                   *)
(***************************************************************************)

(* A new object starts with its creator's reference.                       *)
LEMMA InitObjectKeeps ==
  ASSUME HeapInv, NEW h \in Holders, NEW o \in Objects, rk_object_init(h, o)
  PROVE  HeapInv'
  <1> USE DEF HeapInv
  <1>1. TypeOK
    BY DEF SlotInv
  <1>2. TypeOK'
    BY <1>1, TypesKept DEF rk_object_init, TypeOK
  <1>3. /\ SlotInv' /\ CountExact'
        /\ \A p \in Objects : InHeap(p)' <=> InHeap(p)
    BY <1>2, SlotsUntouched DEF rk_object_init
  <1>4. ~InHeap(o) /\ holders[o] = {}
    BY DEF LifetimeExact, rk_object_init
  <1>5. Cardinality({h}) = 1
    BY FS_Singleton
  <1>6. RefsExact'
    <2> SUFFICES ASSUME NEW p \in Objects
                 PROVE  refs'[p] = Cardinality(holders'[p])
                                     + (IF InHeap(p)' THEN 1 ELSE 0)
      BY DEF RefsExact
    <2>1. CASE p = o
      BY <2>1, <1>1, <1>3, <1>4, <1>5 DEF rk_object_init, TypeOK
    <2>2. CASE p # o
      BY <2>2, <1>1, <1>3 DEF rk_object_init, TypeOK, RefsExact
    <2> QED  BY <2>1, <2>2
  <1>7. LifetimeExact'
    BY <1>1, <1>3 DEF rk_object_init, TypeOK, LifetimeExact
  <1> QED  BY <1>3, <1>6, <1>7

(* Shared by rk_object_ref and rk_object_heap_acquire.                     *)
LEMMA AddHolderKeeps ==
  ASSUME HeapInv, NEW g \in Holders, NEW o \in Objects,
         InHeap(o) \/ holders[o] # {}, g \notin holders[o],
         refs' = [refs EXCEPT ![o] = @ + 1],
         holders' = [holders EXCEPT ![o] = @ \cup {g}],
         UNCHANGED <<slotVars, heapVars, life, id>>
  PROVE  HeapInv'
  <1> USE DEF HeapInv
  <1>1. TypeOK
    BY DEF SlotInv
  <1>2. TypeOK'
    BY <1>1, TypesKept DEF TypeOK
  <1>3. /\ SlotInv' /\ CountExact'
        /\ \A p \in Objects : InHeap(p)' <=> InHeap(p)
    BY <1>2, SlotsUntouched
  <1>4. /\ IsFiniteSet(holders[o])
        /\ Cardinality(holders[o] \cup {g}) = Cardinality(holders[o]) + 1
    BY <1>1, RefsCount
  <1>5. Cardinality(holders[o]) \in Nat
    BY <1>4, FS_CardinalityType
  <1>6. RefsExact'
    <2> SUFFICES ASSUME NEW p \in Objects
                 PROVE  refs'[p] = Cardinality(holders'[p])
                                     + (IF InHeap(p)' THEN 1 ELSE 0)
      BY DEF RefsExact
    <2>1. CASE p = o
      BY <2>1, <1>1, <1>3, <1>4, <1>5 DEF TypeOK, RefsExact
    <2>2. CASE p # o
      BY <2>2, <1>1, <1>3 DEF TypeOK, RefsExact
    <2> QED  BY <2>1, <2>2
  <1>7. LifetimeExact'
    BY <1>1, <1>3 DEF TypeOK, LifetimeExact
  <1> QED  BY <1>3, <1>6, <1>7

(* Shared by rk_object_unref and the failing insert.                       *)
LEMMA DropRefKeeps ==
  ASSUME HeapInv, NEW h \in Holders, NEW o \in Objects, h \in holders[o],
         DropRef(h, o), UNCHANGED <<slotVars, heapVars, id>>
  PROVE  HeapInv'
  <1> USE DEF HeapInv
  <1>1. TypeOK
    BY DEF SlotInv
  <1>2. /\ refs[o] >= 1
        /\ refs[o] = 1 <=> holders[o] \ {h} = {} /\ ~InHeap(o)
        /\ Cardinality(holders[o] \ {h}) = Cardinality(holders[o]) - 1
        /\ IsFiniteSet(holders[o])
    BY <1>1, RefsCount
  <1>3. Cardinality(holders[o]) \in Nat
    BY <1>2, FS_CardinalityType
  <1>4. TypeOK'
    <2>1. refs' \in [Objects -> Nat]
      BY <1>1, <1>2 DEF TypeOK, DropRef
    <2>2. life' \in [Objects -> {"unborn", "live", "destroyed"}]
      BY <1>1 DEF TypeOK, DropRef
    <2>3. holders' \in [Objects -> SUBSET Holders]
      BY <1>1 DEF TypeOK, DropRef
    <2> QED  BY <1>1, <2>1, <2>2, <2>3, TypesKept
  <1>5. /\ SlotInv' /\ CountExact'
        /\ \A p \in Objects : InHeap(p)' <=> InHeap(p)
    BY <1>4, SlotsUntouched
  <1>6. RefsExact'
    <2> SUFFICES ASSUME NEW p \in Objects
                 PROVE  refs'[p] = Cardinality(holders'[p])
                                     + (IF InHeap(p)' THEN 1 ELSE 0)
      BY DEF RefsExact
    <2>1. CASE p = o
      BY <2>1, <1>1, <1>2, <1>3, <1>5 DEF TypeOK, RefsExact, DropRef
    <2>2. CASE p # o
      BY <2>2, <1>1, <1>5 DEF TypeOK, RefsExact, DropRef
    <2> QED  BY <2>1, <2>2
  <1>7. LifetimeExact'
    BY <1>1, <1>2, <1>5 DEF TypeOK, LifetimeExact, DropRef
  <1> QED  BY <1>5, <1>6, <1>7

(* An insert into a reused or a fresh slot: the reference becomes the      *)
(* heap's.                                                                 *)
LEMMA InsertKeeps ==
  ASSUME HeapInv, NEW h \in Holders, NEW o \in Objects,
         insert_reused(h, o) \/ insert_fresh(h, o)
  PROVE  HeapInv'
  <1> USE DEF HeapInv
  <1>0. SlotInv /\ TypeOK
    BY DEF SlotInv
  <1>1. PICK i \in Slots, g \in 1..MaxGeneration :
          /\ Occupy(h, o, i, g)
          /\ object[i] = Null /\ ~retired[i]
          /\ \/ /\ insert_reused(h, o)
                /\ i = free_head /\ i < high_water /\ g = generation[i]
                /\ free_head' = next_free[free_head]
                /\ UNCHANGED <<high_water, capacity, open>>
             \/ /\ insert_fresh(h, o)
                /\ i = high_water /\ g = 1 /\ free_head = NoSlot
                /\ high_water' = high_water + 1
                /\ high_water' <= capacity'
                /\ capacity' \in 0..MaxSlots
                /\ UNCHANGED <<free_head, open>>
    BY InsertOccupies
  <1>2. /\ open /\ h \in holders[o] /\ id[o] = 0
    BY DEF insert_reused, insert_fresh, Creating
  <1>3. \A p \in Objects : InHeap(p)' <=> InHeap(p) \/ p = o
    BY <1>1, OccupyPublishes DEF Occupy
  <1>4. ~InHeap(o)
    <2>1. ASSUME NEW j \in Slots, object[j] = o PROVE FALSE
      <3>1. id[o] = make_id(Type, generation[j], j)
        BY <2>1, HeapAssumption DEF SlotInv, SlotsSound
      <3>2. generation[j] \in 0..MaxGeneration
        BY <1>0 DEF TypeOK
      <3> QED  BY <1>2, <3>1, <3>2, MakeIdHere
    <2> QED  BY <2>1 DEF InHeap
  <1>5. /\ id_type(make_id(Type, g, i)) = Type
        /\ id_generation(make_id(Type, g, i)) = g
        /\ id_index(make_id(Type, g, i)) = i
        /\ make_id(Type, g, i) \in Nat
        /\ make_id(Type, g, i) # 0
    BY MakeIdHere, HeapAssumption
  <1>6. TypeOK'
    <2>1. /\ object' \in [Slots -> Objects \cup {Null}]
          /\ generation' \in [Slots -> 0..MaxGeneration]
          /\ retired' \in [Slots -> BOOLEAN]
          /\ next_free' \in [Slots -> Slots \cup {NoSlot}]
      BY <1>0, <1>1, HeapAssumption DEF TypeOK, Occupy
    <2>2. /\ free_head' \in Slots \cup {NoSlot}
          /\ high_water' \in 0..MaxSlots
          /\ capacity' \in 0..MaxSlots
          /\ open' \in BOOLEAN
      BY <1>0, <1>1, HeapAssumption DEF TypeOK
    <2>3. /\ count' \in Int
          /\ refs' \in [Objects -> Nat]
          /\ life' \in [Objects -> {"unborn", "live", "destroyed"}]
          /\ holders' \in [Objects -> SUBSET Holders]
          /\ id' \in [Objects -> Nat]
      BY <1>0, <1>1, <1>5 DEF TypeOK, Occupy
    <2> QED  BY <2>1, <2>2, <2>3 DEF TypeOK
  <1>7. FreeListSound'
    <2>1. CASE insert_reused(h, o) /\ i = free_head /\ i < high_water
               /\ free_head' = next_free[free_head]
               /\ UNCHANGED <<high_water, capacity, open>>
               /\ g = generation[i]
      <3>1. FreeSlots' = FreeSlots \ {i}
        BY <2>1, <1>0, <1>1, HeapAssumption DEF FreeSlots, Occupy, TypeOK
      <3>2. i \in FreeSlots /\ i # NoSlot
        BY <2>1, <1>0, <1>1 DEF FreeSlots, NoSlot, Slots
      <3>3. generation' = generation
            /\ \A j \in FreeSlots \ {i} : next_free'[j] = next_free[j]
        BY <2>1, <1>0, <1>1 DEF Occupy, TypeOK, FreeSlots
      <3> QED  BY <2>1, <1>2, <3>1, <3>2, <3>3 DEF SlotInv, FreeListSound
    <2>2. CASE insert_fresh(h, o) /\ i = high_water /\ free_head = NoSlot
               /\ high_water' = high_water + 1
               /\ UNCHANGED <<free_head, open>>
      <3>0. /\ \A j \in Slots : j < high_water' <=> j < high_water \/ j = i
            /\ \A j \in Slots : j < high_water => j # i
        BY <2>2, <1>0 DEF TypeOK, Slots
      <3>1. FreeSlots' = FreeSlots
        BY <3>0, <1>0, <1>1, HeapAssumption DEF FreeSlots, Occupy, TypeOK
      <3>2. i \notin FreeSlots
        BY <2>2, <1>0 DEF FreeSlots, TypeOK
      <3>3. \A j \in FreeSlots : /\ next_free'[j] = next_free[j]
                                 /\ generation'[j] = generation[j]
        BY <3>2, <1>0, <1>1 DEF Occupy, TypeOK, FreeSlots
      <3> QED  BY <2>2, <1>2, <3>1, <3>3 DEF SlotInv, FreeListSound
    <2> QED  BY <1>1, <2>1, <2>2
  <1>8. high_water <= high_water' /\ i < high_water' /\ open'
    <2>1. high_water \in Nat /\ i \in Nat
      BY <1>0 DEF TypeOK, Slots
    <2>2. \/ high_water' = high_water /\ i < high_water
          \/ high_water' = high_water + 1 /\ i = high_water
      BY <1>1
    <2>3. open' = open
      BY <1>1
    <2>4. high_water <= high_water' /\ i < high_water'
      BY <2>1, <2>2
    <2> QED  BY <2>3, <2>4, <1>2
  <1>9. SlotsSound'
    <2>1. high_water' <= capacity'
      BY <1>1 DEF SlotInv, SlotsSound
    <2>2. ASSUME NEW j \in Slots, object'[j] # Null
          PROVE  /\ j < high_water'
                 /\ ~retired'[j]
                 /\ generation'[j] # 0
                 /\ id'[object'[j]] = make_id(Type, generation'[j], j)
      <3>1. CASE j = i
        BY <3>1, <1>0, <1>1, <1>8, HeapAssumption DEF Occupy, TypeOK
      <3>2. CASE j # i
        <4>1. /\ object'[j] = object[j] /\ generation'[j] = generation[j]
              /\ retired'[j] = retired[j] /\ object[j] \in Objects
          BY <3>2, <2>2, <1>0, <1>1 DEF Occupy, TypeOK
        <4>2. object[j] # o
          BY <1>4 DEF InHeap
        <4>3. id'[object[j]] = id[object[j]]
          BY <4>1, <4>2, <1>0, <1>1 DEF Occupy, TypeOK
        <4>4. /\ j < high_water /\ ~retired[j] /\ generation[j] # 0
              /\ id[object[j]] = make_id(Type, generation[j], j)
          BY <2>2, <4>1 DEF SlotInv, SlotsSound
        <4>5. j < high_water'
          BY <4>4, <1>8, <1>0, <1>6 DEF TypeOK, Slots
        <4> QED  BY <4>1, <4>3, <4>4, <4>5
      <3> QED  BY <3>1, <3>2
    <2>3. ASSUME NEW j \in Slots, j >= high_water' PROVE ~retired'[j]
      <3>1. j >= high_water
        BY <2>3, <1>8, <1>0, <1>6 DEF TypeOK, Slots
      <3> QED  BY <3>1, <1>1, <1>2 DEF Occupy, SlotInv, SlotsSound
    <2> QED  BY <1>8, <2>1, <2>2, <2>3 DEF SlotsSound
  <1>10. HandlesSound'
    <2>1. ASSUME NEW p \in Objects, p # o
          PROVE  id'[p] = id[p]
      BY <2>1, <1>0, <1>1 DEF Occupy, TypeOK
    <2>2. id'[o] = make_id(Type, g, i)
      BY <1>0, <1>1 DEF Occupy, TypeOK
    <2>3. HandleAged(o)'
      <3>1. object'[i] = o /\ generation'[i] = g
        BY <1>0, <1>1 DEF Occupy, TypeOK
      <3> QED  BY <3>1, <2>2, <1>5, <1>8 DEF HandleAged
    <2>4. ASSUME NEW p \in Objects, p # o, id[p] # 0
          PROVE  HandleAged(p)' /\ id[p] # make_id(Type, g, i)
      <3> DEFINE j == id_index(id[p])
                 k == id_generation(id[p])
      <3>1. /\ j \in Slots /\ k \in 1..MaxGeneration
            /\ id[p] = make_id(Type, k, j)
            /\ j < high_water /\ k <= generation[j]
            /\ k = generation[j] => object[j] = p \/ retired[j]
        BY <2>4, <1>2 DEF SlotInv, HandlesSound, HandleAged
      <3>2. ~(j = i /\ k = g)
        BY <3>1, <1>0, <1>1, HeapAssumption DEF TypeOK
      <3>3. id[p] # make_id(Type, g, i)
        BY <3>2, <1>5
      <3>4. j < high_water'
        BY <3>1, <1>8, <1>0, <1>6 DEF TypeOK, Slots
      <3>5. CASE j = i
        <4>1. generation'[j] = generation[j] /\ k < generation[j]
          BY <3>5, <3>1, <3>2, <1>0, <1>1, HeapAssumption DEF Occupy, TypeOK
        <4>2. k # generation[j]
          BY <4>1, <3>1, <1>0 DEF TypeOK
        <4> QED  BY <4>1, <4>2, <3>1, <3>3, <3>4, <2>1, <2>4 DEF HandleAged
      <3>6. CASE j # i
        <4>1. /\ generation'[j] = generation[j] /\ object'[j] = object[j]
              /\ retired'[j] = retired[j]
          BY <3>6, <3>1, <1>0, <1>1 DEF Occupy, TypeOK
        <4> QED  BY <4>1, <3>1, <3>3, <3>4, <2>1, <2>4 DEF HandleAged
      <3> QED  BY <3>5, <3>6
    <2>5. \A p, q \in Objects : p # q /\ id'[p] = id'[q] => id'[p] = 0
      BY <2>1, <2>2, <2>4, <1>5 DEF SlotInv, HandlesSound
    <2>6. \A p \in Objects : id'[p] # 0 => HandleAged(p)'
      BY <2>1, <2>3, <2>4
    <2> QED  BY <2>5, <2>6 DEF HandlesSound
  <1>11. RefsExact'
    <2>1. /\ IsFiniteSet(holders[o])
          /\ Cardinality(holders[o] \ {h}) = Cardinality(holders[o]) - 1
      BY <1>0, <1>2, RefsCount
    <2>2. Cardinality(holders[o]) \in Nat
      BY <2>1, FS_CardinalityType
    <2> SUFFICES ASSUME NEW p \in Objects
                 PROVE  refs'[p] = Cardinality(holders'[p])
                                     + (IF InHeap(p)' THEN 1 ELSE 0)
      BY DEF RefsExact
    <2>3. CASE p = o
      BY <2>1, <2>2, <2>3, <1>0, <1>1, <1>3, <1>4
      DEF TypeOK, RefsExact, Occupy
    <2>4. CASE p # o
      BY <2>4, <1>0, <1>1, <1>3 DEF TypeOK, RefsExact, Occupy
    <2> QED  BY <2>3, <2>4
  <1>12. LifetimeExact'
    <2>1. life[o] = "live" /\ life' = life
      BY <1>1, <1>2 DEF LifetimeExact, Occupy
    <2> QED  BY <2>1, <1>0, <1>1, <1>3 DEF TypeOK, LifetimeExact, Occupy
  <1>13. CountExact'
    <2>1. Occupied' = Occupied \cup {i} /\ i \notin Occupied
      BY <1>0, <1>1, HeapAssumption DEF Occupied, Occupy, TypeOK
    <2>2. Cardinality(Occupied \cup {i}) = Cardinality(Occupied) + 1
      BY <2>1, OccupiedFinite, FS_AddElement
    <2> QED  BY <2>1, <2>2, <1>1 DEF CountExact, Occupied, Occupy
  <1> QED  BY <1>6, <1>7, <1>9, <1>10, <1>11, <1>12, <1>13 DEF SlotInv

(* A remove: the heap's reference becomes the caller's, the slot is freed  *)
(* or retired.                                                             *)
LEMMA RemoveKeeps ==
  ASSUME HeapInv, NEW h \in Holders, NEW x \in Handles,
         rk_object_heap_remove(h, x)
  PROVE  HeapInv'
  <1> USE DEF HeapInv
  <1> DEFINE i == id_index(x)
             o == object[i]
  <1>0. SlotInv /\ TypeOK
    BY DEF SlotInv
  <1>1. /\ open
        /\ i \in Slots /\ i < high_water /\ ~retired[i]
        /\ o = lookup(x) /\ o \in Objects /\ o # Null
    <2>1. x \in Nat /\ x <= MaxHandle
      BY HeapAssumption, LayoutNat
    <2>2. i \in Nat
      BY <2>1, MakeDecodeId
    <2> QED  BY <2>1, <2>2, LookupFinds, HeapAssumption
             DEF rk_object_heap_remove
  <1>2. /\ h \notin holders[o]
        /\ object' = [object EXCEPT ![i] = Null]
        /\ count' = count - 1
        /\ Recycle(i)
        /\ holders' = [holders EXCEPT ![o] = @ \cup {h}]
        /\ UNCHANGED <<high_water, capacity, open, refs, life, id>>
    BY <1>1 DEF rk_object_heap_remove
  <1>3. \A p \in Objects : InHeap(p)' <=> InHeap(p) /\ p # o
    BY <1>0, <1>1, <1>2, RemoveWithdraws
  <1>4. InHeap(o)
    BY <1>1 DEF InHeap
  <1>5. /\ generation[i] \in 1..MaxGeneration
        /\ id[o] = make_id(Type, generation[i], i)
    BY <1>0, <1>1 DEF SlotInv, SlotsSound, TypeOK
  <1>6. \/ /\ generation[i] = MaxGeneration
           /\ retired' = [retired EXCEPT ![i] = TRUE]
           /\ next_free' = [next_free EXCEPT ![i] = NoSlot]
           /\ UNCHANGED <<generation, free_head>>
        \/ /\ generation[i] + 1 \in 1..MaxGeneration
           /\ generation' = [generation EXCEPT ![i] = @ + 1]
           /\ next_free' = [next_free EXCEPT ![i] = free_head]
           /\ free_head' = i
           /\ UNCHANGED retired
    BY <1>2, <1>5, HeapAssumption DEF Recycle
  <1>7. TypeOK'
    <2>1. /\ object' \in [Slots -> Objects \cup {Null}]
          /\ count' \in Int
          /\ holders' \in [Objects -> SUBSET Holders]
      BY <1>0, <1>1, <1>2 DEF TypeOK
    <2>2. /\ generation' \in [Slots -> 0..MaxGeneration]
          /\ retired' \in [Slots -> BOOLEAN]
          /\ next_free' \in [Slots -> Slots \cup {NoSlot}]
          /\ free_head' \in Slots \cup {NoSlot}
      <3>1. /\ MaxGeneration \in Nat
            /\ \A n \in 1..MaxGeneration : n \in 0..MaxGeneration
        BY HeapAssumption
      <3>2. CASE /\ retired' = [retired EXCEPT ![i] = TRUE]
                 /\ next_free' = [next_free EXCEPT ![i] = NoSlot]
                 /\ UNCHANGED <<generation, free_head>>
        BY <3>2, <1>0 DEF TypeOK
      <3>3. CASE /\ generation[i] + 1 \in 1..MaxGeneration
                 /\ generation' = [generation EXCEPT ![i] = @ + 1]
                 /\ next_free' = [next_free EXCEPT ![i] = free_head]
                 /\ free_head' = i
                 /\ UNCHANGED retired
        BY <3>1, <3>3, <1>0, <1>1 DEF TypeOK
      <3> QED  BY <3>2, <3>3, <1>6
    <2> QED  BY <1>0, <1>2, <2>1, <2>2 DEF TypeOK
  <1>8. \A j \in Slots \ {i} :
          /\ object'[j] = object[j] /\ generation'[j] = generation[j]
          /\ retired'[j] = retired[j] /\ next_free'[j] = next_free[j]
    BY <1>0, <1>2, <1>6 DEF TypeOK
  <1>9. i \notin FreeSlots /\ NoSlot \notin Slots
    BY <1>1 DEF FreeSlots, NoSlot, Slots
  <1>10. FreeListSound'
    <2>1. CASE /\ retired' = [retired EXCEPT ![i] = TRUE]
               /\ UNCHANGED <<generation, free_head>>
      <3>1. FreeSlots' = FreeSlots
        BY <2>1, <1>0, <1>1, <1>2, <1>8 DEF FreeSlots, TypeOK
      <3>2. \A j \in FreeSlots : next_free'[j] = next_free[j]
        BY <1>8, <1>9 DEF FreeSlots
      <3> QED  BY <2>1, <3>1, <3>2, <1>1, <1>2 DEF SlotInv, FreeListSound
    <2>2. CASE /\ generation[i] + 1 \in 1..MaxGeneration
               /\ generation' = [generation EXCEPT ![i] = @ + 1]
               /\ next_free' = [next_free EXCEPT ![i] = free_head]
               /\ free_head' = i
               /\ UNCHANGED retired
      <3>1. FreeSlots' = FreeSlots \cup {i}
        BY <2>2, <1>0, <1>1, <1>2, <1>8 DEF FreeSlots, TypeOK
      <3>2. \A j \in FreeSlots : /\ next_free'[j] = next_free[j]
                                 /\ generation'[j] = generation[j]
        BY <1>8, <1>9 DEF FreeSlots
      <3>3. next_free'[i] = free_head /\ generation'[i] # 0
        BY <2>2, <1>0, <1>1, HeapAssumption DEF TypeOK
      <3>4. /\ free_head \in FreeSlots \cup {NoSlot}
            /\ \A j \in FreeSlots :
                 /\ generation[j] # 0
                 /\ next_free[j] \in FreeSlots \cup {NoSlot}
                 /\ next_free[j] = free_head => free_head = NoSlot
                 /\ \A k \in FreeSlots :
                      next_free[j] = next_free[k] /\ j # k
                        => next_free[j] = NoSlot
        BY <1>1 DEF SlotInv, FreeListSound
      <3>5. i # NoSlot
        BY <1>1, <1>9
      <3> QED  BY <2>2, <3>1, <3>2, <3>3, <3>4, <3>5, <1>9 DEF FreeListSound
    <2> QED  BY <1>6, <2>1, <2>2
  <1>11. SlotsSound'
    <2>1. high_water' <= capacity'
      BY <1>2 DEF SlotInv, SlotsSound
    <2>2. object'[i] = Null
      BY <1>0, <1>1, <1>2 DEF TypeOK
    <2>3. ASSUME NEW j \in Slots, object'[j] # Null
          PROVE  /\ open' /\ j < high_water'
                 /\ ~retired'[j]
                 /\ generation'[j] # 0
                 /\ id'[object'[j]] = make_id(Type, generation'[j], j)
      BY <2>2, <2>3, <1>2, <1>8 DEF SlotInv, SlotsSound
    <2>4. ASSUME NEW j \in Slots, j >= high_water' PROVE ~retired'[j]
      <3>1. j # i
        BY <2>4, <1>0, <1>1, <1>2 DEF TypeOK, Slots
      <3> QED  BY <2>4, <3>1, <1>1, <1>2, <1>8 DEF SlotInv, SlotsSound
    <2> QED  BY <2>1, <2>3, <2>4 DEF SlotsSound
  <1>12. HandlesSound'
    <2>1. ASSUME NEW p \in Objects, id[p] # 0
          PROVE  HandleAged(p)'
      <3> DEFINE j == id_index(id[p])
                 k == id_generation(id[p])
      <3>1. /\ j \in Slots /\ k \in 1..MaxGeneration
            /\ id[p] = make_id(Type, k, j)
            /\ j < high_water /\ k <= generation[j]
            /\ k = generation[j] => object[j] = p \/ retired[j]
        BY <2>1, <1>1 DEF SlotInv, HandlesSound, HandleAged
      <3>2. CASE j # i
        BY <3>1, <3>2, <1>2, <1>8 DEF HandleAged
      <3>3. CASE j = i
        <4>1. k <= generation'[j] /\ (k = generation'[j] => retired'[j])
          BY <3>1, <3>3, <1>0, <1>1, <1>5, <1>6, HeapAssumption DEF TypeOK
        <4> QED  BY <3>1, <4>1, <1>2 DEF HandleAged
      <3> QED  BY <3>2, <3>3
    <2> QED  BY <2>1, <1>2 DEF SlotInv, HandlesSound
  <1>13. RefsExact'
    <2>1. /\ IsFiniteSet(holders[o])
          /\ Cardinality(holders[o] \cup {h}) = Cardinality(holders[o]) + 1
      BY <1>0, <1>1, <1>2, RefsCount
    <2>2. Cardinality(holders[o]) \in Nat
      BY <2>1, FS_CardinalityType
    <2> SUFFICES ASSUME NEW p \in Objects
                 PROVE  refs'[p] = Cardinality(holders'[p])
                                     + (IF InHeap(p)' THEN 1 ELSE 0)
      BY DEF RefsExact
    <2>3. CASE p = o
      <3>1. refs[p] = Cardinality(holders[p]) + 1
        BY <2>3, <1>4 DEF RefsExact
      <3>2. refs'[p] = refs[p] /\ holders'[p] = holders[p] \cup {h}
        BY <2>3, <1>0, <1>2 DEF TypeOK
      <3>3. ~InHeap(p)'
        BY <2>3, <1>3
      <3> QED  BY <3>1, <3>2, <3>3, <2>1, <2>2, <2>3
    <2>4. CASE p # o
      BY <2>4, <1>0, <1>2, <1>3 DEF TypeOK, RefsExact
    <2> QED  BY <2>3, <2>4
  <1>14. LifetimeExact'
    BY <1>0, <1>1, <1>2, <1>3, <1>4 DEF TypeOK, LifetimeExact
  <1>15. CountExact'
    <2>1. Occupied' = Occupied \ {i} /\ i \in Occupied
      BY <1>0, <1>1, <1>2 DEF Occupied, TypeOK
    <2>2. Cardinality(Occupied \ {i}) = Cardinality(Occupied) - 1
      BY <2>1, OccupiedFinite, FS_RemoveElement
    <2> QED  BY <2>1, <2>2, <1>2 DEF CountExact, Occupied
  <1> QED  BY <1>7, <1>10, <1>11, <1>12, <1>13, <1>14, <1>15 DEF SlotInv

(* The end of the heap gives back every reference it has.                  *)
LEMMA FinishKeeps ==
  ASSUME HeapInv, rk_object_heap_finish
  PROVE  HeapInv'
  <1> USE DEF HeapInv
  <1>0. SlotInv /\ TypeOK
    BY DEF SlotInv
  <1>1. \A o \in Objects : InHeap(o) =>
          refs[o] >= 1 /\ (refs[o] = 1 <=> holders[o] = {})
    BY <1>0, RefsCount
  <1>2. \A o \in Objects : ~InHeap(o)'
    BY HeapAssumption DEF rk_object_heap_finish, InHeap
  <1>3. TypeOK'
    <2>1. refs' \in [Objects -> Nat]
      BY <1>0, <1>1 DEF TypeOK, rk_object_heap_finish
    <2>2. life' \in [Objects -> {"unborn", "live", "destroyed"}]
      BY <1>0 DEF TypeOK, rk_object_heap_finish
    <2>3. 0 \in Slots /\ 0 \in 0..MaxSlots /\ 0 \in 0..MaxGeneration
      BY HeapAssumption, LayoutNat DEF Slots
    <2>4. /\ object' \in [Slots -> Objects \cup {Null}]
          /\ generation' \in [Slots -> 0..MaxGeneration]
          /\ retired' \in [Slots -> BOOLEAN]
          /\ next_free' \in [Slots -> Slots \cup {NoSlot}]
      BY <2>3 DEF rk_object_heap_finish
    <2>5. /\ free_head' \in Slots \cup {NoSlot}
          /\ high_water' \in 0..MaxSlots
          /\ capacity' \in 0..MaxSlots
          /\ count' \in Int
      <3>1. /\ free_head' = 0 /\ high_water' = 0
            /\ capacity' = 0 /\ count' = 0
        BY DEF rk_object_heap_finish
      <3> QED  BY <2>3, <3>1
    <2>6. open' \in BOOLEAN /\ holders' = holders /\ id' = id
      BY DEF rk_object_heap_finish
    <2> QED  BY <1>0, <2>1, <2>2, <2>4, <2>5, <2>6 DEF TypeOK
  <1>4. FreeListSound' /\ SlotsSound'
    BY DEF FreeListSound, SlotsSound, rk_object_heap_finish
  <1>5. HandlesSound'
    BY DEF SlotInv, HandlesSound, HandleAged, rk_object_heap_finish
  <1>6. RefsExact'
    <2> SUFFICES ASSUME NEW p \in Objects
                 PROVE  refs'[p] = Cardinality(holders'[p])
                                     + (IF InHeap(p)' THEN 1 ELSE 0)
      BY DEF RefsExact
    <2>1. IsFiniteSet(holders[p])
      BY <1>0, RefsCount
    <2>2. Cardinality(holders[p]) \in Nat
      BY <2>1, FS_CardinalityType
    <2>3. refs[p] = Cardinality(holders[p]) + (IF InHeap(p) THEN 1 ELSE 0)
      BY DEF RefsExact
    <2>4. /\ refs'[p] = IF InHeap(p) THEN refs[p] - 1 ELSE refs[p]
          /\ holders'[p] = holders[p]
      BY DEF rk_object_heap_finish
    <2> QED  BY <2>2, <2>3, <2>4, <1>2
  <1>7. LifetimeExact'
    BY <1>0, <1>1, <1>2 DEF TypeOK, LifetimeExact, rk_object_heap_finish
  <1>8. CountExact'
    <2>1. {i \in Slots : object'[i] # Null} = {}
      BY DEF rk_object_heap_finish
    <2> QED  BY <2>1, FS_EmptySet DEF CountExact, rk_object_heap_finish
  <1> QED  BY <1>3, <1>4, <1>5, <1>6, <1>7, <1>8 DEF SlotInv

-----------------------------------------------------------------------------
(***************************************************************************)
(* Theorems.                                                               *)
(***************************************************************************)

(* One step of the heap, whatever call takes it, keeps the invariant.      *)
LEMMA NextHeapInv == HeapInv /\ [Next]_vars => HeapInv'
  <1> SUFFICES ASSUME HeapInv, [Next]_vars PROVE HeapInv'
    OBVIOUS
  <1>1. ASSUME NEW h \in Holders, NEW o \in Objects, rk_object_init(h, o)
        PROVE  HeapInv'
    BY <1>1, InitObjectKeeps
  <1>2. ASSUME NEW h \in Holders, NEW o \in Objects, NEW g \in Holders,
               rk_object_ref(h, g, o)
        PROVE  HeapInv'
    BY <1>2, AddHolderKeeps DEF rk_object_ref
  <1>3. ASSUME NEW h \in Holders, NEW o \in Objects, rk_object_unref(h, o)
        PROVE  HeapInv'
    BY <1>3, DropRefKeeps DEF rk_object_unref
  <1>4. ASSUME NEW h \in Holders, NEW o \in Objects,
               insert_reused(h, o) \/ insert_fresh(h, o)
        PROVE  HeapInv'
    BY <1>4, InsertKeeps
  <1>5. ASSUME NEW h \in Holders, NEW o \in Objects, insert_failed(h, o)
        PROVE  HeapInv'
    BY <1>5, DropRefKeeps DEF insert_failed, Creating
  <1>6. ASSUME NEW h \in Holders, NEW x \in Handles,
               rk_object_heap_acquire(h, x)
        PROVE  HeapInv'
    <2>1. x \in Nat /\ x <= MaxHandle
      BY HeapAssumption, LayoutNat
    <2>2. id_index(x) \in Nat
      BY <2>1, MakeDecodeId
    <2>3. lookup(x) \in Objects /\ InHeap(lookup(x))
      BY <1>6, <2>1, <2>2, LookupFinds
      DEF HeapInv, rk_object_heap_acquire, InHeap
    <2> QED  BY <1>6, <2>3, AddHolderKeeps DEF rk_object_heap_acquire
  <1>7. ASSUME NEW h \in Holders, NEW x \in Handles,
               rk_object_heap_remove(h, x)
        PROVE  HeapInv'
    BY <1>7, RemoveKeeps
  <1>8. CASE rk_object_heap_finish
    BY <1>8, FinishKeeps
  <1>9. CASE UNCHANGED vars
    <2>1. TypeOK'
      BY <1>9 DEF HeapInv, SlotInv, TypeOK, vars, slotVars, heapVars
    <2>2. SlotInv' /\ CountExact' /\ \A p \in Objects : InHeap(p)' <=> InHeap(p)
      BY <1>9, <2>1, SlotsUntouched DEF HeapInv, vars
    <2>3. RefsExact' /\ LifetimeExact'
      BY <1>9, <2>2 DEF HeapInv, RefsExact, LifetimeExact, vars
    <2> QED  BY <2>2, <2>3 DEF HeapInv
  <1> QED
    BY <1>1, <1>2, <1>3, <1>4, <1>5, <1>6, <1>7, <1>8, <1>9 DEF Next

(* The inductive invariant holds in every reachable state.                 *)
THEOREM HeapCorrect == Spec => []HeapInv
  <1>1. Init => HeapInv
    BY InitHeapInv
  <1>2. HeapInv /\ [Next]_vars => HeapInv'
    BY NextHeapInv
  <1> QED  BY <1>1, <1>2, PTL DEF Spec

(* The fields of the heap keep their types: in particular no call of       *)
(* object_heap.c indexes the slot array out of bounds or drops a reference *)
(* counter below zero.                                                     *)
THEOREM HeapTypes == Spec => []TypeOK
  <1>1. HeapInv => TypeOK
    BY DEF HeapInv, SlotInv
  <1> QED  BY <1>1, HeapCorrect, PTL

(* The free list only ever leads insert to usable slots.                   *)
THEOREM FreeListCorrect == Spec => []FreeListSound
  <1>1. HeapInv => FreeListSound
    BY DEF HeapInv, SlotInv
  <1> QED  BY <1>1, HeapCorrect, PTL

(* heap->count is the number of occupied slots.                            *)
THEOREM CountCorrect == Spec => []CountExact
  <1>1. HeapInv => CountExact
    BY DEF HeapInv
  <1> QED  BY <1>1, HeapCorrect, PTL

(* Reference counters are exact and an object is destroyed exactly when    *)
(* its last reference goes, for any interleaving of acquire, ref, unref,   *)
(* remove and terminate.                                                   *)
THEOREM LifetimeCorrect == Spec => [](RefsExact /\ LifetimeExact)
  <1>1. HeapInv => RefsExact /\ LifetimeExact
    BY DEF HeapInv
  <1> QED  BY <1>1, HeapCorrect, PTL

(* A handle resolves to the object it was given to, or to nothing.         *)
THEOREM HandleCorrect == Spec => []HandleNamesOneObject
  <1>1. ASSUME HeapInv PROVE HandleNamesOneObject
    <2>1. ASSUME NEW x \in Handles, lookup(x) # Null PROVE id[lookup(x)] = x
      <3>1. x \in Nat /\ x <= MaxHandle
        BY HeapAssumption, LayoutNat
      <3>2. /\ id_index(x) \in Nat
            /\ make_id(id_type(x), id_generation(x), id_index(x)) = x
        BY <3>1, MakeDecodeId
      <3>3. /\ id_index(x) \in Slots
            /\ object[id_index(x)] = lookup(x)
            /\ generation[id_index(x)] = id_generation(x)
            /\ id_type(x) = Type
        BY <1>1, <2>1, <3>1, <3>2, LookupFinds DEF HeapInv
      <3>4. id[lookup(x)] = make_id(Type, id_generation(x), id_index(x))
        BY <1>1, <2>1, <3>3 DEF HeapInv, SlotInv, SlotsSound
      <3> QED  BY <3>2, <3>3, <3>4
    <2>2. \A o, p \in Objects : o # p /\ id[o] = id[p] => id[o] = 0
      BY <1>1 DEF HeapInv, SlotInv, HandlesSound
    <2> QED  BY <2>1, <2>2 DEF HandleNamesOneObject
  <1> QED  BY <1>1, HeapCorrect, PTL

(* No later insert, remove or terminate brings a dead handle back.         *)
THEOREM DeadHandlesStayDead == Spec => DeadHandleStaysDead
  <1>1. ASSUME HeapInv, HeapInv', [Next]_vars, NEW o \in Objects,
               id[o] # 0, lookup(id[o]) = Null
        PROVE  lookup(id[o])' = Null
    <2> DEFINE i == id_index(id[o])
               g == id_generation(id[o])
    <2>0. TypeOK
      BY <1>1 DEF HeapInv, SlotInv
    <2>1. /\ i \in Slots /\ g \in 1..MaxGeneration
          /\ id[o] = make_id(Type, g, i)
          /\ open => /\ i < high_water
                     /\ g <= generation[i]
                     /\ g = generation[i] => object[i] = o \/ retired[i]
      BY <1>1 DEF HeapInv, SlotInv, HandlesSound, HandleAged
    <2>2. open => g < generation[i] \/ retired[i]
      <3>1. id_type(id[o]) = Type
        BY <2>1, MakeIdHere, HeapAssumption
      <3>2. g # 0
        BY <2>1
      <3>3. open /\ ~retired[i] /\ generation[i] = g => object[i] = Null
        BY <1>1, <2>1, <3>1, <3>2 DEF lookup, decode_id
      <3>4. open /\ ~retired[i] => generation[i] # g
        BY <2>1, <3>3, HeapAssumption
      <3>5. generation[i] \in Nat /\ g \in Nat
        BY <2>0, <2>1 DEF TypeOK
      <3> QED  BY <2>1, <3>4, <3>5
    <2>3. id'[o] = id[o]
      <3>1. CASE \E h \in Holders, p \in Objects :
                   insert_reused(h, p) \/ insert_fresh(h, p)
        <4>1. PICK h \in Holders, p \in Objects :
                     insert_reused(h, p) \/ insert_fresh(h, p)
          BY <3>1
        <4>2. p # o
          BY <1>1, <4>1 DEF insert_reused, insert_fresh, Creating
        <4>3. id' = id \/ id' = [id EXCEPT ![p] = id'[p]]
          BY <4>1, <2>0 DEF insert_reused, insert_fresh, Place, Occupy,
                            Rejected, TypeOK
        <4> QED  BY <4>2, <4>3, <2>0 DEF TypeOK
      <3>2. CASE UNCHANGED id
        BY <3>2
      <3> QED
        BY <1>1, <3>1, <3>2
        DEF Next, vars, rk_object_init, rk_object_ref, rk_object_unref,
            insert_failed, rk_object_heap_acquire, rk_object_heap_remove,
            rk_object_heap_finish
    <2>4. open' => g < generation'[i] \/ retired'[i]
      <3>1. CASE UNCHANGED <<slotVars, heapVars>>
        BY <3>1, <2>2 DEF slotVars, heapVars
      <3>2. ASSUME NEW h \in Holders, NEW p \in Objects,
                   insert_reused(h, p) \/ insert_fresh(h, p), open'
            PROVE  g < generation'[i] \/ retired'[i]
        <4>1. PICK j \in Slots, k \in 1..MaxGeneration :
                /\ Occupy(h, p, j, k)
                /\ (j < high_water /\ k = generation[j]) \/ j = high_water
          BY <1>1, <3>2, InsertOccupies DEF HeapInv
        <4>2. open /\ retired' = retired
          BY <3>2, <4>1 DEF insert_reused, insert_fresh, Occupy
        <4>3. i # high_water
          BY <2>0, <2>1, <4>2 DEF TypeOK, Slots
        <4>4. generation'[i] = generation[i]
          BY <2>0, <2>1, <4>1, <4>3 DEF Occupy, TypeOK
        <4> QED  BY <2>2, <4>2, <4>4
      <3>3. ASSUME NEW h \in Holders, NEW x \in Handles,
                   rk_object_heap_remove(h, x), open'
            PROVE  g < generation'[i] \/ retired'[i]
        <4> DEFINE j == id_index(x)
        <4>1. open /\ Recycle(j)
          BY <3>3 DEF rk_object_heap_remove
        <4>2. generation[i] \in Nat /\ g \in Nat
          BY <2>0, <2>1 DEF TypeOK
        <4>3. g < generation[i] => g < generation[i] + 1
          BY <4>2
        <4>4. generation'[i] = generation[i] \/ generation'[i] = generation[i] + 1
          BY <2>0, <2>1, <4>1 DEF Recycle, TypeOK
        <4>5. retired[i] => retired'[i]
          BY <2>0, <2>1, <4>1 DEF Recycle, TypeOK
        <4> QED  BY <2>2, <4>1, <4>3, <4>4, <4>5
      <3>4. CASE rk_object_heap_finish
        BY <3>4 DEF rk_object_heap_finish
      <3> QED
        BY <1>1, <3>1, <3>2, <3>3, <3>4
        DEF Next, vars, rk_object_init, rk_object_ref, rk_object_unref,
            insert_failed, rk_object_heap_acquire
    <2>5. open' => generation'[i] # g \/ retired'[i]
      <3>1. generation'[i] \in Nat /\ g \in Nat
        BY <1>1, <2>1 DEF HeapInv, SlotInv, TypeOK
      <3> QED  BY <2>4, <3>1
    <2> QED  BY <2>3, <2>5 DEF lookup
  <1>2. HeapInv /\ HeapInv' /\ [Next]_vars
          => [\A o \in Objects :
                id[o] # 0 /\ lookup(id[o]) = Null => lookup(id[o])' = Null]_vars
    BY <1>1
  <1> QED  BY <1>2, HeapCorrect, PTL DEF Spec, DeadHandleStaysDead

-----------------------------------------------------------------------------
(***************************************************************************)
(* Refinement.                                                             *)
(***************************************************************************)

(* Every behaviour of the heap is a behaviour of the registry.             *)
THEOREM HeapImplementsRegistry == Spec => ImplementsRegistry
  <1> DEFINE pub == {o \in Objects : InHeap(o)}
  <1>1. Init => Registry!Init
    BY HeapAssumption DEF Init, Registry!Init, InHeap
  <1>2. ASSUME HeapInv, HeapInv', [Next]_vars
        PROVE  [Registry!Next]_(Registry!vars)
    <2>0. TypeOK /\ SlotInv /\ RefsExact
      BY <1>2 DEF HeapInv, SlotInv
    <2> USE DEF Registry!Next
    <2>1. ASSUME UNCHANGED <<slotVars, heapVars, id>>
          PROVE  pub' = pub
      BY <2>1 DEF InHeap, slotVars
    <2>2. ASSUME NEW h \in Holders, NEW o \in Objects, rk_object_init(h, o)
          PROVE  Registry!Next
      <3>1. Registry!New(h, o)
        BY <2>1, <2>2 DEF rk_object_init, Registry!New
      <3> QED  BY <3>1
    <2>3. ASSUME NEW h \in Holders, NEW o \in Objects, NEW g \in Holders,
                 rk_object_ref(h, g, o)
          PROVE  Registry!Next
      <3>1. Registry!Share(h, g, o)
        BY <2>1, <2>3 DEF rk_object_ref, Registry!Share
      <3> QED  BY <3>1
    <2>4. ASSUME NEW h \in Holders, NEW o \in Objects, h \in holders[o],
                 DropRef(h, o), UNCHANGED <<slotVars, heapVars, id>>
          PROVE  Registry!Next
      <3>1. holders'[o] = holders[o] \ {h}
        BY <2>0, <2>4 DEF DropRef, TypeOK
      <3>2. refs[o] = 1 <=> holders'[o] = {} /\ o \notin pub
        BY <2>0, <2>4, <3>1, RefsCount
      <3>3. Registry!Drop(h, o)
        BY <2>1, <2>4, <3>2 DEF DropRef, Registry!Drop
      <3> QED  BY <3>3
    <2>5. ASSUME NEW h \in Holders, NEW o \in Objects,
                 insert_reused(h, o) \/ insert_fresh(h, o)
          PROVE  Registry!Next
      <3>1. PICK i \in Slots, g \in 1..MaxGeneration :
              Occupy(h, o, i, g) /\ object[i] = Null
        BY <2>0, <2>5, InsertOccupies
      <3> DEFINE x == make_id(Type, g, i)
      <3>2. x \in Handles /\ x # 0
        BY HandlesAssumption, HeapAssumption, MakeIdHere
      <3>3. id'[o] = x /\ \A p \in Objects \ {o} : id'[p] = id[p]
        BY <2>0, <3>1 DEF Occupy, TypeOK
      <3>4. h \in holders[o] /\ id[o] = 0
        BY <2>5 DEF insert_reused, insert_fresh, Creating
      <3>5. \A p \in Objects : id[p] # x
        BY <1>2, <3>2, <3>3, <3>4 DEF HeapInv, SlotInv, HandlesSound
      <3>6. pub' = pub \cup {o}
        BY <2>0, <3>1, OccupyPublishes DEF Occupy
      <3>7. Registry!Publish(h, o, x)
        BY <3>1, <3>4, <3>5, <3>6 DEF Occupy, Registry!Publish
      <3> QED  BY <3>2, <3>7
    <2>6. ASSUME NEW h \in Holders, NEW y \in Handles, lookup(y) # Null
          PROVE  /\ lookup(y) \in Objects /\ lookup(y) \in pub
                 /\ id_index(y) \in Slots /\ object[id_index(y)] = lookup(y)
      <3>1. y \in Nat /\ y <= MaxHandle
        BY HeapAssumption, LayoutNat
      <3>2. id_index(y) \in Nat
        BY <3>1, MakeDecodeId
      <3> QED  BY <2>0, <2>6, <3>1, <3>2, LookupFinds DEF InHeap
    <2>7. ASSUME NEW h \in Holders, NEW y \in Handles,
                 rk_object_heap_acquire(h, y)
          PROVE  Registry!Next
      <3>1. Registry!Lookup(h, lookup(y))
        BY <2>1, <2>6, <2>7 DEF rk_object_heap_acquire, Registry!Lookup
      <3> QED  BY <2>6, <2>7, <3>1 DEF rk_object_heap_acquire
    <2>8. ASSUME NEW h \in Holders, NEW y \in Handles,
                 rk_object_heap_remove(h, y)
          PROVE  Registry!Next
      <3>1. /\ lookup(y) \in Objects /\ lookup(y) \in pub
            /\ id_index(y) \in Slots /\ object[id_index(y)] = lookup(y)
            /\ object[id_index(y)] # Null
        BY <2>6, <2>8 DEF rk_object_heap_remove
      <3>2. object' = [object EXCEPT ![id_index(y)] = Null]
        BY <2>8 DEF rk_object_heap_remove
      <3>3. pub' = pub \ {lookup(y)}
        BY <2>0, <3>1, <3>2, RemoveWithdraws
      <3>4. Registry!Withdraw(h, lookup(y))
        BY <2>8, <3>1, <3>3 DEF rk_object_heap_remove, Registry!Withdraw
      <3> QED  BY <3>1, <3>4
    <2>9. ASSUME rk_object_heap_finish
          PROVE  Registry!Next
      <3>1. pub' = {}
        BY <2>9, HeapAssumption DEF rk_object_heap_finish, InHeap
      <3>2. \A o \in Objects : InHeap(o) => (refs[o] = 1 <=> holders[o] = {})
        BY <2>0, RefsCount
      <3>3. Registry!Shutdown
        BY <2>9, <3>1, <3>2 DEF rk_object_heap_finish, Registry!Shutdown
      <3> QED  BY <3>3
    <2>10. ASSUME UNCHANGED vars PROVE UNCHANGED Registry!vars
      BY <2>10, <2>1 DEF vars, Registry!vars
    <2> HIDE DEF Registry!Next
    <2>11. CASE Next
      BY <2>11, <2>2, <2>3, <2>4, <2>5, <2>7, <2>8, <2>9
      DEF Next, rk_object_unref, insert_failed, Creating
    <2> QED  BY <1>2, <2>10, <2>11
  <1> QED  BY <1>1, <1>2, HeapCorrect, PTL DEF Spec, ImplementsRegistry, Registry!Spec

-----------------------------------------------------------------------------
(***************************************************************************)
(* The free list loses no slot.                                            *)
(***************************************************************************)

(* l lists F once, from head along the links of next.                      *)
Chains(l, n, F, head, next) ==
  /\ l \in [1..n -> F]
  /\ head = (IF n >= 1 THEN l[1] ELSE NoSlot)
  /\ \A k \in 1..n : next[l[k]] = (IF k < n THEN l[k + 1] ELSE NoSlot)
  /\ \A i \in F : \E k \in 1..n : l[k] = i
  /\ \A j, k \in 1..n : l[j] = l[k] => j = k

(* A chain of as many slots as are free is what NoSlotLeaks asks for.      *)
LEMMA ChainsIsNoLeak ==
  ASSUME NEW n \in Nat, n = Cardinality(FreeSlots)
  PROVE  (\E l : Chains(l, n, FreeSlots, free_head, next_free)) <=>
         (\E l \in [1..Cardinality(FreeSlots) -> FreeSlots] :
            /\ FreeChain(l)
            /\ \A i \in FreeSlots : \E k \in DOMAIN l : l[k] = i
            /\ \A j, k \in DOMAIN l : l[j] = l[k] => j = k)
  <1>1. ASSUME NEW l \in [1..n -> FreeSlots]
        PROVE  FreeChain(l) <=>
                 /\ free_head = (IF n >= 1 THEN l[1] ELSE NoSlot)
                 /\ \A k \in 1..n : next_free[l[k]] =
                      (IF k < n THEN l[k + 1] ELSE NoSlot)
    <2>1. DOMAIN l = 1..n
      OBVIOUS
    <2>2. 1 \in DOMAIN l <=> n >= 1
      BY <2>1
    <2>3. \A k \in 1..n : k + 1 \in DOMAIN l <=> k < n
      BY <2>1
    <2> QED  BY <2>1, <2>2, <2>3 DEF FreeChain
  <1>2. \A l \in [1..n -> FreeSlots] : DOMAIN l = 1..n
    OBVIOUS
  <1> QED  BY <1>1, <1>2 DEF Chains

(* Taking the head leaves the rest of the list.                            *)
LEMMA ChainPops ==
  ASSUME NEW F \in SUBSET Slots, NEW n \in Nat, NEW l, NEW head \in F,
         NEW next \in [Slots -> Slots \cup {NoSlot}],
         Chains(l, n, F, head, next)
  PROVE  \E m : Chains(m, n - 1, F \ {head}, next[head],
                       [next EXCEPT ![head] = NoSlot])
  <1>1. NoSlot \notin F
    BY LayoutNat DEF Slots, NoSlot
  <1>2. n >= 1 /\ l[1] = head
    BY <1>1 DEF Chains
  <1> DEFINE m == [k \in 1..(n - 1) |-> l[k + 1]]
             after == [next EXCEPT ![head] = NoSlot]
  <1>3. \A k \in 1..(n - 1) : /\ k + 1 \in 1..n
                              /\ m[k] = l[k + 1]
                              /\ l[k + 1] \in F \ {head}
    <2> SUFFICES ASSUME NEW k \in 1..(n - 1)
                 PROVE  k + 1 \in 1..n /\ l[k + 1] \in F \ {head}
      OBVIOUS
    <2>1. k + 1 \in 1..n /\ 1 \in 1..n /\ k + 1 # 1
      BY <1>2
    <2> QED  BY <1>2, <2>1 DEF Chains
  <1>4. m \in [1..(n - 1) -> F \ {head}]
    BY <1>3
  <1>5. next[head] = (IF n - 1 >= 1 THEN m[1] ELSE NoSlot)
    <2>1. next[l[1]] = (IF 1 < n THEN l[1 + 1] ELSE NoSlot)
      BY <1>2 DEF Chains
    <2>2. n - 1 >= 1 => m[1] = l[1 + 1]
      OBVIOUS
    <2> QED  BY <1>2, <2>1, <2>2
  <1>6. ASSUME NEW k \in 1..(n - 1)
        PROVE  after[m[k]] = (IF k < n - 1 THEN m[k + 1] ELSE NoSlot)
    <2>1. next[l[k + 1]] = (IF k + 1 < n THEN l[(k + 1) + 1] ELSE NoSlot)
      BY <1>3 DEF Chains
    <2>2. after[m[k]] = next[l[k + 1]]
      BY <1>3
    <2>3. k < n - 1 => m[k + 1] = l[(k + 1) + 1]
      OBVIOUS
    <2>4. k < n - 1 <=> k + 1 < n
      OBVIOUS
    <2> QED  BY <2>1, <2>2, <2>3, <2>4
  <1>7. ASSUME NEW i \in F \ {head} PROVE \E k \in 1..(n - 1) : m[k] = i
    <2>1. PICK k \in 1..n : l[k] = i
      BY DEF Chains
    <2>2. k # 1
      BY <1>2, <2>1
    <2>3. k - 1 \in 1..(n - 1) /\ (k - 1) + 1 = k
      BY <2>2
    <2>4. m[k - 1] = i
      BY <2>1, <2>3
    <2> QED  BY <2>3, <2>4
  <1>8. ASSUME NEW j \in 1..(n - 1), NEW k \in 1..(n - 1), m[j] = m[k]
        PROVE  j = k
    <2>1. j + 1 = k + 1
      BY <1>3, <1>8 DEF Chains
    <2> QED  BY <2>1
  <1> HIDE DEF m
  <1> QED  BY <1>4, <1>5, <1>6, <1>7, <1>8 DEF Chains

(* A slot put before the head joins the list.                              *)
LEMMA ChainPushes ==
  ASSUME NEW F \in SUBSET Slots, NEW n \in Nat, NEW l, NEW head,
         NEW next \in [Slots -> Slots \cup {NoSlot}],
         NEW i \in Slots, i \notin F, Chains(l, n, F, head, next)
  PROVE  \E m : Chains(m, n + 1, F \cup {i}, i, [next EXCEPT ![i] = head])
  <1> DEFINE m == [k \in 1..(n + 1) |-> IF k = 1 THEN i ELSE l[k - 1]]
             after == [next EXCEPT ![i] = head]
  <1>1. /\ \A k \in 1..n : l[k] \in F /\ l[k] # i
        /\ 1 \in 1..(n + 1)
    BY DEF Chains
  <1>2. m[1] = i /\ \A k \in 1..(n + 1) : k # 1 => /\ k - 1 \in 1..n
                                                   /\ m[k] = l[k - 1]
    BY <1>1
  <1>3. m \in [1..(n + 1) -> F \cup {i}]
    <2>1. \A k \in 1..(n + 1) : m[k] \in F \cup {i}
      BY <1>1, <1>2
    <2> QED  BY <2>1
  <1> HIDE DEF m
  <1>4. i = (IF n + 1 >= 1 THEN m[1] ELSE NoSlot)
    BY <1>2
  <1>5. ASSUME NEW k \in 1..(n + 1)
        PROVE  after[m[k]] = (IF k < n + 1 THEN m[k + 1] ELSE NoSlot)
    <2>1. CASE k = 1
      <3>1. after[m[k]] = head
        BY <1>2, <2>1
      <3>2. head = (IF n >= 1 THEN l[1] ELSE NoSlot)
        BY DEF Chains
      <3>3. n >= 1 => m[2] = l[1]
        <4>1. n >= 1 => 2 \in 1..(n + 1) /\ 2 - 1 = 1
          OBVIOUS
        <4> QED  BY <1>2, <4>1
      <3>4. (k < n + 1 <=> n >= 1) /\ k + 1 = 2
        BY <2>1
      <3> QED  BY <3>1, <3>2, <3>3, <3>4
    <2>2. CASE k # 1
      <3>1. k - 1 \in 1..n /\ m[k] = l[k - 1]
        BY <1>2, <2>2
      <3>2. after[m[k]] = next[l[k - 1]]
        BY <1>1, <3>1
      <3>3. next[l[k - 1]] =
              (IF k - 1 < n THEN l[(k - 1) + 1] ELSE NoSlot)
        BY <3>1 DEF Chains
      <3>4. /\ k - 1 < n <=> k < n + 1
            /\ (k - 1) + 1 = k /\ (k + 1) - 1 = k
            /\ k < n + 1 => k + 1 \in 1..(n + 1) /\ k + 1 # 1
        OBVIOUS
      <3>5. k < n + 1 => m[k + 1] = l[k]
        BY <1>2, <3>4
      <3> QED  BY <3>2, <3>3, <3>4, <3>5
    <2> QED  BY <2>1, <2>2
  <1>6. ASSUME NEW j \in F \cup {i} PROVE \E k \in 1..(n + 1) : m[k] = j
    <2>1. CASE j = i
      BY <1>1, <1>2, <2>1
    <2>2. CASE j # i
      <3>1. PICK k \in 1..n : l[k] = j
        BY <2>2 DEF Chains
      <3>2. k + 1 \in 1..(n + 1) /\ k + 1 # 1 /\ (k + 1) - 1 = k
        OBVIOUS
      <3> QED  BY <1>2, <3>1, <3>2
    <2> QED  BY <2>1, <2>2
  <1>7. ASSUME NEW j \in 1..(n + 1), NEW k \in 1..(n + 1), m[j] = m[k]
        PROVE  j = k
    <2>1. j = 1 <=> k = 1
      BY <1>1, <1>2, <1>7
    <2>2. CASE j # 1
      <3>1. j - 1 \in 1..n /\ k - 1 \in 1..n /\ l[j - 1] = l[k - 1]
        BY <1>2, <1>7, <2>1, <2>2
      <3>2. j - 1 = k - 1
        BY <3>1 DEF Chains
      <3> QED  BY <3>2
    <2> QED  BY <2>1, <2>2
  <1> QED  BY <1>3, <1>4, <1>5, <1>6, <1>7 DEF Chains

(* A link of a slot that is not on the list does not matter.               *)
LEMMA ChainKeeps ==
  ASSUME NEW F \in SUBSET Slots, NEW n \in Nat, NEW l, NEW head,
         NEW next \in [Slots -> Slots \cup {NoSlot}],
         NEW i \in Slots, i \notin F, NEW x, Chains(l, n, F, head, next)
  PROVE  Chains(l, n, F, head, [next EXCEPT ![i] = x])
  <1>1. \A k \in 1..n : [next EXCEPT ![i] = x][l[k]] = next[l[k]]
    BY DEF Chains
  <1> QED  BY <1>1 DEF Chains

(* The free slots are finitely many.                                       *)
LEMMA FreeFinite ==
  FreeSlots \in SUBSET Slots /\ IsFiniteSet(FreeSlots)
    /\ Cardinality(FreeSlots) \in Nat
  <1>1. IsFiniteSet(Slots)
    BY FS_Interval, HeapAssumption, LayoutNat DEF Slots
  <1>2. FreeSlots \in SUBSET Slots
    BY DEF FreeSlots
  <1>3. IsFiniteSet(FreeSlots)
    BY <1>1, <1>2, FS_Subset
  <1> QED  BY <1>2, <1>3, FS_CardinalityType

(* While the heap is open, the free slots are on the free list.            *)
ListInv ==
  open => \E l : Chains(l, Cardinality(FreeSlots), FreeSlots, free_head,
                        next_free)

(* insert takes the head of the list, or opens a slot when it is empty.    *)
LEMMA InsertKeepsList ==
  ASSUME SlotInv, ListInv, NEW h \in Holders, NEW o \in Objects,
         insert_reused(h, o) \/ insert_fresh(h, o)
  PROVE  ListInv'
  <1>1. PICK i \in Slots, g \in 1..MaxGeneration :
           /\ Occupy(h, o, i, g)
           /\ object[i] = Null /\ ~retired[i]
           /\ \/ /\ i = free_head /\ i < high_water
                 /\ free_head' = next_free[free_head]
                 /\ UNCHANGED <<high_water, open>>
              \/ /\ i = high_water /\ free_head = NoSlot
                 /\ high_water' = high_water + 1
                 /\ UNCHANGED <<free_head, open>>
    BY InsertOccupies
  <1>2. /\ object' = [object EXCEPT ![i] = o]
        /\ next_free' = [next_free EXCEPT ![i] = NoSlot]
        /\ UNCHANGED retired
    BY <1>1 DEF Occupy
  <1>3. /\ object \in [Slots -> Objects \cup {Null}] /\ o # Null
        /\ next_free \in [Slots -> Slots \cup {NoSlot}]
        /\ high_water \in Nat
    BY HeapAssumption DEF SlotInv, TypeOK
  <1>4. open
    BY DEF insert_reused, insert_fresh
  <1>5. PICK l : Chains(l, Cardinality(FreeSlots), FreeSlots, free_head,
                        next_free)
    BY <1>4 DEF ListInv
  <1>6. CASE i = free_head /\ i < high_water
             /\ free_head' = next_free[free_head] /\ high_water' = high_water
    <2>1. i \in FreeSlots
      BY <1>1, <1>6 DEF FreeSlots
    <2>2. FreeSlots' = FreeSlots \ {i}
      BY <1>2, <1>3, <1>6 DEF FreeSlots
    <2>3. Cardinality(FreeSlots \ {i}) = Cardinality(FreeSlots) - 1
      BY <2>1, FreeFinite, FS_RemoveElement
    <2>4. \E m : Chains(m, Cardinality(FreeSlots) - 1, FreeSlots \ {i},
                        next_free[i], [next_free EXCEPT ![i] = NoSlot])
      BY <1>3, <1>5, <1>6, <2>1, FreeFinite, ChainPops
    <2> QED  BY <1>2, <1>6, <2>2, <2>3, <2>4 DEF ListInv
  <1>7. CASE i = high_water /\ free_head = NoSlot
             /\ high_water' = high_water + 1 /\ free_head' = free_head
    <2>1. FreeSlots = {}
      <3>1. \A k \in Slots : k # NoSlot
        BY LayoutNat DEF Slots, NoSlot
      <3>2. ~(Cardinality(FreeSlots) >= 1)
        <4>1. SUFFICES ASSUME Cardinality(FreeSlots) >= 1 PROVE FALSE
          OBVIOUS
        <4>2. 1 \in 1..Cardinality(FreeSlots)
          BY <4>1, FreeFinite
        <4>3. l[1] \in FreeSlots /\ l[1] = free_head
          BY <1>5, <4>1, <4>2 DEF Chains
        <4> QED  BY <1>7, <3>1, <4>3, FreeFinite
      <3>3. Cardinality(FreeSlots) = 0
        BY <3>2, FreeFinite
      <3> QED  BY <3>3, FreeFinite, FS_EmptySet
    <2>2. FreeSlots' = {}
      <3>1. ASSUME NEW k \in Slots, k < high_water', object'[k] = Null,
                   ~retired'[k]
            PROVE  FALSE
        <4>1. k # i
          BY <1>2, <1>3, <3>1
        <4>2. k < high_water
          BY <1>3, <1>7, <3>1, <4>1, LayoutNat, HeapAssumption DEF Slots
        <4>3. object[k] = Null /\ ~retired[k]
          BY <1>2, <1>3, <3>1, <4>1
        <4> QED  BY <2>1, <4>2, <4>3 DEF FreeSlots
      <3> QED  BY <3>1 DEF FreeSlots
    <2>3. Cardinality({}) = 0
      BY FS_EmptySet
    <2>4. Chains(<<>>, 0, {}, NoSlot, next_free')
      <3>1. 1..0 = {}
        OBVIOUS
      <3>2. <<>> \in [1..0 -> {}]
        OBVIOUS
      <3> QED  BY <3>1, <3>2 DEF Chains
    <2> QED  BY <1>7, <2>2, <2>3, <2>4 DEF ListInv
  <1> QED  BY <1>1, <1>6, <1>7

(* remove puts the slot on the list, unless it retires it.                 *)
LEMMA RemoveKeepsList ==
  ASSUME SlotInv, ListInv, NEW h \in Holders, NEW x \in Handles,
         rk_object_heap_remove(h, x)
  PROVE  ListInv'
  <1> DEFINE i == id_index(x)
  <1>1. /\ open /\ i \in Slots /\ i < high_water /\ ~retired[i]
        /\ object[i] # Null
    <2>1. x \in Nat /\ x <= MaxHandle
      BY HeapAssumption, LayoutNat
    <2>2. i \in Nat
      BY <2>1, MakeDecodeId
    <2> QED  BY <2>1, <2>2, LookupFinds, HeapAssumption
             DEF rk_object_heap_remove
  <1>2. /\ object' = [object EXCEPT ![i] = Null]
        /\ Recycle(i) /\ UNCHANGED high_water
    BY DEF rk_object_heap_remove
  <1> HIDE DEF i
  <1>3. /\ object \in [Slots -> Objects \cup {Null}]
        /\ retired \in [Slots -> BOOLEAN]
        /\ next_free \in [Slots -> Slots \cup {NoSlot}]
    BY DEF SlotInv, TypeOK
  <1>4. i \notin FreeSlots
    BY <1>1 DEF FreeSlots
  <1>5. PICK l : Chains(l, Cardinality(FreeSlots), FreeSlots, free_head,
                        next_free)
    BY <1>1 DEF ListInv
  <1>6. CASE generation[i] = MaxGeneration
    <2>1. /\ retired' = [retired EXCEPT ![i] = TRUE]
          /\ next_free' = [next_free EXCEPT ![i] = NoSlot]
          /\ free_head' = free_head
      BY <1>2, <1>6 DEF Recycle
    <2>2. FreeSlots' = FreeSlots
      BY <1>1, <1>2, <1>3, <2>1 DEF FreeSlots
    <2>3. Chains(l, Cardinality(FreeSlots), FreeSlots, free_head,
                 [next_free EXCEPT ![i] = NoSlot])
      BY <1>1, <1>3, <1>4, <1>5, FreeFinite, ChainKeeps
    <2> QED  BY <2>1, <2>2, <2>3 DEF ListInv
  <1>7. CASE generation[i] # MaxGeneration
    <2>1. /\ next_free' = [next_free EXCEPT ![i] = free_head]
          /\ free_head' = i /\ UNCHANGED retired
      BY <1>2, <1>7 DEF Recycle
    <2>2. FreeSlots' = FreeSlots \cup {i}
      BY <1>1, <1>2, <1>3, <2>1 DEF FreeSlots
    <2>3. Cardinality(FreeSlots \cup {i}) = Cardinality(FreeSlots) + 1
      BY <1>4, FreeFinite, FS_AddElement
    <2>4. \E m : Chains(m, Cardinality(FreeSlots) + 1, FreeSlots \cup {i}, i,
                        [next_free EXCEPT ![i] = free_head])
      BY <1>1, <1>3, <1>4, <1>5, FreeFinite, ChainPushes
    <2> QED  BY <2>1, <2>2, <2>3, <2>4 DEF ListInv
  <1> QED  BY <1>6, <1>7

(* No slot is lost by any order of inserts and removes: the chain that     *)
(* starts at free_head holds every emptied slot that is not retired, once. *)
THEOREM NoSlotIsLost == Spec => []NoSlotLeaks
  <1>1. Init => ListInv
    <2>1. SUFFICES ASSUME Init PROVE ListInv
      OBVIOUS
    <2>2. FreeSlots = {}
      BY <2>1, LayoutNat DEF Init, FreeSlots, Slots
    <2>3. Cardinality({}) = 0
      BY FS_EmptySet
    <2>4. Chains(<<>>, 0, {}, NoSlot, next_free)
      <3>1. 1..0 = {}
        OBVIOUS
      <3>2. <<>> \in [1..0 -> {}]
        OBVIOUS
      <3> QED  BY <3>1, <3>2 DEF Chains
    <2> QED  BY <2>1, <2>2, <2>3, <2>4 DEF ListInv, Init
  <1>2. HeapInv /\ ListInv /\ [Next]_vars => ListInv'
    <2> SUFFICES ASSUME HeapInv, ListInv, [Next]_vars PROVE ListInv'
      OBVIOUS
    <2>1. SlotInv
      BY DEF HeapInv
    <2>2. ASSUME UNCHANGED <<slotVars, heapVars>> PROVE ListInv'
      BY <2>2 DEF ListInv, FreeSlots, slotVars, heapVars
    <2>3. ASSUME NEW h \in Holders, NEW o \in Objects,
                 \/ rk_object_init(h, o) \/ rk_object_unref(h, o)
                 \/ insert_failed(h, o)
                 \/ \E g \in Holders : rk_object_ref(h, g, o)
          PROVE  ListInv'
      BY <2>2, <2>3
      DEF rk_object_init, rk_object_unref, insert_failed, rk_object_ref
    <2>4. ASSUME NEW h \in Holders, NEW o \in Objects,
                 insert_reused(h, o) \/ insert_fresh(h, o)
          PROVE  ListInv'
      BY <2>1, <2>4, InsertKeepsList
    <2>5. ASSUME NEW h \in Holders, NEW x \in Handles,
                 rk_object_heap_acquire(h, x)
          PROVE  ListInv'
      BY <2>2, <2>5 DEF rk_object_heap_acquire
    <2>6. ASSUME NEW h \in Holders, NEW x \in Handles,
                 rk_object_heap_remove(h, x)
          PROVE  ListInv'
      BY <2>1, <2>6, RemoveKeepsList
    <2>7. CASE rk_object_heap_finish
      BY <2>7 DEF rk_object_heap_finish, ListInv
    <2>8. CASE UNCHANGED vars
      BY <2>2, <2>8 DEF vars
    <2> QED  BY <2>3, <2>4, <2>5, <2>6, <2>7, <2>8 DEF Next
  <1>3. ListInv => NoSlotLeaks
    BY ChainsIsNoLeak, FreeFinite DEF ListInv, NoSlotLeaks
  <1> QED  BY <1>1, <1>2, <1>3, HeapCorrect, PTL DEF Spec

-----------------------------------------------------------------------------
(***************************************************************************)
(* The negotiation.                                                        *)
(***************************************************************************)

(* The condition of the theorem: a build without RGA does not open the     *)
(* gate of a ten-bit profile.                                              *)
TenBitConverts ==
  \/ HaveRga
  \/ ProfileSettings \cap {"1", "all", "hevc-main10", "vp9-profile2"} = {}

Advertised == {"H264Main", "H264High", "VP9Profile0"} \cup
              {p \in {"HEVCMain"} \cup TenBitProfiles : profile_supported(p)}

Supported(p, encode) ==
  /\ p \in Profiles /\ encode \in BOOLEAN
  /\ IF encode THEN encode_profile_supported(p)
     ELSE decode_profile_supported(p)

(* What was advertised is what the driver supports now, and the attributes *)
(* are those of the one entrypoint that was asked about.                   *)
OffersStand ==
  /\ DOMAIN offered = {"profiles", "entrypoints", "attribs", "formats",
                       "memory", "max_width"}
  /\ offered.profiles \in {{}, Advertised}
  /\ \A pe \in offered.entrypoints :
       /\ \E p \in Profiles, e \in BOOLEAN : pe = <<p, e>>
       /\ Supported(pe[1], pe[2])
       /\ offered.attribs # {} => offered.attribs = AttribsFor(pe[1], pe[2])

ConfigStands ==
  \/ config = NoConfig /\ offered.formats = {}
  \/ /\ config # NoConfig
     /\ Supported(config.profile, config.encode)
     /\ config.rt = RtFormat(config.profile, config.encode)
     /\ offered.formats # {} =>
          /\ offered.formats = FormatsFor(config)
          /\ offered.memory = {"VA", "PRIME_2"}
          /\ offered.max_width = RK_MAX_WIDTH

SurfaceStands ==
  surface # NoSurface =>
    /\ config # NoConfig
    /\ offered.formats # {}
    /\ surface.fourcc \in FormatsFor(config)
    /\ surface.width \in 1 .. RK_MAX_WIDTH

ContextStands == context # 0 => surface # NoSurface

(* What was advertised last still stands, and everything made so far was   *)
(* made out of it.                                                         *)
NegotiationInv ==
  /\ env.profiles \in ProfileSettings
  /\ OffersStand /\ ConfigStands /\ SurfaceStands /\ ContextStands
  /\ AdvertisedIsAccepted

Formats == {"NV12", "P010"} \cup PlanarYuv \cup Rgb

-----------------------------------------------------------------------------
(***************************************************************************)
(* The attributes of a surface.                                            *)
(***************************************************************************)

(* The attribute loop of vaCreateSurfaces2 depends on which attributes     *)
(* come, not on their order or how often.                                  *)
LEMMA AsksAreSaid ==
  ASSUME NEW wish, NEW q, ToSet(q) = Asks(wish),
         wish.imported \in BOOLEAN, wish.encoder \in BOOLEAN
  PROVE  /\ Said(q, "PixelFormat") = {wish.fourcc}
         /\ Said(q, "MemoryType") =
              {IF wish.imported THEN "PRIME_2" ELSE "VA"}
         /\ Said(q, "Descriptor") =
              IF wish.imported THEN {"given"} ELSE {}
         /\ "ENCODER" \in Said(q, "UsageHint") <=> wish.encoder
<1> DEFINE M == IF wish.imported THEN "PRIME_2" ELSE "VA"
<1>1. Asks(wish) = {<<"PixelFormat", wish.fourcc>>, <<"MemoryType", M>>}
        \cup (IF wish.imported THEN {<<"Descriptor", "given">>} ELSE {})
        \cup (IF wish.encoder THEN {<<"UsageHint", "ENCODER">>} ELSE {})
  BY DEF Asks
<1> HIDE DEF M
<1>3. Said(q, "PixelFormat") = {wish.fourcc}
  <2> DEFINE S == {b \in Asks(wish) : b[1] = "PixelFormat"}
  <2>1. S = {<<"PixelFormat", wish.fourcc>>}
    BY <1>1
  <2>2. Said(q, "PixelFormat") = {a[2] : a \in S}
    BY DEF Said
  <2> HIDE DEF S
  <2>3. QED
    BY <2>1, <2>2
<1>4. Said(q, "MemoryType") = {M}
  <2> DEFINE S == {b \in Asks(wish) : b[1] = "MemoryType"}
  <2>1. S = {<<"MemoryType", M>>}
    BY <1>1
  <2>2. Said(q, "MemoryType") = {a[2] : a \in S}
    BY DEF Said
  <2> HIDE DEF S
  <2>3. QED
    BY <2>1, <2>2
<1>5. Said(q, "Descriptor") = IF wish.imported THEN {"given"} ELSE {}
  <2> DEFINE S == {b \in Asks(wish) : b[1] = "Descriptor"}
  <2>1. S = IF wish.imported THEN {<<"Descriptor", "given">>} ELSE {}
    BY <1>1
  <2>2. Said(q, "Descriptor") = {a[2] : a \in S}
    BY DEF Said
  <2> HIDE DEF S
  <2>3. CASE wish.imported
    BY <2>1, <2>2, <2>3
  <2>4. CASE ~wish.imported
    BY <2>1, <2>2, <2>4
  <2>5. QED
    BY <2>3, <2>4
<1>6. "ENCODER" \in Said(q, "UsageHint") <=> wish.encoder
  <2> DEFINE S == {b \in Asks(wish) : b[1] = "UsageHint"}
  <2>1. S = IF wish.encoder THEN {<<"UsageHint", "ENCODER">>} ELSE {}
    BY <1>1
  <2>2. Said(q, "UsageHint") = {a[2] : a \in S}
    BY DEF Said
  <2> HIDE DEF S
  <2>3. QED
    BY <2>1, <2>2
<1>7. QED
  BY <1>3, <1>4, <1>5, <1>6 DEF M

(* vaCreateSurfaces2 makes the surface that was asked for, or none if it   *)
(* was not promised.                                                       *)
LEMMA WishIsMet ==
  ASSUME NEW wish, NEW q, ToSet(q) = Asks(wish),
         wish \in [fourcc : Formats, imported : BOOLEAN, encoder : BOOLEAN,
                   width : Nat \ {0}],
         offered.max_width = RK_MAX_WIDTH, wish.fourcc \in Rgb => HaveRga
  PROVE  SurfaceMade(FormatOf(wish.fourcc), wish.width, q) =
           IF SurfacePromised(wish) THEN wish ELSE NoSurface
<1> DEFINE f == wish.fourcc
           F == FormatOf(f)
           Fits == AttribsFit(F, q)
           imported == TheOne(Said(q, "MemoryType"), "VA") = "PRIME_2"
           fourcc == TheOne(Said(q, "PixelFormat"), DefaultFourcc(F))
           enc == "ENCODER" \in Said(q, "UsageHint")
           given == Said(q, "Descriptor") # {}
<1>0. /\ wish.imported \in BOOLEAN /\ wish.encoder \in BOOLEAN
      /\ wish.fourcc \in Formats /\ wish.width \in Nat \ {0}
      /\ wish = [fourcc |-> wish.fourcc, imported |-> wish.imported,
                 encoder |-> wish.encoder, width |-> wish.width]
  OBVIOUS
<1>1. /\ Said(q, "PixelFormat") = {f}
      /\ Said(q, "MemoryType") = {IF wish.imported THEN "PRIME_2" ELSE "VA"}
      /\ Said(q, "Descriptor") = IF wish.imported THEN {"given"} ELSE {}
      /\ enc <=> wish.encoder
  BY <1>0, AsksAreSaid
<1>2. fourcc = f
  BY <1>1 DEF TheOne
<1>3. imported <=> wish.imported
  <2>1. TheOne(Said(q, "MemoryType"), "VA")
          = IF wish.imported THEN "PRIME_2" ELSE "VA"
    BY <1>1 DEF TheOne
  <2>2. QED
    BY <2>1
<1>4. given <=> wish.imported
  BY <1>1
<1>5. FourccFits(F, f)
  BY <1>0 DEF FourccFits, FormatOf, Formats, PlanarYuv, Rgb
<1>6. Fits
  BY <1>1, <1>5 DEF AttribsFit
<1>7. /\ (f \in Rgb => wish.imported /\ HaveRga)
          <=> (f \in Rgb => wish.imported)
      /\ (wish.imported => f \in {"NV12", "P010"} \cup Rgb)
          <=> (f \in PlanarYuv => ~wish.imported)
  BY <1>0 DEF Formats, PlanarYuv, Rgb
<1>8. wish.width \in 1 .. RK_MAX_WIDTH <=> wish.width <= RK_MAX_WIDTH
  BY <1>0, CapabilityAssumption
<1>9. SurfaceMade(F, wish.width, q) =
        IF /\ Fits
           /\ imported <=> given
           /\ fourcc \in Rgb => imported /\ HaveRga
           /\ imported => fourcc \in {"NV12", "P010"} \cup Rgb
           /\ wish.width \in 1 .. RK_MAX_WIDTH
           /\ fourcc # "NV12" => wish.width % 2 = 0
          THEN [fourcc |-> fourcc, imported |-> imported,
                encoder |-> enc, width |-> wish.width]
          ELSE NoSurface
  BY DEF SurfaceMade
<1>10. imported \in BOOLEAN /\ enc \in BOOLEAN
  OBVIOUS
<1> HIDE DEF f, F, Fits, imported, fourcc, enc, given
<1>11. imported = wish.imported /\ enc = wish.encoder
  BY <1>0, <1>1, <1>3, <1>10, Zenon
<1>12. SurfacePromised(wish) <=>
         /\ wish.width <= RK_MAX_WIDTH
         /\ f # "NV12" => wish.width % 2 = 0
         /\ f \in Rgb => wish.imported
         /\ f \in PlanarYuv => ~wish.imported
  BY DEF SurfacePromised, f
<1>13. QED
  BY <1>0, <1>2, <1>4, <1>6, <1>7, <1>8, <1>9, <1>11, <1>12 DEF f, F

-----------------------------------------------------------------------------
(***************************************************************************)
(* The formats, widths and profiles of a config that stands.               *)
(***************************************************************************)

(* A config decodes ten bits, or is made for surfaces of eight.            *)
LEMMA FormatsKnown ==
  ASSUME NEW c, Supported(c.profile, c.encode),
         c.rt = RtFormat(c.profile, c.encode)
  PROVE  /\ FormatsFor(c) \subseteq Formats
         /\ FormatsFor(c) \cap Rgb # {} => HaveRga
         /\ c.encode => "P010" \notin FormatsFor(c)
         /\ c.rt = "YUV420_10" <=> ~c.encode /\ c.profile \in TenBitProfiles
         /\ c.rt \in {"YUV420", "YUV420_10"}
         /\ (IF c.rt = "YUV420_10" THEN "P010" ELSE "NV12") \in FormatsFor(c)
  BY DEF FormatsFor, Formats, Supported, RtFormat, Rgb, PlanarYuv

(* The ten-bit profiles are behind the gate, so that RGA is there.         *)
LEMMA TenBitHasRga ==
  ASSUME TenBitConverts, env.profiles \in ProfileSettings,
         NEW p \in TenBitProfiles, decode_profile_supported(p)
  PROVE  HaveRga
  BY DEF TenBitConverts, TenBitProfiles, decode_profile_supported,
         experimental_profile_enabled

(* Rounding up to macroblocks stays within the largest width.              *)
LEMMA AlignedFits ==
  ASSUME NEW w \in 1 .. RK_MAX_WIDTH
  PROVE  aligned16(w) \in 1 .. RK_MAX_WIDTH
<1>1. /\ RK_MAX_WIDTH \in Nat /\ RK_MAX_WIDTH % 16 = 0 /\ w \in Nat /\ w >= 1
      /\ w <= RK_MAX_WIDTH
  BY CapabilityAssumption
<1>2. QED
  BY <1>1 DEF aligned16

(* A profile is advertised exactly if vaQueryConfigEntrypoints knows it.   *)
LEMMA AdvertisedIsSupported ==
  ASSUME NEW p \in Advertised \cup Others
  PROVE  profile_supported(p) <=> p \in Advertised
  BY DEF Advertised, Others, profile_supported, decode_profile_supported,
         encode_profile_supported, TenBitProfiles

-----------------------------------------------------------------------------
(***************************************************************************)
(* Every call keeps the invariant.                                         *)
(***************************************************************************)

(* Verdicts that agree are the same.                                       *)
LEMMA SameVerdict ==
  ASSUME NEW a \in BOOLEAN, NEW b \in BOOLEAN, a <=> b
  PROVE  a = b
  OBVIOUS

(* What comes of a call is what was promised.                              *)
LEMMA OneMoreAnswer ==
  ASSUME NEW name, NEW came, NEW promised, came = promised,
         answer' = <<name, came, promised>>
  PROVE  AdvertisedIsAccepted'
  BY DEF AdvertisedIsAccepted

(* The gates are read from an environment that does not change.            *)
LEMMA GatesStay ==
  ASSUME UNCHANGED env
  PROVE  /\ Advertised' = Advertised
         /\ \A p, e : Supported(p, e)' <=> Supported(p, e)
  BY DEF Advertised, Supported, profile_supported, decode_profile_supported,
         encode_profile_supported, experimental_profile_enabled,
         experimental_encode_enabled

(* Asking for the profiles.                                                *)
LEMMA ProfilesKeep ==
  ASSUME NegotiationInv, rk_QueryConfigProfiles
  PROVE  NegotiationInv'
<1>1. /\ offered'.profiles = Advertised
      /\ offered'.entrypoints = offered.entrypoints
      /\ offered'.attribs = offered.attribs
      /\ offered'.formats = offered.formats
      /\ offered'.memory = offered.memory
      /\ offered'.max_width = offered.max_width
      /\ DOMAIN offered' = DOMAIN offered
      /\ UNCHANGED <<env, config, surface, context, answer>>
  BY DEF NegotiationInv, OffersStand, rk_QueryConfigProfiles, Advertised
<1>2. Advertised' = Advertised
  BY <1>1, GatesStay
<1>3. \A p, e : Supported(p, e)' <=> Supported(p, e)
  BY <1>1, GatesStay
<1>4. OffersStand'
  BY <1>1, <1>2, <1>3 DEF NegotiationInv, OffersStand
<1>5. QED
  BY <1>1, <1>3, <1>4 DEF NegotiationInv, ConfigStands, SurfaceStands,
                          ContextStands, AdvertisedIsAccepted

(* Asking for the entrypoints, also of profiles that were not advertised.  *)
LEMMA EntrypointsKeep ==
  ASSUME NegotiationInv, NEW p \in Profiles \cup Others,
         rk_QueryConfigEntrypoints(p)
  PROVE  NegotiationInv'
<1> DEFINE new == {<<p, e>> : e \in {x \in BOOLEAN :
                     IF x THEN encode_profile_supported(p)
                     ELSE decode_profile_supported(p)}}
<1>1. /\ UNCHANGED <<env, config, surface, context>>
      /\ config = NoConfig
      /\ offered' = IF profile_supported(p)
                      THEN [offered EXCEPT !.entrypoints = new,
                                           !.attribs = {}]
                      ELSE offered
      /\ answer' = <<"entrypoints", profile_supported(p),
                     p \in offered.profiles>>
      /\ p \in offered.profiles \cup Others
  BY DEF rk_QueryConfigEntrypoints
<1> HIDE DEF new
<1>2. Advertised' = Advertised
  BY <1>1, GatesStay
<1>3. \A q, e : Supported(q, e)' <=> Supported(q, e)
  BY <1>1, GatesStay
<1>4. /\ DOMAIN offered' = DOMAIN offered
      /\ offered'.profiles = offered.profiles
      /\ offered'.formats = offered.formats
      /\ offered'.memory = offered.memory
      /\ offered'.max_width = offered.max_width
      /\ \/ offered'.entrypoints = new /\ offered'.attribs = {}
         \/ /\ offered'.entrypoints = offered.entrypoints
            /\ offered'.attribs = offered.attribs
  BY <1>1 DEF NegotiationInv, OffersStand
<1>5. ASSUME profile_supported(p)
      PROVE  p \in Profiles
  BY <1>5 DEF profile_supported, decode_profile_supported,
              encode_profile_supported, Profiles, TenBitProfiles
<1>6. OffersStand'
  <2>1. CASE ~profile_supported(p)
    BY <1>1, <1>2, <1>3, <1>4, <2>1 DEF NegotiationInv, OffersStand
  <2>2. CASE profile_supported(p)
    <3>1. \A pe \in new : /\ \E e \in BOOLEAN : pe = <<p, e>>
                          /\ Supported(pe[1], pe[2])
      BY <2>2, <1>5 DEF new, Supported
    <3>2. offered'.entrypoints = new /\ offered'.attribs = {}
      BY <1>1, <2>2 DEF NegotiationInv, OffersStand
    <3>3. QED
      BY <1>2, <1>3, <1>4, <1>5, <2>2, <3>1, <3>2
      DEF NegotiationInv, OffersStand
  <2>3. QED
    BY <2>1, <2>2
<1>7. profile_supported(p) = (p \in offered.profiles)
  <2>0. profile_supported(p) \in BOOLEAN
    BY DEF profile_supported
  <2>1. CASE offered.profiles = {}
    <3>1. p \in Others
      BY <1>1, <2>1
    <3>2. QED
      BY <2>1, <3>1 DEF Others, profile_supported,
         decode_profile_supported, encode_profile_supported
  <2>2. CASE offered.profiles = Advertised
    BY <1>1, <2>0, <2>2, AdvertisedIsSupported
  <2>3. QED
    BY <2>1, <2>2 DEF NegotiationInv, OffersStand
<1>8. AdvertisedIsAccepted'
  BY <1>1, <1>7, OneMoreAnswer
<1>9. QED
  BY <1>1, <1>3, <1>4, <1>6, <1>8 DEF NegotiationInv, ConfigStands,
     SurfaceStands, ContextStands

(* Asking for the attributes of an entrypoint.                             *)
LEMMA AttributesKeep ==
  ASSUME NegotiationInv, NEW pe \in offered.entrypoints,
         rk_GetConfigAttributes(pe)
  PROVE  NegotiationInv'
<1>1. /\ UNCHANGED <<env, config, surface, context, answer>>
      /\ DOMAIN offered' = DOMAIN offered
      /\ offered'.profiles = offered.profiles
      /\ offered'.entrypoints = {pe}
      /\ offered'.attribs = AttribsFor(pe[1], pe[2])
      /\ offered'.formats = offered.formats
      /\ offered'.memory = offered.memory
      /\ offered'.max_width = offered.max_width
  BY DEF NegotiationInv, OffersStand, rk_GetConfigAttributes
<1>2. Advertised' = Advertised
  BY <1>1, GatesStay
<1>3. \A p, e : Supported(p, e)' <=> Supported(p, e)
  BY <1>1, GatesStay
<1>4. OffersStand'
  BY <1>1, <1>2, <1>3 DEF NegotiationInv, OffersStand
<1>5. QED
  BY <1>1, <1>3, <1>4 DEF NegotiationInv, ConfigStands, SurfaceStands,
                          ContextStands, AdvertisedIsAccepted

(* Making a config out of advertised attributes, in any number and order.  *)
LEMMA ConfigKeeps ==
  ASSUME NegotiationInv, NEW pe \in offered.entrypoints,
         NEW attribs \in Lists(offered.attribs), rk_CreateConfig(pe, attribs)
  PROVE  NegotiationInv'
<1> DEFINE fits == ConfigFits(pe[1], pe[2], attribs)
<1>1. /\ UNCHANGED <<env, offered, surface, context>>
      /\ config = NoConfig /\ offered.attribs # {}
      /\ answer' = <<"config", fits, ConfigPromised(attribs)>>
      /\ fits => config' = [profile |-> pe[1], encode |-> pe[2],
                            rt |-> RtFormat(pe[1], pe[2]),
                            rate_control |-> RateControlOf(attribs)]
      /\ ~fits => config' = config
  BY DEF rk_CreateConfig
<1>2. /\ Supported(pe[1], pe[2])
      /\ offered.attribs = AttribsFor(pe[1], pe[2])
  BY <1>1 DEF NegotiationInv, OffersStand
<1>3. \A k \in DOMAIN attribs : attribs[k] \in AttribsFor(pe[1], pe[2])
  BY <1>2 DEF Lists
<1>4. \A a \in AttribsFor(pe[1], pe[2]) :
        AttribFits(a, pe[1], pe[2]) <=> a \notin ReadOnly
  BY <1>2 DEF AttribsFor, AttribFits, Supported, ReadOnly
<1>5. profile_supported(pe[1])
  BY <1>2 DEF Supported, profile_supported
<1>6. fits = ConfigPromised(attribs)
  <2>1. fits <=> \A k \in DOMAIN attribs : attribs[k] \notin ReadOnly
    BY <1>2, <1>3, <1>4, <1>5 DEF ConfigFits, Supported
  <2>2. ConfigPromised(attribs)
          <=> \A k \in DOMAIN attribs : attribs[k] \notin ReadOnly
    BY DEF ConfigPromised, ToSet
  <2>3. fits \in BOOLEAN /\ ConfigPromised(attribs) \in BOOLEAN
    BY DEF ConfigFits, ConfigPromised
  <2> HIDE DEF fits
  <2>4. QED
    BY <2>1, <2>2, <2>3, SameVerdict
<1> HIDE DEF fits
<1>7. AdvertisedIsAccepted'
  BY <1>1, <1>6, OneMoreAnswer
<1>8. offered.formats = {}
  BY <1>1 DEF NegotiationInv, ConfigStands
<1>9. ConfigStands'
  <2>1. CASE ~fits
    BY <1>1, <1>8, <2>1 DEF ConfigStands
  <2>2. CASE fits
    <3>1. /\ config'.profile = pe[1] /\ config'.encode = pe[2]
          /\ config'.rt = RtFormat(pe[1], pe[2])
      BY <1>1, <2>2
    <3>2. config' # NoConfig
      BY <1>2, <3>1 DEF NoConfig, Supported, Profiles, TenBitProfiles
    <3>3. Supported(config.profile, config.encode)'
      BY <1>1, <1>2, <3>1, GatesStay
    <3>4. QED
      BY <1>1, <1>8, <3>1, <3>2, <3>3 DEF ConfigStands
  <2>3. QED
    BY <2>1, <2>2
<1>10. OffersStand'
  BY <1>1, GatesStay DEF NegotiationInv, OffersStand
<1>11. surface = NoSurface
  BY <1>1 DEF NegotiationInv, SurfaceStands
<1>12. context = 0
  BY <1>11 DEF NegotiationInv, ContextStands
<1>13. SurfaceStands' /\ ContextStands'
  BY <1>1, <1>11, <1>12 DEF SurfaceStands, ContextStands, NoSurface
<1>14. QED
  BY <1>1, <1>7, <1>9, <1>10, <1>13 DEF NegotiationInv

(* Asking for the surface attributes of a config.                          *)
LEMMA SurfaceAttrsKeep ==
  ASSUME NegotiationInv, rk_QuerySurfaceAttrs
  PROVE  NegotiationInv'
<1>1. /\ UNCHANGED <<env, config, surface, context, answer>>
      /\ config # NoConfig
      /\ DOMAIN offered' = DOMAIN offered
      /\ offered'.profiles = offered.profiles
      /\ offered'.entrypoints = offered.entrypoints
      /\ offered'.attribs = offered.attribs
      /\ offered'.formats = FormatsFor(config)
      /\ offered'.memory = {"VA", "PRIME_2"}
      /\ offered'.max_width = RK_MAX_WIDTH
  BY DEF NegotiationInv, OffersStand, rk_QuerySurfaceAttrs
<1>2. OffersStand'
  BY <1>1, GatesStay DEF NegotiationInv, OffersStand
<1>3. ConfigStands'
  BY <1>1, GatesStay DEF NegotiationInv, ConfigStands
<1>4. QED
  BY <1>1, <1>2, <1>3 DEF NegotiationInv, SurfaceStands, ContextStands,
                          AdvertisedIsAccepted

(* A surface that is made leaves what was advertised alone.                *)
LEMMA SurfaceMadeKeeps ==
  ASSUME NegotiationInv, surface = NoSurface, AdvertisedIsAccepted',
         UNCHANGED <<env, offered, config, context>>,
         surface' # NoSurface =>
           /\ config # NoConfig /\ offered.formats # {}
           /\ surface'.fourcc \in FormatsFor(config)
           /\ surface'.width \in 1 .. RK_MAX_WIDTH
  PROVE  NegotiationInv'
<1>1. OffersStand' /\ ConfigStands'
  BY GatesStay DEF NegotiationInv, OffersStand, ConfigStands
<1>2. context = 0
  BY DEF NegotiationInv, ContextStands
<1>3. SurfaceStands' /\ ContextStands'
  BY <1>2 DEF SurfaceStands, ContextStands, NoSurface
<1>4. QED
  BY <1>1, <1>3 DEF NegotiationInv

(* vaCreateSurfaces2 with an advertised format and memory, the attributes  *)
(* in any order and repeated.                                              *)
LEMMA Surfaces2Keep ==
  ASSUME NegotiationInv, NEW wish \in Wish,
         NEW attribs \in Orders(Asks(wish)),
         rk_CreateSurfaces2(wish, attribs)
  PROVE  NegotiationInv'
<1> DEFINE made == SurfaceMade(FormatOf(wish.fourcc), wish.width, attribs)
           want == IF SurfacePromised(wish) THEN wish ELSE NoSurface
<1>1. /\ UNCHANGED <<env, offered, config, context>>
      /\ surface = NoSurface /\ surface' = made
      /\ answer' = <<"surfaces", made, want>>
  BY DEF rk_CreateSurfaces2
<1>2. wish \in [fourcc : offered.formats,
                imported : {m = "PRIME_2" : m \in offered.memory},
                encoder : {config.encode}, width : Widths]
  BY <1>1 DEF Wish
<1>3. wish.fourcc \in offered.formats
  BY <1>2
<1>4. /\ config # NoConfig /\ Supported(config.profile, config.encode)
      /\ config.rt = RtFormat(config.profile, config.encode)
      /\ offered.formats = FormatsFor(config)
      /\ offered.max_width = RK_MAX_WIDTH
  BY <1>3 DEF NegotiationInv, ConfigStands
<1>5. FormatsFor(config) \subseteq Formats
      /\ (FormatsFor(config) \cap Rgb # {} => HaveRga)
  BY <1>4, FormatsKnown
<1>6. config.encode \in BOOLEAN
  BY <1>4 DEF Supported
<1>7. /\ wish \in [fourcc : Formats, imported : BOOLEAN, encoder : BOOLEAN,
                   width : Nat \ {0}]
      /\ wish.fourcc \in Rgb => HaveRga
  BY <1>2, <1>3, <1>4, <1>5, <1>6, CapabilityAssumption
<1>8. ToSet(attribs) = Asks(wish)
  BY DEF Orders
<1>9. made = want
  BY <1>4, <1>7, <1>8, WishIsMet
<1>10. AdvertisedIsAccepted'
  BY <1>1, <1>9, OneMoreAnswer
<1>11. made # NoSurface => /\ made.fourcc \in FormatsFor(config)
                           /\ made.width \in 1 .. RK_MAX_WIDTH
  BY <1>3, <1>4, <1>7, <1>9, CapabilityAssumption DEF SurfacePromised
<1>12. QED
  BY <1>1, <1>3, <1>4, <1>10, <1>11, SurfaceMadeKeeps

(* vaCreateSurfaces: without attributes the format is the config's.        *)
LEMMA SurfacesKeep ==
  ASSUME NegotiationInv, NEW width \in Widths, rk_CreateSurfaces(width)
  PROVE  NegotiationInv'
<1> DEFINE made == SurfaceMade(config.rt, width, <<>>)
           f == IF config.rt = "YUV420_10" THEN "P010" ELSE "NV12"
           want == IF SurfacePromised(PlainWish(width))
                     THEN PlainWish(width) ELSE NoSurface
<1>1. /\ UNCHANGED <<env, offered, config, context>>
      /\ surface = NoSurface /\ surface' = made
      /\ config # NoConfig /\ offered.formats # {}
      /\ answer' = <<"surfaces", made, want>>
  BY DEF rk_CreateSurfaces
<1>2. /\ Supported(config.profile, config.encode)
      /\ config.rt = RtFormat(config.profile, config.encode)
      /\ offered.max_width = RK_MAX_WIDTH
  BY <1>1 DEF NegotiationInv, ConfigStands
<1>3. config.rt \in {"YUV420", "YUV420_10"} /\ f \in FormatsFor(config)
  BY <1>2, FormatsKnown
<1>4. \A key : Said(<<>>, key) = {}
  BY DEF Said, ToSet
<1>5. AttribsFit(config.rt, <<>>)
  BY <1>4 DEF AttribsFit
<1>6. /\ TheOne(Said(<<>>, "PixelFormat"), DefaultFourcc(config.rt)) = f
      /\ TheOne(Said(<<>>, "MemoryType"), "VA") = "VA"
  BY <1>3, <1>4 DEF TheOne, DefaultFourcc
<1>7. f \notin Rgb
  BY DEF Rgb
<1>8. width \in Nat \ {0}
  BY CapabilityAssumption
<1>9. made = IF width <= RK_MAX_WIDTH /\ (f # "NV12" => width % 2 = 0)
               THEN [fourcc |-> f, imported |-> FALSE, encoder |-> FALSE,
                     width |-> width]
               ELSE NoSurface
  <2> DEFINE fourcc == TheOne(Said(<<>>, "PixelFormat"),
                              DefaultFourcc(config.rt))
             imported == TheOne(Said(<<>>, "MemoryType"), "VA") = "PRIME_2"
             enc == "ENCODER" \in Said(<<>>, "UsageHint")
             given == Said(<<>>, "Descriptor") # {}
             fits == AttribsFit(config.rt, <<>>)
  <2>1. made =
          IF /\ fits
             /\ imported <=> given
             /\ fourcc \in Rgb => imported /\ HaveRga
             /\ imported => fourcc \in {"NV12", "P010"} \cup Rgb
             /\ width \in 1 .. RK_MAX_WIDTH
             /\ fourcc # "NV12" => width % 2 = 0
            THEN [fourcc |-> fourcc, imported |-> imported,
                  encoder |-> enc, width |-> width]
            ELSE NoSurface
    BY DEF SurfaceMade
  <2>2. imported \in BOOLEAN /\ enc \in BOOLEAN
    OBVIOUS
  <2>3. ~imported /\ ~enc /\ ~given
    BY <1>4, <1>6
  <2>4. width \in 1 .. RK_MAX_WIDTH <=> width <= RK_MAX_WIDTH
    BY <1>8, CapabilityAssumption
  <2> HIDE DEF fourcc, imported, enc, given, fits, made, f
  <2>5. imported = FALSE /\ enc = FALSE
    BY <2>2, <2>3, Zenon
  <2>6. fits /\ fourcc = f
    BY <1>5, <1>6 DEF fits, fourcc
  <2>7. QED
    BY <1>7, <2>1, <2>3, <2>4, <2>5, <2>6
<1>9a. PlainWish(width) = [fourcc |-> f, imported |-> FALSE,
                          encoder |-> FALSE, width |-> width]
  BY DEF PlainWish
<1>9b. f \notin PlanarYuv
  BY DEF PlanarYuv
<1> HIDE DEF made, f
<1>10. made = want
  <2>1. SurfacePromised(PlainWish(width))
          <=> width <= RK_MAX_WIDTH /\ (f # "NV12" => width % 2 = 0)
    BY <1>2, <1>7, <1>9a, <1>9b DEF SurfacePromised
  <2>2. QED
    BY <1>9, <1>9a, <2>1
<1>11. AdvertisedIsAccepted'
  BY <1>1, <1>10, OneMoreAnswer
<1>12. made # NoSurface => /\ made.fourcc \in FormatsFor(config)
                           /\ made.width \in 1 .. RK_MAX_WIDTH
  BY <1>3, <1>8, <1>9, CapabilityAssumption
<1>13. QED
  BY <1>1, <1>11, <1>12, SurfaceMadeKeeps

(* A context of any width.                                                 *)
LEMMA ContextKeeps ==
  ASSUME NegotiationInv, TenBitConverts, NEW width \in Nat \ {0},
         rk_CreateContext(width)
  PROVE  NegotiationInv'
<1>1. /\ UNCHANGED <<env, offered, config, surface>>
      /\ surface # NoSurface
      /\ answer' = <<"context", ContextFits(config, width),
                     ContextPromised(width)>>
  BY DEF rk_CreateContext
<1>2. /\ config # NoConfig /\ surface.width \in 1 .. RK_MAX_WIDTH
      /\ offered.formats # {}
  BY <1>1 DEF NegotiationInv, SurfaceStands
<1>3. /\ Supported(config.profile, config.encode)
      /\ config.rt = RtFormat(config.profile, config.encode)
      /\ offered.max_width = RK_MAX_WIDTH
  BY <1>2 DEF NegotiationInv, ConfigStands
<1>4. width \in 1 .. RK_MAX_WIDTH
        <=> width \in ContextWidths(surface) \/ width <= offered.max_width
  <2>1. width \in 1 .. RK_MAX_WIDTH <=> width <= offered.max_width
    BY <1>3, CapabilityAssumption
  <2>2. aligned16(surface.width) \in 1 .. RK_MAX_WIDTH
    BY <1>2, AlignedFits
  <2>3. ContextWidths(surface) \subseteq 1 .. RK_MAX_WIDTH
    BY <1>2, <2>2 DEF ContextWidths
  <2>4. QED
    BY <2>1, <2>3
<1>5. config.profile \notin Others
  BY <1>3 DEF Supported, Profiles, TenBitProfiles, Others
<1>6. config.rt = "YUV420_10" <=> ~config.encode
                                  /\ config.profile \in TenBitProfiles
  BY <1>3, FormatsKnown
<1>7. ASSUME ~config.encode, config.profile \in TenBitProfiles
      PROVE  HaveRga
  <2>1. decode_profile_supported(config.profile)
    BY <1>3, <1>7 DEF Supported
  <2>2. QED
    BY <1>7, <2>1, TenBitHasRga DEF NegotiationInv
<1>8. ContextFits(config, width) = ContextPromised(width)
  <2>1. ContextFits(config, width) <=> ContextPromised(width)
    BY <1>4, <1>5, <1>6, <1>7 DEF ContextFits, ContextPromised
  <2>2. /\ ContextFits(config, width) \in BOOLEAN
        /\ ContextPromised(width) \in BOOLEAN
    BY DEF ContextFits, ContextPromised
  <2>3. QED
    BY <2>1, <2>2, SameVerdict
<1>9. AdvertisedIsAccepted'
  BY <1>1, <1>8, OneMoreAnswer
<1>10. OffersStand' /\ ConfigStands' /\ SurfaceStands' /\ ContextStands'
  BY <1>1, GatesStay DEF NegotiationInv, OffersStand, ConfigStands,
                         SurfaceStands, ContextStands, NoSurface
<1>11. QED
  BY <1>1, <1>9, <1>10 DEF NegotiationInv

(* The first picture.                                                      *)
LEMMA PictureKeeps ==
  ASSUME NegotiationInv, rk_BeginPicture
  PROVE  NegotiationInv'
<1>1. /\ UNCHANGED <<env, offered, config, surface, context>>
      /\ context # 0
      /\ answer' = <<"picture", PictureFits, PicturePromised>>
  BY DEF rk_BeginPicture
<1>2. surface # NoSurface
  BY <1>1 DEF NegotiationInv, ContextStands
<1>3. config # NoConfig /\ surface.fourcc \in FormatsFor(config)
  BY <1>2 DEF NegotiationInv, SurfaceStands
<1>4. /\ Supported(config.profile, config.encode)
      /\ config.rt = RtFormat(config.profile, config.encode)
  BY <1>3 DEF NegotiationInv, ConfigStands
<1>5. config.encode => surface.fourcc # "P010"
  BY <1>3, <1>4, FormatsKnown
<1>6. PictureFits = PicturePromised
  <2>1. CASE config.encode
    <3>1. context \in ContextWidths(surface)
            <=> \/ surface.width = context
                \/ config.profile \in HEVC /\ aligned16(surface.width) = context
      BY <2>1 DEF ContextWidths
    <3>2. PictureFits <=> PicturePromised
      BY <1>5, <2>1, <3>1 DEF PictureFits, PicturePromised
    <3>3. PictureFits \in BOOLEAN /\ PicturePromised \in BOOLEAN
      BY <2>1 DEF PictureFits, PicturePromised
    <3>4. QED
      BY <3>2, <3>3, SameVerdict
  <2>2. CASE ~config.encode
    BY <2>2 DEF PictureFits, PicturePromised
  <2>3. QED
    BY <2>1, <2>2
<1>7. AdvertisedIsAccepted'
  BY <1>1, <1>6, OneMoreAnswer
<1>8. OffersStand' /\ ConfigStands' /\ SurfaceStands' /\ ContextStands'
  BY <1>1, GatesStay DEF NegotiationInv, OffersStand, ConfigStands,
                         SurfaceStands, ContextStands
<1>9. QED
  BY <1>1, <1>7, <1>8 DEF NegotiationInv

(* Everything is destroyed and the negotiation starts again.               *)
LEMMA StartOverKeeps ==
  ASSUME NegotiationInv, start_over
  PROVE  NegotiationInv'
<1>1. /\ UNCHANGED env
      /\ config' = NoConfig /\ surface' = NoSurface /\ context' = 0
      /\ answer' = NoAnswer
      /\ DOMAIN offered' = DOMAIN offered
      /\ offered'.profiles = offered.profiles
      /\ offered'.entrypoints = {}
      /\ offered'.formats = {}
  BY DEF start_over, NegotiationInv, OffersStand
<1>2. OffersStand'
  BY <1>1, GatesStay DEF NegotiationInv, OffersStand
<1>3. ConfigStands' /\ SurfaceStands' /\ ContextStands'
  BY <1>1 DEF ConfigStands, SurfaceStands, ContextStands
<1>4. QED
  BY <1>1, <1>2, <1>3 DEF NegotiationInv, AdvertisedIsAccepted, NoAnswer

-----------------------------------------------------------------------------

(* From vaQueryConfigProfiles to vaBeginPicture every call comes out as    *)
(* promised: what was advertised is accepted and gives the surface asked   *)
(* for, what was not advertised is refused, and so are the five limits the *)
(* promises name, whatever the settings of the two gates, the widths of    *)
(* surface and context, the formats and memory types, the length, order    *)
(* and repetition of attributes.  The one condition: a build without RGA   *)
(* keeps the ten-bit profiles behind their gate.                           *)
THEOREM AdvertisedCorrect ==
  ASSUME TenBitConverts
  PROVE  NegotiationSpec => []AdvertisedIsAccepted
<1>1. NegotiationInit => NegotiationInv
  <2> SUFFICES ASSUME NegotiationInit PROVE NegotiationInv
    OBVIOUS
  <2>1. OffersStand /\ env.profiles \in ProfileSettings
    BY DEF NegotiationInit, OffersStand
  <2>2. QED
    BY <2>1 DEF NegotiationInit, NegotiationInv, ConfigStands, SurfaceStands,
                ContextStands, AdvertisedIsAccepted, NoAnswer
<1>2. NegotiationInv /\ [NegotiationNext]_negotiationVars => NegotiationInv'
  <2> SUFFICES ASSUME NegotiationInv, [NegotiationNext]_negotiationVars
               PROVE  NegotiationInv'
    OBVIOUS
  <2>1. CASE rk_QueryConfigProfiles
    BY <2>1, ProfilesKeep
  <2>2. ASSUME NEW p \in Profiles \cup Others, rk_QueryConfigEntrypoints(p)
        PROVE  NegotiationInv'
    BY <2>2, EntrypointsKeep
  <2>3. ASSUME NEW pe \in offered.entrypoints, rk_GetConfigAttributes(pe)
        PROVE  NegotiationInv'
    BY <2>3, AttributesKeep
  <2>4. ASSUME NEW pe \in offered.entrypoints,
               NEW attribs \in Lists(offered.attribs),
               rk_CreateConfig(pe, attribs)
        PROVE  NegotiationInv'
    BY <2>4, ConfigKeeps
  <2>5. CASE rk_QuerySurfaceAttrs
    BY <2>5, SurfaceAttrsKeep
  <2>6. ASSUME NEW wish \in Wish, NEW attribs \in Orders(Asks(wish)),
               rk_CreateSurfaces2(wish, attribs)
        PROVE  NegotiationInv'
    BY <2>6, Surfaces2Keep
  <2>7. ASSUME NEW w \in Widths, rk_CreateSurfaces(w)
        PROVE  NegotiationInv'
    BY <2>7, SurfacesKeep
  <2>8. ASSUME NEW w \in Widths \cup {aligned16(x) : x \in Widths},
               rk_CreateContext(w)
        PROVE  NegotiationInv'
    <3>1. w \in Nat \ {0}
      BY <2>8, CapabilityAssumption DEF aligned16
    <3>2. QED
      BY <2>8, <3>1, ContextKeeps
  <2>9. CASE rk_BeginPicture
    BY <2>9, PictureKeeps
  <2>10. CASE start_over
    BY <2>10, StartOverKeeps
  <2>11. CASE UNCHANGED negotiationVars
    BY <2>11, GatesStay
    DEF negotiationVars, NegotiationInv, OffersStand, ConfigStands,
        SurfaceStands,
        ContextStands, AdvertisedIsAccepted
  <2>12. QED
    BY <2>1, <2>2, <2>3, <2>4, <2>5, <2>6, <2>7, <2>8, <2>9, <2>10, <2>11
    DEF NegotiationNext
<1>3. NegotiationInv => AdvertisedIsAccepted
  BY DEF NegotiationInv
<1>4. QED
  BY <1>1, <1>2, <1>3, PTL DEF NegotiationSpec
=============================================================================
