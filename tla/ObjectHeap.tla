----------------------------- MODULE ObjectHeap -----------------------------
(***************************************************************************)
(* The generation-tagged, reference-counted heap behind every VA handle    *)
(* (object_heap.c).  Insert, acquire, remove and finish run under the      *)
(* driver's object_lock, so each is one step; rk_object_unref and          *)
(* rk_object_ref are atomic read-modify-writes outside that lock, so they  *)
(* interleave freely with the others.                                      *)
(***************************************************************************)
EXTENDS Integers, FiniteSets

CONSTANTS
  Objects,          \* RKObjectBase pointers; memory is never recycled here
  Holders,          \* API calls, queued jobs, routes and objects with refs
  Null,             \* the NULL object pointer
  Type,             \* heap->type of this heap
  MaxSlots,         \* RK_OBJECT_INDEX_MASK + 1
  InitialCapacity,  \* RK_OBJECT_INITIAL_CAPACITY
  MaxGeneration,    \* RK_OBJECT_GENERATION_MASK
  MaxRefs,          \* UINT_MAX
  Handles           \* the ids an application may pass in, issued or made up

IndexSpan == 1048576            \* 20 bits of slot index
TypeUnit  == 268435456          \* above 8 bits of generation
MaxHandle == 1610612735         \* the types end at RK_OBJECT_IMAGE, 5

ASSUME HeapAssumption ==
  /\ Null \notin Objects
  /\ Type \in 1..5
  /\ MaxSlots \in 1..IndexSpan
  /\ InitialCapacity \in 1..MaxSlots
  /\ MaxGeneration \in 1..255
  /\ MaxRefs \in Nat \ {0}
  /\ IsFiniteSet(Holders)
  /\ Handles \subseteq 1..MaxHandle

VARIABLES
  object, generation, retired, next_free,  \* heap->slots[i]
  free_head, high_water, capacity, count,  \* the heap's own fields
  open,       \* heap->type is set: rk_object_heap_finish has not run
  refs,       \* object->refs
  life,       \* "unborn", "live", or "destroyed" once object->destroy ran
  holders,    \* ghost: who owns a counted reference to each object
  id          \* the handle insert gave to each object, 0 before

slotVars == <<object, generation, retired, next_free>>
heapVars == <<free_head, high_water, capacity, count, open>>
vars == <<slotVars, heapVars, refs, life, holders, id>>

Slots  == 0..(MaxSlots - 1)
NoSlot == -1                                  \* RK_OBJECT_NO_SLOT

(***************************************************************************)
(* A handle packs 4 bits of type, 8 of generation and 20 of index.         *)
(***************************************************************************)
make_id(type, gen, index) == type * TypeUnit + gen * IndexSpan + index
id_type(x)       == (x \div TypeUnit) % 16
id_generation(x) == (x \div IndexSpan) % 256
id_index(x)      == x % IndexSpan

(* The application can present at least the handles it was given.          *)
ASSUME HandlesAssumption ==
  \A g \in 1..MaxGeneration, i \in Slots : make_id(Type, g, i) \in Handles

(* Slip: the index is bounded by the objects alive instead of high_water.  *)
decode_id_by_count(x) ==
  /\ id_type(x) = Type
  /\ id_generation(x) # 0
  /\ id_index(x) < count

(* decode_id: the right type, a generation in use, a slot below high_water. *)
decode_id(x) ==
  /\ id_type(x) = Type
  /\ id_generation(x) # 0
  /\ id_index(x) < high_water

(* The slot test shared by acquire and remove.                             *)
lookup(x) ==
  IF /\ open
     /\ decode_id(x)
     /\ ~retired[id_index(x)]
     /\ generation[id_index(x)] = id_generation(x)
    THEN object[id_index(x)] ELSE Null

InHeap(o) == \E i \in Slots : object[i] = o

Init ==
  /\ object = [i \in Slots |-> Null]
  /\ generation = [i \in Slots |-> 0]
  /\ retired = [i \in Slots |-> FALSE]
  /\ next_free = [i \in Slots |-> 0]
  /\ free_head = NoSlot
  /\ high_water = 0
  /\ capacity = 0
  /\ count = 0
  /\ open = TRUE
  /\ refs = [o \in Objects |-> 0]
  /\ life = [o \in Objects |-> "unborn"]
  /\ holders = [o \in Objects |-> {}]
  /\ id = [o \in Objects |-> 0]

(***************************************************************************)
(* Reference counting.                                                     *)
(***************************************************************************)
(* Slip: a destroyed object is initialised again.                          *)
init_again(h, o) ==
  /\ life[o] # "live"
  /\ refs' = [refs EXCEPT ![o] = 1]
  /\ life' = [life EXCEPT ![o] = "live"]
  /\ holders' = [holders EXCEPT ![o] = {h}]
  /\ UNCHANGED <<slotVars, heapVars, id>>

rk_object_init(h, o) ==
  /\ life[o] = "unborn"
  /\ refs' = [refs EXCEPT ![o] = 1]
  /\ life' = [life EXCEPT ![o] = "live"]
  /\ holders' = [holders EXCEPT ![o] = {h}]
  /\ UNCHANGED <<slotVars, heapVars, id>>

CanRef(o) == refs[o] # 0 /\ refs[o] # MaxRefs

(* h, which owns a reference, takes another one for g (a job or a route).  *)
(* A holder owns at most one reference to an object.                       *)
rk_object_ref(h, g, o) ==
  /\ h \in holders[o]
  /\ g \notin holders[o]
  /\ CanRef(o)
  /\ refs' = [refs EXCEPT ![o] = @ + 1]
  /\ holders' = [holders EXCEPT ![o] = @ \cup {g}]
  /\ UNCHANGED <<slotVars, heapVars, life, id>>

(* Slip: the counter is compared after the decrement instead of before.    *)
DropRef_off_by_one(h, o) ==
  /\ refs' = [refs EXCEPT ![o] = @ - 1]
  /\ life' = IF refs[o] = 0 THEN [life EXCEPT ![o] = "destroyed"] ELSE life
  /\ holders' = [holders EXCEPT ![o] = @ \ {h}]

DropRef(h, o) ==
  /\ refs' = [refs EXCEPT ![o] = @ - 1]
  /\ life' = IF refs[o] = 1 THEN [life EXCEPT ![o] = "destroyed"] ELSE life
  /\ holders' = [holders EXCEPT ![o] = @ \ {h}]

rk_object_unref(h, o) ==
  /\ h \in holders[o]
  /\ DropRef(h, o)
  /\ UNCHANGED <<slotVars, heapVars, id>>

(***************************************************************************)
(* rk_object_heap_insert, called once by the creator of an object that no  *)
(* handle names yet.  On success the slot owns the creator's reference; on *)
(* failure the caller drops it.                                            *)
(***************************************************************************)
SlotUsable(i, gen) == ~retired[i] /\ object[i] = Null /\ gen # 0

Occupy(h, o, i, gen) ==
  /\ object' = [object EXCEPT ![i] = o]
  /\ generation' = [generation EXCEPT ![i] = gen]
  /\ next_free' = [next_free EXCEPT ![i] = NoSlot]
  /\ count' = count + 1
  /\ id' = [id EXCEPT ![o] = make_id(Type, gen, i)]
  /\ holders' = [holders EXCEPT ![o] = @ \ {h}]
  /\ UNCHANGED <<retired, refs, life>>

Rejected(h, o, i, gen) ==
  /\ generation' = [generation EXCEPT ![i] = gen]
  /\ DropRef(h, o)
  /\ UNCHANGED <<object, next_free, retired, count, id>>

Place(h, o, i, gen) ==
  IF SlotUsable(i, gen) THEN Occupy(h, o, i, gen) ELSE Rejected(h, o, i, gen)

Creating(h, o) == h \in holders[o] /\ id[o] = 0

insert_reused(h, o) ==
  /\ open /\ Creating(h, o)
  /\ free_head # NoSlot
  /\ free_head' = next_free[free_head]
  /\ Place(h, o, free_head, generation[free_head])
  /\ UNCHANGED <<high_water, capacity, open>>

(* grow_heap doubles the array up to MaxSlots.                             *)
GrownCapacity ==
  LET wanted == IF capacity = 0 THEN InitialCapacity ELSE 2 * capacity
  IN  IF wanted > MaxSlots THEN MaxSlots ELSE wanted

insert_fresh(h, o) ==
  /\ open /\ Creating(h, o)
  /\ free_head = NoSlot
  /\ \/ /\ high_water # capacity
        /\ UNCHANGED capacity
     \/ /\ high_water = capacity
        /\ capacity < MaxSlots
        /\ capacity' = GrownCapacity
  /\ high_water' = high_water + 1
  /\ Place(h, o, high_water, 1)
  /\ UNCHANGED <<free_head, open>>

(* The array is full and cannot grow (at MaxSlots, or realloc failed), or  *)
(* the heap is finished and its type is no longer valid.                   *)
insert_failed(h, o) ==
  /\ Creating(h, o)
  /\ ~open \/ (free_head = NoSlot /\ high_water = capacity)
  /\ DropRef(h, o)
  /\ UNCHANGED <<slotVars, heapVars, id>>

(***************************************************************************)
(* rk_object_heap_acquire: any handle may be presented.  A refusal leaves  *)
(* the state as it is.                                                     *)
(***************************************************************************)
rk_object_heap_acquire(h, x) ==
  LET o == lookup(x)
  IN  /\ o # Null
      /\ CanRef(o)
      /\ h \notin holders[o]
      /\ refs' = [refs EXCEPT ![o] = @ + 1]
      /\ holders' = [holders EXCEPT ![o] = @ \cup {h}]
      /\ UNCHANGED <<slotVars, heapVars, life, id>>

(***************************************************************************)
(* rk_object_heap_remove: the caller receives the slot's reference, which  *)
(* it drops once object_lock is released.  A slot whose generation cannot  *)
(* advance is retired, every other one goes to the head of the free list.  *)
(***************************************************************************)
(* Slips: a retired slot that goes to the free list all the same, a lost   *)
(* free list, a kept generation.                                           *)
Recycle_retired(i) ==
  /\ retired' = [retired EXCEPT ![i] = generation[i] = MaxGeneration]
  /\ generation' = [generation EXCEPT ![i] = IF @ = MaxGeneration THEN @
                                             ELSE @ + 1]
  /\ next_free' = [next_free EXCEPT ![i] = free_head]
  /\ free_head' = i

Recycle_forgetful(i) ==
  /\ retired' = [retired EXCEPT ![i] = generation[i] = MaxGeneration]
  /\ generation' = [generation EXCEPT ![i] = IF @ = MaxGeneration THEN @
                                             ELSE @ + 1]
  /\ next_free' = [next_free EXCEPT ![i] = NoSlot]
  /\ free_head' = IF generation[i] = MaxGeneration THEN free_head ELSE i

Recycle_same_generation(i) ==
  /\ next_free' = [next_free EXCEPT ![i] = free_head]
  /\ free_head' = i
  /\ UNCHANGED <<retired, generation>>

Recycle(i) ==
  IF generation[i] = MaxGeneration
    THEN /\ retired' = [retired EXCEPT ![i] = TRUE]
         /\ next_free' = [next_free EXCEPT ![i] = NoSlot]
         /\ UNCHANGED <<generation, free_head>>
    ELSE /\ generation' = [generation EXCEPT ![i] = @ + 1]
         /\ next_free' = [next_free EXCEPT ![i] = free_head]
         /\ free_head' = i
         /\ UNCHANGED retired

rk_object_heap_remove(h, x) ==
  LET o == lookup(x)
      i == id_index(x)
  IN  /\ o # Null
      /\ h \notin holders[o]
      /\ object' = [object EXCEPT ![i] = Null]
      /\ count' = count - 1
      /\ Recycle(i)
      /\ holders' = [holders EXCEPT ![o] = @ \cup {h}]
      /\ UNCHANGED <<high_water, capacity, open, refs, life, id>>

(***************************************************************************)
(* rk_object_heap_finish, from vaTerminate: the heap drops its references  *)
(* and is cleared; references held elsewhere stay valid.                   *)
(***************************************************************************)
rk_object_heap_finish ==
  /\ open
  /\ refs' = [o \in Objects |-> IF InHeap(o) THEN refs[o] - 1 ELSE refs[o]]
  /\ life' = [o \in Objects |-> IF InHeap(o) /\ refs[o] = 1
                                  THEN "destroyed" ELSE life[o]]
  /\ object' = [i \in Slots |-> Null]
  /\ generation' = [i \in Slots |-> 0]
  /\ retired' = [i \in Slots |-> FALSE]
  /\ next_free' = [i \in Slots |-> 0]
  /\ free_head' = 0
  /\ high_water' = 0
  /\ capacity' = 0
  /\ count' = 0
  /\ open' = FALSE
  /\ UNCHANGED <<holders, id>>

Next ==
  \/ \E h \in Holders, o \in Objects :
       \/ rk_object_init(h, o)
       \/ \E g \in Holders : rk_object_ref(h, g, o)
       \/ rk_object_unref(h, o)
       \/ insert_reused(h, o)
       \/ insert_fresh(h, o)
       \/ insert_failed(h, o)
  \/ \E h \in Holders, x \in Handles :
       \/ rk_object_heap_acquire(h, x)
       \/ rk_object_heap_remove(h, x)
  \/ rk_object_heap_finish

Spec == Init /\ [][Next]_vars

-----------------------------------------------------------------------------
(***************************************************************************)
(* Properties.                                                             *)
(***************************************************************************)

(* The shape of the heap's and the objects' fields.                        *)
TypeOK ==
  /\ object \in [Slots -> Objects \cup {Null}]
  /\ generation \in [Slots -> 0..MaxGeneration]
  /\ retired \in [Slots -> BOOLEAN]
  /\ next_free \in [Slots -> Slots \cup {NoSlot}]
  /\ free_head \in Slots \cup {NoSlot}
  /\ high_water \in 0..MaxSlots
  /\ capacity \in 0..MaxSlots
  /\ count \in Int
  /\ open \in BOOLEAN
  /\ refs \in [Objects -> Nat]
  /\ life \in [Objects -> {"unborn", "live", "destroyed"}]
  /\ holders \in [Objects -> SUBSET Holders]
  /\ id \in [Objects -> Nat]

(* A slot that insert may take without growing: emptied, not retired.      *)
FreeSlots == {i \in Slots : i < high_water /\ object[i] = Null /\ ~retired[i]}

(* The intrusive free list never leads insert to an occupied, retired or   *)
(* generation-zero slot (object_heap.c:155, the check after the pop), and  *)
(* no slot is on it twice.                                                 *)
FreeListSound ==
  open =>
    /\ free_head \in FreeSlots \cup {NoSlot}
    /\ \A i \in FreeSlots :
         /\ generation[i] # 0
         /\ next_free[i] \in FreeSlots \cup {NoSlot}
         /\ next_free[i] = free_head => free_head = NoSlot
         /\ \A j \in FreeSlots :
              next_free[i] = next_free[j] /\ i # j => next_free[i] = NoSlot

(* l lists the slots that successive inserts pop, up to the end of the     *)
(* chain of next_free links.                                               *)
FreeChain(l) ==
  LET Nth(k) == IF k \in DOMAIN l THEN l[k] ELSE NoSlot
  IN  /\ free_head = Nth(1)
      /\ \A k \in DOMAIN l : next_free[l[k]] = Nth(k + 1)

(* No emptied slot is lost: the chain from free_head passes once through   *)
(* every slot that is neither occupied nor retired, so the heap only grows *)
(* when all of its slots are in use.                                       *)
NoSlotLeaks ==
  open => \E l \in [1..Cardinality(FreeSlots) -> FreeSlots] :
            /\ FreeChain(l)
            /\ \A i \in FreeSlots : \E k \in DOMAIN l : l[k] = i
            /\ \A j, k \in DOMAIN l : l[j] = l[k] => j = k

(* heap->count is the number of objects that can still be looked up.       *)
CountExact == count = Cardinality({i \in Slots : object[i] # Null})

(* The counter of an object is exactly its slot's reference plus those of  *)
(* its holders, whatever the interleaving of unref with remove and acquire. *)
RefsExact ==
  \A o \in Objects :
    refs[o] = Cardinality(holders[o]) + (IF InHeap(o) THEN 1 ELSE 0)

(* "Acquired objects carry an atomic reference, so their lifetime remains  *)
(* valid after that short critical section ends" (object_heap.h:6): an     *)
(* object that is published or held was not destroyed, and one that is     *)
(* neither does not linger.                                                *)
LifetimeExact ==
  \A o \in Objects :
    (InHeap(o) \/ holders[o] # {}) <=> life[o] = "live"

(* Looking a handle up never yields an object other than the one that was  *)
(* given that handle, and no handle is given twice: a stale VA id cannot   *)
(* alias a later object, even after its slot has been reused or retired.   *)
HandleNamesOneObject ==
  /\ \A x \in Handles : lookup(x) # Null => id[lookup(x)] = x
  /\ \A o, p \in Objects : o # p /\ id[o] = id[p] => id[o] = 0

(* A handle that stopped resolving never resolves again.                   *)
DeadHandleStaysDead ==
  [][\A o \in Objects :
       id[o] # 0 /\ lookup(id[o]) = Null => lookup(id[o])' = Null]_vars

(* The heap implements the registry of ObjectRegistry: slots, generations, *)
(* the free list and the counters are hidden.                              *)
Registry == INSTANCE ObjectRegistry
  WITH name <- id,
       published <- {o \in Objects : InHeap(o)},
       users <- holders

ImplementsRegistry == Registry!Spec
=============================================================================
