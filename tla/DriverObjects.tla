--------------------------- MODULE DriverObjects ---------------------------
(***************************************************************************)
(* Who owns what: the surfaces, buffers, images, contexts and configs of a *)
(* driver, their reference counts and the raw resources behind them        *)
(* (descriptors, MPP buffers and groups, memory, the worker thread), while *)
(* several threads are inside vaCreate..., vaDestroy..., vaDeriveImage and *)
(* the picture calls, each of which may fail at any of its steps.          *)
(*                                                                         *)
(* A call goes from step to step, each of them one access to shared state  *)
(* or one operation that may fail.  What it owes, references to give back  *)
(* and handles to remove, comes before its next step; a step that fails    *)
(* leaves only the code's cleanup.  A handle is the name of the object:    *)
(* ObjectHeap shows that a handle never finds another object.              *)
(***************************************************************************)
EXTENDS Integers, Sequences, SequencesExt, FiniteSets

CONSTANTS
  Threads,
  Creators,       \* the threads that call vaCreate... and vaDeriveImage
  Players,        \* the threads that use what was created
  MaxObjects,     \* bound: objects allocated in a behaviour
  MaxSurfaces,    \* bound: surfaces asked for, and targets named, in a call
  MaxOf,          \* bound: living objects of each type
  MaxJobs,        \* bound: jobs and routes of a context
  SharedHandles   \* two threads may be at the handle of one buffer at once

ASSUME ObjectsAssumption ==
  /\ IsFiniteSet(Threads)
  /\ Creators \subseteq Threads /\ Players \subseteq Threads
  /\ MaxObjects \in Nat /\ MaxSurfaces \in Nat /\ MaxJobs \in Nat
  /\ SharedHandles \in BOOLEAN

VARIABLES
  store,   \* [obj, open, sane]: the objects in memory, the raw resources
           \* that are open (and a mark for one that was closed again), and
           \* whether no reference was used that was not there
  heap,    \* the objects the driver's five heaps hold
  call,    \* the call each thread is in
  made,    \* objects allocated so far
  up       \* the driver is initialised

vars == <<store, heap, call, made, up>>

NoObject == 0

(* What holds a reference inside an object, in the order the destructors   *)
(* give them back (of a decoder, its picture's before its targets': those  *)
(* are surfaces, which have none of their own to give back).               *)
Slots   == {"job", "route", "target", "render", "surface", "buffer"}
NoLinks == [slot \in Slots |-> <<>>]

(* at is the step the call is at, owed what it has to do before; self the  *)
(* object under construction, local the raw resources in local variables,  *)
(* held the references in local variables, ids the handles made so far,    *)
(* seen the makers of the descriptor it has found and is about to close.   *)
(* shape says how a surface is imported, or which kind of context is made; *)
(* surface, on and targets are the objects the application named.          *)
Idle == [op |-> "none", at |-> "idle", owed |-> <<>>, self |-> NoObject,
         local |-> {}, ids |-> <<>>, left |-> 0, shape |-> "own",
         surface |-> NoObject, on |-> NoObject, targets |-> <<>>,
         held |-> <<>>, seen |-> {}, failed |-> FALSE]

Init ==
  /\ store = [obj |-> <<>>, open |-> {}, sane |-> TRUE]
  /\ heap = {}
  /\ call = [t \in Threads |-> Idle]
  /\ made = 0
  /\ up = TRUE

-----------------------------------------------------------------------------
(***************************************************************************)
(* References and destructors.                                             *)
(***************************************************************************)
Alive(m, o) == o \in DOMAIN m.obj

(* A resource that is closed when it is not open leaves a mark.            *)
Close(m, rs) ==
  [m EXCEPT !.open = (@ \ rs) \cup {<<"closed_again", r[2]>> : r \in rs \ @}]

Ref(m, o) == IF Alive(m, o) THEN [m EXCEPT !.obj[o].refs = @ + 1]
             ELSE [m EXCEPT !.sane = FALSE]

(* The raw resources of an object go with it.                              *)
Destroy(m, o) ==
  Close([m EXCEPT !.obj = [p \in DOMAIN @ \ {o} |-> @[p]]], m.obj[o].raw)

Unref(m, o) ==
  IF ~Alive(m, o) THEN [m EXCEPT !.sane = FALSE]
  ELSE IF m.obj[o].refs > 1 THEN [m EXCEPT !.obj[o].refs = @ - 1]
  ELSE Destroy(m, o)

Links(object) ==
  object.links["job"] \o object.links["route"] \o object.links["target"] \o
  object.links["render"] \o object.links["surface"] \o object.links["buffer"]

(* The references the destructor, if this is the last one, gives back.     *)
Inherited(m, o) ==
  IF Alive(m, o) /\ m.obj[o].refs <= 1 THEN Links(m.obj[o]) ELSE <<>>

Linked(o, slot) == store.obj[o].links[slot]

Relinked(o, slot, list) == [store EXCEPT !.obj[o].links[slot] = list]

Of(type) == {o \in heap : store.obj[o].type = type}

-----------------------------------------------------------------------------
(***************************************************************************)
(* The order of the steps.                                                 *)
(***************************************************************************)
Order ==
  [dup |-> "sync", sync |-> "import", dup_chroma |-> "sync_chroma",
   sync_chroma |-> "import_chroma", import_chroma |-> "keep_import",
   keep_import |-> "group", group |-> "placeholder",
   placeholder |-> "placeholder_fd", placeholder_fd |-> "insert_surface",
   layout |-> "calloc_buffer", calloc_buffer |-> "data",
   data |-> "insert_buffer", acquire_buffer |-> "calloc_image",
   calloc_image |-> "insert_image", insert_image |-> "idle",
   calloc_config |-> "insert_config", insert_config |-> "idle",
   acquire_config |-> "calloc_context", calloc_context |-> "sync_objects",
   mpp_create |-> "mpp_init", enc_cfg |-> "enc_control",
   enc_control |-> "insert_context", dec_cfg |-> "dec_control",
   dec_control |-> "dec_timeouts", dec_timeouts |-> "worker",
   worker |-> "insert_context", insert_context |-> "idle", use |-> "idle"]

After(c) ==
  CASE c.at = "calloc_surface" -> IF c.shape = "own" THEN "group" ELSE "dup"
    [] c.at = "import" -> IF c.shape = "one" THEN "keep_import"
                          ELSE "dup_chroma"
    [] c.at = "insert_surface" -> IF c.left > 0 THEN "calloc_surface"
                                  ELSE "idle"
    [] c.at = "insert_buffer" -> IF c.op = "buffer" THEN "idle"
                                 ELSE "acquire_buffer"
    [] c.at \in {"sync_objects", "acquire_target"} ->
         IF c.targets = <<>> THEN "mpp_create" ELSE "acquire_target"
    [] c.at = "mpp_init" -> IF c.shape = "encoder" THEN "enc_cfg"
                            ELSE "dec_cfg"
    [] c.at = "acquire" -> IF c.op = "begin" THEN "acquire_surface" ELSE c.op
    [] c.at = "acquire_surface" -> IF c.op = "begin" THEN "begin"
                                   ELSE "layout"
    [] OTHER -> Order[c.at]

(* What a step that succeeds acquires, and whether the object under        *)
(* construction owns it at once or a local variable holds it.              *)
Takes ==
  [dup |-> {"fd"}, sync |-> {}, import |-> {"buf"},
   dup_chroma |-> {"chroma_fd"}, sync_chroma |-> {},
   import_chroma |-> {"chroma_buf"}, group |-> {"group"},
   placeholder |-> {"priv"}, data |-> {"data"}, sync_objects |-> {"sync"},
   mpp_create |-> {"mpp"}, mpp_init |-> {}, enc_cfg |-> {"enc_cfg"},
   enc_control |-> {}, dec_cfg |-> {"dec_cfg"}, dec_timeouts |-> {},
   worker |-> {"worker"}]

Local == {"fd", "buf", "chroma_fd", "chroma_buf", "group", "priv", "dec_cfg"}

(* Slip: the luma buffer is forgotten when the chroma plane fails.         *)
ClosedOnFailure_chroma(do) ==
  CASE do \in {"sync", "import"} -> {"fd"}
    [] do = "dup_chroma" -> {"fd", "buf"}
    [] do \in {"sync_chroma", "import_chroma"} -> {"fd", "chroma_fd"}
    [] do = "placeholder" -> {"group"}
    [] do = "placeholder_fd" -> {"group", "priv"}
    [] do = "dec_control" -> {"dec_cfg"}
    [] OTHER -> {}

(* The local resources each failing step gives back.                       *)
ClosedOnFailure(do) ==
  CASE do \in {"sync", "import"} -> {"fd"}
    [] do = "dup_chroma" -> {"fd", "buf"}
    [] do \in {"sync_chroma", "import_chroma"} -> {"fd", "buf", "chroma_fd"}
    [] do = "placeholder" -> {"group"}
    [] do = "placeholder_fd" -> {"group", "priv"}
    [] do = "dec_control" -> {"dec_cfg"}
    [] OTHER -> {}

(* What is left to do once a step has failed: the object under construction*)
(* is released, and what the call made before it is undone.                *)
Step(do, on) == [do |-> do, on |-> on]

Unrefs(list)  == [k \in DOMAIN list |-> Step("unref", list[k])]
Removes(list) == [k \in DOMAIN list |-> Step("remove", list[k])]

SelfGone(c) == IF c.self = NoObject THEN <<>> ELSE <<Step("unref", c.self)>>

GiveBackSurface(c) ==
  IF c.op = "derive" THEN <<Step("unref", c.surface)>> ELSE <<>>

Buffer(c) == c.ids[1]

UndoImage(c) ==
  CASE c.at \in {"calloc_buffer", "data", "insert_buffer"} ->
         SelfGone(c) \o GiveBackSurface(c)
    [] c.at = "acquire_buffer" ->
         <<Step("remove", Buffer(c))>> \o GiveBackSurface(c)
    [] c.at = "calloc_image" ->
         <<Step("unref", Buffer(c)), Step("remove", Buffer(c))>> \o
         GiveBackSurface(c)
    [] c.at = "insert_image" -> SelfGone(c) \o <<Step("remove", Buffer(c))>>

ImageSteps == {"calloc_buffer", "data", "insert_buffer", "acquire_buffer",
               "calloc_image", "insert_image"}

(* Slip: a surface that fails takes none of the earlier ones with it.      *)
Cleanup_partial(c) ==
  CASE c.at \in ImageSteps -> UndoImage(c)
    [] c.at \in {"layout", "acquire", "acquire_surface"} -> Unrefs(c.held)
    [] OTHER -> SelfGone(c)

Cleanup(c) ==
  CASE c.op = "surfaces" -> SelfGone(c) \o Removes(c.ids)
    [] c.at \in ImageSteps -> UndoImage(c)
    [] c.at \in {"layout", "acquire", "acquire_surface"} -> Unrefs(c.held)
    [] OTHER -> SelfGone(c)

-----------------------------------------------------------------------------
(***************************************************************************)
(* Steps.                                                                  *)
(***************************************************************************)
Over(c) == c.at = "idle" /\ c.owed = <<>>
Free(t) == Over(call[t])

At(t, do)   == call[t].owed = <<>> /\ call[t].at = do
Owes(t, do) == call[t].owed # <<>> /\ Head(call[t].owed).do = do

(* The call goes on with c; once nothing is left to do only the handles of *)
(* a failed one are remembered.                                            *)
Goes(t, c) ==
  call' = [call EXCEPT ![t] =
             IF ~Over(c) THEN c
             ELSE IF c.failed THEN [Idle EXCEPT !.failed = TRUE, !.ids = c.ids]
             ELSE Idle]

(* c after the step it is at.                                              *)
Onward(c) == [c EXCEPT !.at = After(c)]

(* The call gives these references back and returns.                       *)
Returns(t, list) ==
  Goes(t, [call[t] EXCEPT !.at = "idle", !.held = <<>>, !.owed = Unrefs(list)])

Fails(t) ==
  LET c == call[t]
  IN /\ store' = Close(store, {<<r, c.self>> : r \in ClosedOnFailure(c.at)})
     /\ Goes(t, [c EXCEPT !.at = "idle", !.owed = Cleanup(c), !.local = {},
                          !.self = NoObject, !.held = <<>>, !.failed = TRUE])
     /\ UNCHANGED <<heap, made, up>>

Starts(t, c) ==
  /\ up /\ Free(t)
  /\ call' = [call EXCEPT ![t] = c]
  /\ UNCHANGED <<store, heap, made, up>>

TypeMade ==
  [calloc_surface |-> "surface", calloc_buffer |-> "buffer",
   calloc_image |-> "image", calloc_context |-> "context",
   calloc_config |-> "config"]

(* The object allocated at the step do.                                    *)
New(do, links) ==
  [type |-> TypeMade[do], refs |-> 1, raw |-> {}, links |-> links]

With(obj, o, new) ==
  [p \in DOMAIN obj \cup {o} |-> IF p = o THEN new ELSE obj[p]]

HasRoom(do) ==
  /\ made < MaxObjects
  /\ Cardinality({p \in DOMAIN store.obj : store.obj[p].type = TypeMade[do]})
       < MaxOf[TypeMade[do]]

calloc_succeeds(t) ==
  LET do == call[t].at
  IN /\ \E d \in DOMAIN TypeMade \ {"calloc_image"} : At(t, d)
     /\ HasRoom(do)
     /\ made' = made + 1
     /\ store' = [store EXCEPT !.obj = With(@, made', New(do, NoLinks))]
     /\ Goes(t, [Onward(call[t]) EXCEPT !.self = made'])
     /\ UNCHANGED <<heap, up>>

(* An image takes over the reference on its buffer, and the buffer of a    *)
(* derived one the reference on the surface.                               *)
calloc_image_succeeds(t) ==
  LET c   == call[t]
      b   == Buffer(c)
      new == New("calloc_image", [NoLinks EXCEPT !["buffer"] = <<b>>])
      obj == IF c.op # "derive" THEN store.obj
             ELSE [store.obj EXCEPT ![b].links["surface"] =
                     Append(@, c.surface)]
  IN /\ At(t, "calloc_image")
     /\ HasRoom("calloc_image")
     /\ made' = made + 1
     /\ store' = [store EXCEPT !.obj = With(obj, made', new)]
     /\ Goes(t, [Onward(c) EXCEPT !.self = made', !.held = <<>>])
     /\ UNCHANGED <<heap, up>>

take_succeeds(t) ==
  LET c   == call[t]
      new == {<<r, c.self>> : r \in Takes[c.at]}
      own == {<<r, c.self>> : r \in Takes[c.at] \ Local}
  IN /\ \E d \in DOMAIN Takes : At(t, d)
     /\ store' = [store EXCEPT !.open = @ \cup new,
                               !.obj[c.self].raw = @ \cup own]
     /\ Goes(t, [Onward(c) EXCEPT !.local = @ \cup (new \ own)])
     /\ UNCHANGED <<heap, made, up>>

(* import_surface_descriptor, and the placeholder of a surface of its own, *)
(* hand everything over at the end.                                        *)
HandOvers == {"keep_import", "placeholder_fd"}

hand_over(t) ==
  LET c == call[t]
  IN /\ \E do \in HandOvers : At(t, do)
     /\ store' = [store EXCEPT !.obj[c.self].raw = @ \cup c.local]
     /\ Goes(t, [Onward(c) EXCEPT !.local = {}])
     /\ UNCHANGED <<heap, made, up>>

(* The decoder's configuration is released once MPP has it.                *)
dec_control(t) ==
  /\ At(t, "dec_control")
  /\ store' = Close(store, call[t].local)
  /\ Goes(t, [Onward(call[t]) EXCEPT !.local = {}])
  /\ UNCHANGED <<heap, made, up>>

(* The object's first reference becomes the heap's.  create_surfaces goes  *)
(* on with the next surface.                                               *)
Inserts == {"insert_surface", "insert_buffer", "insert_image",
            "insert_context", "insert_config"}

insert_succeeds(t) ==
  LET c    == call[t]
      left == IF c.at = "insert_surface" THEN c.left - 1 ELSE c.left
  IN /\ \E do \in Inserts : At(t, do)
     /\ heap' = heap \cup {c.self}
     /\ Goes(t, Onward([c EXCEPT !.self = NoObject, !.left = left,
                                 !.ids = Append(@, c.self)]))
     /\ UNCHANGED <<store, made, up>>

(* The lookups: *_acquire takes a reference under object_lock.  A target   *)
(* is the context's at once; a config or an object that is only looked at  *)
(* is given back by the next step; the others are held.                    *)
LookedAt == {"use", "acquire_config"}
Kept     == {"acquire", "acquire_surface", "acquire_buffer"}
Acquires == LookedAt \cup Kept \cup {"acquire_target"}

Wanted(c) ==
  CASE c.at = "acquire_buffer" -> Buffer(c)
    [] c.at = "acquire_surface" -> c.surface
    [] c.at = "acquire_target" -> Head(c.targets)
    [] OTHER -> c.on

look_at_succeeds(t) ==
  LET o == Wanted(call[t])
  IN /\ \E do \in LookedAt : At(t, do)
     /\ o \in heap
     /\ store' = Ref(store, o)
     /\ Goes(t, [Onward(call[t]) EXCEPT !.owed = Unrefs(<<o>>)])
     /\ UNCHANGED <<heap, made, up>>

acquire_succeeds(t) ==
  LET o == Wanted(call[t])
  IN /\ \E do \in Kept : At(t, do)
     /\ o \in heap
     /\ store' = Ref(store, o)
     /\ Goes(t, [Onward(call[t]) EXCEPT !.held = Append(@, o)])
     /\ UNCHANGED <<heap, made, up>>

acquire_target_succeeds(t) ==
  LET o == Wanted(call[t])
  IN /\ At(t, "acquire_target")
     /\ o \in heap
     /\ store' = [Ref(store, o) EXCEPT
                    !.obj[call[t].self].links["target"] = Append(@, o)]
     /\ Goes(t, Onward([call[t] EXCEPT !.targets = Tail(@)]))
     /\ UNCHANGED <<heap, made, up>>

acquire_fails(t) ==
  /\ \E do \in Acquires : At(t, do)
  /\ Wanted(call[t]) \notin heap
  /\ Fails(t)

Fallible == DOMAIN TypeMade \cup DOMAIN Takes \cup Inserts \cup
            {"placeholder_fd", "dec_control"}

fallible_fails(t) ==
  /\ \E do \in Fallible : At(t, do)
  /\ Fails(t)

(* rk_object_unref, and the destructor with the last reference.            *)
unref(t) ==
  LET o == Head(call[t].owed).on
  IN /\ Owes(t, "unref")
     /\ store' = Unref(store, o)
     /\ Goes(t, [call[t] EXCEPT
                   !.owed = Unrefs(Inherited(store, o)) \o Tail(@)])
     /\ UNCHANGED <<heap, made, up>>

(* rk_object_heap_remove under object_lock; the unref comes after it.  An  *)
(* image takes its buffer out of the buffer heap.                          *)
remove(t) ==
  LET o    == Head(call[t].owed).on
      b    == Linked(o, "buffer")[1]
      gone == IF o \notin heap THEN <<>>
              ELSE IF store.obj[o].type = "image" /\ b \in heap THEN <<b, o>>
              ELSE <<o>>
  IN /\ Owes(t, "remove")
     /\ heap' = heap \ ToSet(gone)
     /\ Goes(t, [call[t] EXCEPT !.owed = Unrefs(gone) \o Tail(@)])
     /\ UNCHANGED <<store, made, up>>

-----------------------------------------------------------------------------
(***************************************************************************)
(* The calls.                                                              *)
(***************************************************************************)
create_surfaces(t, n, shape) ==
  Starts(t, [Idle EXCEPT !.op = "surfaces", !.at = "calloc_surface",
                         !.left = n, !.shape = shape])

rk_CreateBuffer(t) ==
  Starts(t, [Idle EXCEPT !.op = "buffer", !.at = "calloc_buffer"])

rk_CreateImage(t) ==
  Starts(t, [Idle EXCEPT !.op = "image", !.at = "calloc_buffer"])

rk_DeriveImage(t, s) ==
  Starts(t, [Idle EXCEPT !.op = "derive", !.at = "acquire_surface",
                         !.surface = s])

(* The surface may turn out not to be derivable.                           *)
derivable(t) ==
  /\ At(t, "layout")
  /\ Goes(t, Onward(call[t]))
  /\ UNCHANGED <<store, heap, made, up>>

not_derivable(t) == At(t, "layout") /\ Fails(t)

rk_CreateConfig(t) ==
  Starts(t, [Idle EXCEPT !.op = "config", !.at = "calloc_config"])

rk_CreateContext(t, config, targets, kind) ==
  Starts(t, [Idle EXCEPT !.op = "context", !.at = "acquire_config",
                         !.on = config, !.targets = targets, !.shape = kind])

(* vaDestroySurfaces, vaDestroyBuffer, vaDestroyImage, vaDestroyContext    *)
(* and vaDestroyConfig.                                                    *)
destroy(t, list) ==
  Starts(t, [Idle EXCEPT !.op = "destroy", !.owed = Removes(list)])

(* Any call that looks an object up and gives it back (vaSyncSurface,      *)
(* vaMapBuffer, vaExportSurfaceHandle, vaQueryConfigAttributes).           *)
look_up(t, o) ==
  Starts(t, [Idle EXCEPT !.op = "use", !.at = "use", !.on = o])

rk_BeginPicture(t, c, s) ==
  Starts(t, [Idle EXCEPT !.op = "begin", !.at = "acquire", !.on = c,
                         !.surface = s])

rk_EndPicture(t, c) ==
  Starts(t, [Idle EXCEPT !.op = "end", !.at = "acquire", !.on = c])

IsDecoder(c) == <<"worker", c>> \in store.obj[c].raw

(* BeginPicture with both references: an encoder refuses a surface of      *)
(* another shape and a second picture, a decoder an imported surface.      *)
begin_refused(t) ==
  LET c == call[t].on
      s == call[t].surface
  IN /\ At(t, "begin")
     /\ IsDecoder(c) => <<"fd", s>> \in store.obj[s].raw
     /\ Returns(t, <<s, c>>)
     /\ UNCHANGED <<store, heap, made, up>>

(* Slip: the picture that was never ended keeps its surface.               *)
begin_accepted_abandons(t) ==
  LET c == call[t].on
      s == call[t].surface
  IN /\ At(t, "begin")
     /\ IF IsDecoder(c) THEN <<"fd", s>> \notin store.obj[s].raw
        ELSE Linked(c, "render") = <<>>
     /\ store' = Relinked(c, "render", <<s>>)
     /\ Returns(t, <<c>>)
     /\ UNCHANGED <<heap, made, up>>

begin_accepted(t) ==
  LET c == call[t].on
      s == call[t].surface
  IN /\ At(t, "begin")
     /\ IF IsDecoder(c) THEN <<"fd", s>> \notin store.obj[s].raw
        ELSE Linked(c, "render") = <<>>
     /\ store' = Relinked(c, "render", <<s>>)
     /\ Returns(t, Linked(c, "render") \o <<c>>)
     /\ UNCHANGED <<heap, made, up>>

(* EndPicture without a picture; with one, which an encoder has encoded    *)
(* and which a decoder may fail to make a job of.                          *)
end_picture(t) ==
  LET c == call[t].on
  IN /\ At(t, "end")
     /\ store' = Relinked(c, "render", <<>>)
     /\ Returns(t, Linked(c, "render") \o <<c>>)
     /\ UNCHANGED <<heap, made, up>>

(* A decoder's job takes a reference of its own on the surface before the  *)
(* picture's is given back.                                                *)
end_picture_job(t) ==
  LET c == call[t].on
      s == Linked(c, "render")[1]
  IN /\ At(t, "end")
     /\ IsDecoder(c) /\ Linked(c, "render") # <<>>
     /\ store' = Ref(Relinked(c, "render", <<>>), s)
     /\ Goes(t, [call[t] EXCEPT !.at = "enqueue", !.held = Append(@, s),
                                !.owed = Unrefs(<<s>>)])
     /\ UNCHANGED <<heap, made, up>>

Busy(c) == Len(Linked(c, "job")) + Len(Linked(c, "route"))

(* rk_mpp_dec_enqueue_job, or rk_mpp_dec_reject_job.                       *)
enqueue(t) ==
  LET c == call[t].on
      s == call[t].held[2]
  IN /\ At(t, "enqueue")
     /\ Busy(c) < MaxJobs
     /\ store' = Relinked(c, "job", Append(Linked(c, "job"), s))
     /\ Returns(t, <<c>>)
     /\ UNCHANGED <<heap, made, up>>

reject(t) ==
  /\ At(t, "enqueue")
  /\ Returns(t, <<call[t].held[2], call[t].on>>)
  /\ UNCHANGED <<store, heap, made, up>>

(* The worker of a context that is alive, in the heap or not: the first    *)
(* job becomes a route (which takes its own reference before the job's is  *)
(* dropped) or fails; a route ends when its frame has come.  A surface     *)
(* holds no reference, so that its destructor has nothing to give back.    *)
Working == {c \in DOMAIN store.obj : <<"worker", c>> \in store.obj[c].raw}

worker_submit(c) ==
  LET s     == Head(Linked(c, "job"))
      taken == Relinked(c, "job", Tail(Linked(c, "job")))
      route == [taken EXCEPT !.obj[c].links["route"] = Append(@, s)]
  IN /\ c \in Working /\ Linked(c, "job") # <<>>
     /\ \/ store' = Unref(Ref(route, s), s)
        \/ store' = Unref(taken, s)
     /\ UNCHANGED <<heap, call, made, up>>

worker_output(c, k) ==
  /\ c \in Working
  /\ store' = Unref(Relinked(c, "route", RemoveAt(Linked(c, "route"), k)),
                    Linked(c, "route")[k])
  /\ UNCHANGED <<heap, call, made, up>>

-----------------------------------------------------------------------------
(***************************************************************************)
(* The descriptor of a derived image's buffer, acquired_fd: one dup for    *)
(* all acquirers, read and written without a lock.  left is the number of  *)
(* dups a call may still make.                                             *)
(***************************************************************************)
AcquiredFds(b) == {x \in store.obj[b].raw : x[1] = "acquired_fd"}
MadeBy(makers, b) == {<<"acquired_fd", b, u>> : u \in makers}
Derived(b) == Linked(b, "surface") # <<>>

rk_buffer_acquire_handle(t, b) ==
  Starts(t, [Idle EXCEPT !.op = "handle", !.at = "acquire", !.on = b,
                         !.left = 1])

rk_buffer_release_handle(t, b) ==
  Starts(t, [Idle EXCEPT !.op = "release", !.at = "acquire", !.on = b,
                         !.left = 0])

(* vaMapBuffer checks a derived buffer like an acquisition.                *)
rk_MapBuffer(t, b) ==
  Starts(t, [Idle EXCEPT !.op = "handle", !.at = "acquire", !.on = b,
                         !.left = 0])

(* The steps between a look at acquired_fd and the store that rests on it. *)
Resting == {"dup_handle", "drop_handle"}

Alone(t, b) ==
  SharedHandles \/ \A u \in Threads \ {t} :
    ~(call[u].owed = <<>> /\ call[u].at \in Resting /\ call[u].on = b)

(* The surface may have lost its linear layout, or still have the buffer   *)
(* it was derived from (derived_still_valid): the call is over unless it   *)
(* needs a descriptor.  A release may find none.                           *)
has_handle(t) ==
  LET b == call[t].on
  IN /\ At(t, "handle") \/ (At(t, "release") /\ AcquiredFds(b) = {})
     /\ Returns(t, <<b>>)
     /\ UNCHANGED <<store, heap, made, up>>

needs_handle(t) ==
  LET b == call[t].on
  IN /\ At(t, "handle") /\ Alone(t, b) /\ call[t].left = 1
     /\ Derived(b) /\ AcquiredFds(b) = {}
     /\ Goes(t, [call[t] EXCEPT !.at = "dup_handle"])
     /\ UNCHANGED <<store, heap, made, up>>

(* derived_still_valid finds the surface bound to another buffer, or the   *)
(* handle is released: the descriptor that is there will be closed.        *)
sees_handle(t) ==
  LET b == call[t].on
  IN /\ At(t, "release") \/ (At(t, "handle") /\ Derived(b))
     /\ Alone(t, b) /\ AcquiredFds(b) # {}
     /\ Goes(t, [call[t] EXCEPT !.at = "drop_handle", !.seen =
                  {u \in Threads : <<"acquired_fd", b, u>> \in AcquiredFds(b)}])
     /\ UNCHANGED <<store, heap, made, up>>

(* close and acquired_fd = -1, with nothing in between that a property     *)
(* could tell; an acquisition then needs a descriptor if it was its first  *)
(* check, and fails if it was the one after the dup.                       *)
drop_handle(t) ==
  LET c == call[t]
      b == c.on
  IN /\ At(t, "drop_handle")
     /\ store' = [Close(store, MadeBy(c.seen, b)) EXCEPT
                    !.obj[b].raw = @ \ AcquiredFds(b)]
     /\ IF c.op = "handle" /\ c.left = 1
          THEN Goes(t, [c EXCEPT !.at = "dup_handle", !.seen = {}])
          ELSE Returns(t, <<b>>)
     /\ UNCHANGED <<heap, made, up>>

(* acquired_fd = dup(...), which may be -1; then the second check.         *)
dup_handle(t) ==
  LET b  == call[t].on
      fd == <<"acquired_fd", b, t>>
  IN /\ At(t, "dup_handle")
     /\ \E new \in {{fd}, {}} :
          store' = [store EXCEPT !.open = @ \cup new,
                      !.obj[b].raw = (@ \ AcquiredFds(b)) \cup new]
     /\ Goes(t, [call[t] EXCEPT !.at = "handle", !.left = 0])
     /\ UNCHANGED <<heap, made, up>>

-----------------------------------------------------------------------------
(***************************************************************************)
(* The driver.                                                             *)
(***************************************************************************)
Listed(type) == SetToSeq(Of(type))

(* vaTerminate, when the application is in no other call: the heaps are    *)
(* emptied one after the other.  Only the workers still run, and they look *)
(* nothing up.                                                             *)
rk_Terminate(t) ==
  /\ up /\ \A u \in Threads : Free(u)
  /\ Goes(t, [Idle EXCEPT !.op = "terminate", !.owed =
                Unrefs(Listed("context") \o Listed("surface") \o
                       Listed("image") \o Listed("buffer") \o
                       Listed("config"))])
  /\ heap' = {}
  /\ up' = FALSE
  /\ UNCHANGED <<store, made>>

rk_driver_init ==
  /\ ~up /\ \A t \in Threads : Free(t)
  /\ up' = TRUE
  /\ UNCHANGED <<store, heap, call, made>>

Lists(type) == UNION {[1 .. n -> Of(type)] : n \in 1 .. MaxSurfaces}

Creates(t) ==
  \/ \E n \in 1 .. MaxSurfaces, shape \in {"own", "one", "two"} :
       create_surfaces(t, n, shape)
  \/ rk_CreateBuffer(t)
  \/ rk_CreateImage(t)
  \/ \E s \in Of("surface") : rk_DeriveImage(t, s)
  \/ rk_CreateConfig(t)
  \/ \E config \in Of("config"), kind \in {"encoder", "decoder"},
        targets \in Lists("surface") \cup {<<>>} :
       rk_CreateContext(t, config, targets, kind)

Destroys(t) ==
  \/ \E list \in Lists("surface") : destroy(t, list)
  \/ \E o \in heap \ Of("surface") : destroy(t, <<o>>)

Uses(t) ==
  \/ \E o \in heap : look_up(t, o)
  \/ \E c \in Of("context"), s \in Of("surface") : rk_BeginPicture(t, c, s)
  \/ \E c \in Of("context") : rk_EndPicture(t, c)
  \/ \E b \in Of("buffer") : \/ rk_buffer_acquire_handle(t, b)
                            \/ rk_buffer_release_handle(t, b)
                            \/ rk_MapBuffer(t, b)

Builds(t) ==
  \/ calloc_succeeds(t) \/ calloc_image_succeeds(t) \/ take_succeeds(t)
  \/ hand_over(t) \/ dec_control(t) \/ insert_succeeds(t)
  \/ fallible_fails(t) \/ derivable(t) \/ not_derivable(t)

Shares(t) ==
  \/ look_at_succeeds(t) \/ acquire_succeeds(t)
  \/ acquire_target_succeeds(t) \/ acquire_fails(t)
  \/ unref(t) \/ remove(t)

Pictures(t) ==
  \/ begin_refused(t) \/ begin_accepted(t) \/ end_picture(t)
  \/ end_picture_job(t) \/ enqueue(t) \/ reject(t)

Handles(t) ==
  \/ has_handle(t) \/ needs_handle(t) \/ sees_handle(t)
  \/ dup_handle(t) \/ drop_handle(t)

Works(c) ==
  \/ worker_submit(c)
  \/ \E k \in DOMAIN Linked(c, "route") : worker_output(c, k)

Next ==
  \/ \E t \in Creators : Creates(t)
  \/ \E t \in Players : Uses(t)
  \/ \E t \in Threads : \/ Destroys(t) \/ Builds(t) \/ Shares(t)
                        \/ Pictures(t) \/ Handles(t) \/ rk_Terminate(t)
  \/ \E c \in DOMAIN store.obj : Works(c)
  \/ rk_driver_init

Spec == Init /\ [][Next]_vars

-----------------------------------------------------------------------------
(***************************************************************************)
(* Properties.                                                             *)
(***************************************************************************)

(* How often o occurs in the lists of the family F.                        *)
Positions(list, o) == {k \in DOMAIN list : list[k] = o}

Occurrences(F, o) ==
  Cardinality(UNION {{<<i, k>> : k \in Positions(F[i], o)} : i \in DOMAIN F})

(* The references of a call: those it holds, those it is about to give     *)
(* back, and that of the object it constructs.                             *)
Owed(c) == [k \in DOMAIN c.owed |->
              IF c.owed[k].do = "unref" THEN c.owed[k].on ELSE NoObject]

References(c) == c.held \o Owed(c) \o <<c.self>>

(* The references that exist on o: the heap's, one for every link of a     *)
(* living object, and those of the calls.                                  *)
Holders(o) ==
  (IF o \in heap THEN 1 ELSE 0) +
  Occurrences([p \in DOMAIN store.obj |-> Links(store.obj[p])], o) +
  Occurrences([t \in Threads |-> References(call[t])], o)

(* Every reference count is the number of its holders, through every       *)
(* failure of every call and whatever another thread destroys in between:  *)
(* no object is freed while something still points to it, and none is kept *)
(* by a reference nobody will give back.                                   *)
RefsExact ==
  /\ store.sane
  /\ \A o \in 1 .. made :
       IF Alive(store, o) THEN /\ store.obj[o].refs = Holders(o)
                               /\ store.obj[o].refs > 0
       ELSE Holders(o) = 0

(* Every descriptor, MPP buffer, group, context, configuration and thread  *)
(* that is open belongs to exactly one living object or to a call that is  *)
(* under way, none was closed twice (the mark would belong to nobody), and *)
(* once the driver is terminated none is left.                             *)
RawExact ==
  LET owned == UNION {store.obj[o].raw : o \in DOMAIN store.obj}
      local == UNION {call[t].local : t \in Threads}
  IN /\ store.open = owned \cup local
     /\ owned \cap local = {}
     /\ \A o, p \in DOMAIN store.obj :
          o # p => store.obj[o].raw \cap store.obj[p].raw = {}
     /\ ~up /\ (\A t \in Threads : Free(t)) =>
          store.open = {} /\ DOMAIN store.obj = {}

(* A create call that reports a failure has left nothing behind: none of   *)
(* the surfaces it made before the one that failed, and neither a buffer   *)
(* nor an image, can still be found by its handle.                         *)
AllOrNothing ==
  \A t \in Threads : Free(t) /\ call[t].failed =>
                      ToSet(call[t].ids) \cap heap = {}
=============================================================================
