------------------------ MODULE DriverObjectsProofs ------------------------
(***************************************************************************)
(* Reference counts, the cleanup of failed calls and the resources behind  *)
(* the objects.  DriverReferencesProofs shows that every step keeps the    *)
(* balance of the counts (RefInv); here the same of the resources          *)
(* (RawFits), of the handles of a failed call (UndoInv) and of the owners  *)
(* of what is open (Tight), and the theorems.                              *)
(***************************************************************************)
EXTENDS DriverReferencesProofs

-----------------------------------------------------------------------------
(***************************************************************************)
(* The raw resources.                                                      *)
(***************************************************************************)

(* Only the call of the thread changes.                                    *)
LEMMA GoesIs ==
  ASSUME RefInv, NEW t \in Threads, NEW e, Goes(t, e)
  PROVE  /\ call'[t] = Settled(e)
         /\ \A u \in Threads \ {t} : call'[u] = call[u]
<1>1. call = [u \in Threads |-> call[u]]
  BY DEF RefInv, TypeInv, ObjectsFit
<1>2. call' = [call EXCEPT ![t] = Settled(e)]
  BY DEF Goes, Settled
<1> QED
  BY <1>1, <1>2

(* A call that is over has no resources.                                   *)
LEMMA SettledRaw ==
  ASSUME NEW e, LocalFits(e), NEW obj, SelfRaw(e, obj)
  PROVE  /\ LocalFits(Settled(e)) /\ SelfRaw(Settled(e), obj)
         /\ Settled(e).local = e.local
<1> DEFINE d == Settled(e)
<1>1. CASE ~Over(e)
  BY <1>1 DEF Settled
<1>2. CASE Over(e)
  <2>1. e.at = "idle"
    BY <1>2 DEF Over
  <2>2. d.at = "idle" /\ d.local = {} /\ d.self = NoObject
    BY <1>2 DEF Settled, Idle
  <2>3. \A o : OwnedBy(ClosedOnFailure("idle"), o) = {}
    BY DEF OwnedBy, ClosedOnFailure
  <2>4. e.local = {}
    BY <2>1, <2>3 DEF LocalFits
  <2> HIDE DEF d
  <2> QED
    BY <2>2, <2>3, <2>4 DEF LocalFits, SelfRaw, d
<1> QED
  BY <1>1, <1>2

(* A step that leaves everything open that something has.                  *)
RawStep(t, e) ==
  /\ Goes(t, e)
  /\ \A p \in DOMAIN store'.obj :
       /\ store'.obj[p].raw \subseteq store'.open
       /\ \A x \in store'.obj[p].raw : x[2] = p
  /\ LocalFits(e) /\ SelfRaw(e, store'.obj) /\ e.local \subseteq store'.open
  /\ \A u \in Threads \ {t} : /\ call[u].local \subseteq store'.open
                              /\ SelfRaw(call[u], store'.obj)

(* It keeps the invariant.                                                 *)
LEMMA RawTaken ==
  ASSUME SafeInv, NEW t \in Threads, NEW e, RawStep(t, e)
  PROVE  RawFits'
<1>1. RefInv /\ RawFits
  BY DEF SafeInv
<1>2. /\ call'[t] = Settled(e)
      /\ \A u \in Threads \ {t} : call'[u] = call[u]
  BY <1>1, GoesIs DEF RawStep
<1>3. /\ LocalFits(Settled(e)) /\ SelfRaw(Settled(e), store'.obj)
      /\ Settled(e).local \subseteq store'.open
  BY SettledRaw DEF RawStep
<1>4. ASSUME NEW u \in Threads
      PROVE  /\ LocalFits(call'[u]) /\ SelfRaw(call'[u], store'.obj)
             /\ call'[u].local \subseteq store'.open
  <2>1. CASE u = t
    BY <2>1, <1>2, <1>3
  <2>2. CASE u # t
    BY <2>2, <1>1, <1>2 DEF RawFits, RawStep
  <2> QED
    BY <2>1, <2>2
<1>5. \A u \in Threads : LocalFits(call[u])' /\ SelfRaw(call[u], store.obj)'
  BY <1>4 DEF LocalFits, SelfRaw
<1> QED
  BY <1>4, <1>5 DEF RawFits, RawStep

(* What the other calls construct is left alone by a step that changes only*)
(* what its own call can reach.                                            *)
LEMMA OthersRaw ==
  ASSUME SafeInv, NEW t \in Threads, NEW obj2,
         \A p \in DOMAIN store.obj :
           Reachable(t, p) \/ obj2[p].raw = store.obj[p].raw
  PROVE  \A u \in Threads \ {t} : SelfRaw(call[u], obj2)
<1>1. RefInv
  BY DEF SafeInv
<1>2. ASSUME NEW u \in Threads \ {t}, call[u].self # NoObject
      PROVE  obj2[call[u].self].raw = store.obj[call[u].self].raw
  <2> DEFINE s == call[u].self
  <2>1. /\ s \in DOMAIN store.obj /\ s \notin heap
        /\ LinkRefs(store.obj, s) = 0 /\ RefsOf(call[t], s) = 0
    BY <1>1, <1>2, SelfAlone
  <2>2. ~Reachable(t, s)
    BY <2>1 DEF Reachable
  <2> QED
    BY <2>1, <2>2
<1>3. \A u \in Threads : SelfRaw(call[u], store.obj)
  BY DEF SafeInv, RawFits
<1> QED
  BY <1>2, <1>3 DEF SelfRaw

(* The steps at which a call has resources in local variables.             *)
Loaded == {"sync", "import", "dup_chroma", "sync_chroma", "import_chroma",
           "keep_import", "placeholder", "placeholder_fd", "dec_control"}

(* At any other there are none.                                            *)
LEMMA NotLoaded ==
  ASSUME NEW c, c.at \notin Loaded
  PROVE  LocalFits(c) <=> c.local = {}
<1>1. ClosedOnFailure(c.at) = {}
  BY DEF Loaded, ClosedOnFailure
<1>2. OwnedBy({}, c.self) = {}
  BY DEF OwnedBy
<1> QED
  BY <1>1, <1>2 DEF LocalFits, Loaded

(* A step that neither opens nor closes anything, and neither inserts a    *)
(* handle nor removes one.                                                 *)
Quiet(t, e) ==
  LET c == call[t]
  IN /\ Goes(t, e) /\ heap' = heap /\ made' \in {made, made + 1}
     /\ store'.open = store.open
     /\ DOMAIN store.obj \subseteq DOMAIN store'.obj
     /\ \A p \in DOMAIN store'.obj :
          store'.obj[p].raw = IF p \in DOMAIN store.obj THEN store.obj[p].raw
                              ELSE {}
     /\ c.at \notin Loaded /\ e.at \notin Loaded /\ e.local \in {{}, c.local}
     /\ e.failed = FALSE /\ e.ids \in {<<>>, c.ids}
     /\ \/ e.self = NoObject
        \/ e.self = c.self /\ RawAt(c.at) \subseteq RawAt(e.at)
        \/ e.self = made + 1 /\ made + 1 \in DOMAIN store'.obj
     /\ e.at \in Resting => /\ e.owed = <<>> /\ Alone(t, e.on)
                            /\ e.on \in DOMAIN store.obj
                            /\ AcquiredFds(e.on) = Expected(e)

(* Such a step keeps the resources where they are.                         *)
LEMMA QuietRaw ==
  ASSUME SafeInv, NEW t \in Threads, NEW e, Quiet(t, e)
  PROVE  RawFits'
<1> DEFINE c == call[t]
<1>1. RefInv /\ RawFits /\ made + 1 \notin DOMAIN store.obj
  BY ObjectsStand DEF SafeInv, RefInv
<1>2. e.local = {} /\ LocalFits(e)
  BY <1>1, NotLoaded DEF Quiet, RawFits
<1>3. \A p \in DOMAIN store.obj : store'.obj[p].raw = store.obj[p].raw
  BY DEF Quiet
<1>4. SelfRaw(e, store'.obj)
  <2>1. CASE e.self = NoObject
    BY <2>1 DEF SelfRaw
  <2>2. CASE e.self = c.self /\ RawAt(c.at) \subseteq RawAt(e.at)
    <3>1. SelfRaw(c, store.obj)
      BY <1>1 DEF RawFits
    <3>2. OwnedBy(RawAt(c.at), c.self) \subseteq OwnedBy(RawAt(e.at), c.self)
      BY <2>2 DEF OwnedBy
    <3>3. c.self # NoObject => c.self \in DOMAIN store.obj
      BY <1>1, SelfAlone
    <3> QED
      BY <1>3, <2>2, <3>1, <3>2, <3>3 DEF SelfRaw
  <2>3. CASE e.self = made + 1 /\ made + 1 \in DOMAIN store'.obj
    <3>1. store'.obj[e.self].raw = {}
      BY <1>1, <2>3 DEF Quiet
    <3> QED
      BY <3>1 DEF SelfRaw
  <2> QED
    BY <2>1, <2>2, <2>3 DEF Quiet
<1>5. \A u \in Threads \ {t} : SelfRaw(call[u], store'.obj)
  BY <1>3, OthersRaw
<1>6. RawStep(t, e)
  BY <1>1, <1>2, <1>4, <1>5 DEF RawStep, Quiet, RawFits
<1> QED
  BY <1>6, RawTaken

(* The call that begins.                                                   *)
Begun(c) ==
  /\ ~Over(c) /\ c.self = NoObject /\ c.local = {} /\ c.ids = <<>>
  /\ c.failed = FALSE /\ c.at \notin Loaded /\ c.at \notin Resting

(* It begins quietly.                                                      *)
LEMMA BegunQuiet ==
  ASSUME RefInv, NEW t \in Threads, NEW c, Starts(t, c), Begun(c)
  PROVE  Quiet(t, c)
<1>1. Goes(t, c) /\ UNCHANGED <<store, heap, made, up>> /\ call[t].at = "idle"
  BY DEF Starts, Goes, Begun, Free, Over
<1>2. call[t].at \notin Loaded
  BY <1>1 DEF Loaded
<1> QED
  BY <1>1, <1>2 DEF Quiet, Begun

(* Every list of surfaces has one.                                         *)
LEMMA ListsFilled ==
  ASSUME NEW type, NEW list \in Lists(type)
  PROVE  list # <<>>
<1>1. PICK n \in 1 .. MaxSurfaces : list \in [1 .. n -> Of(type)]
  BY DEF Lists
<1>2. n \in Nat /\ n > 0 /\ DOMAIN list = 1 .. n
  BY <1>1, ObjectsAssumption
<1>3. 1 \in DOMAIN list
  BY <1>2
<1> QED
  BY <1>3

(* The calls begin quietly.                                                *)
LEMMA OpensQuiet ==
  ASSUME RefInv, NEW t \in Threads, Creates(t) \/ Destroys(t) \/ Uses(t)
  PROVE  \E e : Quiet(t, e)
<1> DEFINE Calling == \E c : Starts(t, c) /\ Begun(c)
<1>1. ASSUME Creates(t)
      PROVE  Calling
  <2>1. ASSUME NEW n, NEW shape, create_surfaces(t, n, shape)
        PROVE  Calling
    <3>1. Begun([Idle EXCEPT !.op = "surfaces", !.at = "calloc_surface",
                                   !.left = n, !.shape = shape])
      BY DEF Begun, Idle, Over, Loaded, Resting
    <3> QED
      BY <2>1, <3>1 DEF create_surfaces
  <2>2. rk_CreateBuffer(t) => Calling
    <3>1. Begun([Idle EXCEPT !.op = "buffer", !.at = "calloc_buffer"])
      BY DEF Begun, Idle, Over, Loaded, Resting
    <3> QED
      BY <3>1 DEF rk_CreateBuffer
  <2>3. rk_CreateImage(t) => Calling
    <3>1. Begun([Idle EXCEPT !.op = "image", !.at = "calloc_buffer"])
      BY DEF Begun, Idle, Over, Loaded, Resting
    <3> QED
      BY <3>1 DEF rk_CreateImage
  <2>4. ASSUME NEW s, rk_DeriveImage(t, s)
        PROVE  Calling
    <3>1. Begun([Idle EXCEPT !.op = "derive", !.at = "acquire_surface",
                                   !.surface = s])
      BY DEF Begun, Idle, Over, Loaded, Resting
    <3> QED
      BY <2>4, <3>1 DEF rk_DeriveImage
  <2>5. rk_CreateConfig(t) => Calling
    <3>1. Begun([Idle EXCEPT !.op = "config", !.at = "calloc_config"])
      BY DEF Begun, Idle, Over, Loaded, Resting
    <3> QED
      BY <3>1 DEF rk_CreateConfig
  <2>6. ASSUME NEW x, NEW targets, NEW kind, rk_CreateContext(t, x, targets, kind)
        PROVE  Calling
    <3>1. Begun([Idle EXCEPT !.op = "context", !.at = "acquire_config", !.on = x,
                                   !.targets = targets, !.shape = kind])
      BY DEF Begun, Idle, Over, Loaded, Resting
    <3> QED
      BY <2>6, <3>1 DEF rk_CreateContext
  <2> HIDE DEF Calling
  <2> QED
    BY <1>1, <2>1, <2>2, <2>3, <2>4, <2>5, <2>6 DEF Creates
<1>2. ASSUME Destroys(t)
      PROVE  Calling
  <2>1. ASSUME NEW list, list # <<>>, destroy(t, list), DOMAIN list # {}
        PROVE  Calling
    <3> DEFINE c == [Idle EXCEPT !.op = "destroy", !.owed = Removes(list)]
    <3>1. DOMAIN Removes(list) # {}
      BY <2>1 DEF Removes
    <3>2. Removes(list) # <<>>
      BY <3>1
    <3>3. Begun(c)
      BY <3>2 DEF Begun, Idle, Over, Loaded, Resting
    <3>4. Starts(t, c)
      BY <2>1 DEF destroy
    <3> QED
      BY <3>3, <3>4
  <2>2. ASSUME NEW list \in Lists("surface"), destroy(t, list)
        PROVE  Calling
    <3>1. PICK n \in 1 .. MaxSurfaces : list \in [1 .. n -> Of("surface")]
      BY DEF Lists
    <3>2. 1 \in DOMAIN list
      BY <3>1, ObjectsAssumption
    <3> HIDE DEF Calling
    <3> QED
      BY <2>1, <2>2, <3>2, ListsFilled
  <2>3. ASSUME NEW o, destroy(t, <<o>>)
        PROVE  Calling
    <3>1. 1 \in DOMAIN <<o>> /\ <<o>> # <<>>
      OBVIOUS
    <3> HIDE DEF Calling
    <3> QED
      BY <2>1, <2>3, <3>1
  <2> HIDE DEF Calling
  <2> QED
    BY <1>2, <2>2, <2>3 DEF Destroys
<1>3. ASSUME Uses(t)
      PROVE  Calling
  <2>1. ASSUME NEW o, look_up(t, o)
        PROVE  Calling
    <3>1. Begun([Idle EXCEPT !.op = "use", !.at = "use", !.on = o])
      BY DEF Begun, Idle, Over, Loaded, Resting
    <3> QED
      BY <2>1, <3>1 DEF look_up
  <2>2. ASSUME NEW c, NEW s, rk_BeginPicture(t, c, s)
        PROVE  Calling
    <3>1. Begun([Idle EXCEPT !.op = "begin", !.at = "acquire", !.on = c,
                                   !.surface = s])
      BY DEF Begun, Idle, Over, Loaded, Resting
    <3> QED
      BY <2>2, <3>1 DEF rk_BeginPicture
  <2>3. ASSUME NEW c, rk_EndPicture(t, c)
        PROVE  Calling
    <3>1. Begun([Idle EXCEPT !.op = "end", !.at = "acquire", !.on = c])
      BY DEF Begun, Idle, Over, Loaded, Resting
    <3> QED
      BY <2>3, <3>1 DEF rk_EndPicture
  <2>4. ASSUME NEW b, rk_buffer_acquire_handle(t, b)
        PROVE  Calling
    <3>1. Begun([Idle EXCEPT !.op = "handle", !.at = "acquire", !.on = b,
                             !.left = 1])
      BY DEF Begun, Idle, Over, Loaded, Resting
    <3> QED
      BY <2>4, <3>1 DEF rk_buffer_acquire_handle
  <2>5. ASSUME NEW b, rk_buffer_release_handle(t, b)
        PROVE  Calling
    <3>1. Begun([Idle EXCEPT !.op = "release", !.at = "acquire", !.on = b,
                             !.left = 0])
      BY DEF Begun, Idle, Over, Loaded, Resting
    <3> QED
      BY <2>5, <3>1 DEF rk_buffer_release_handle
  <2>6. ASSUME NEW b, rk_MapBuffer(t, b)
        PROVE  Calling
    <3>1. Begun([Idle EXCEPT !.op = "handle", !.at = "acquire", !.on = b,
                             !.left = 0])
      BY DEF Begun, Idle, Over, Loaded, Resting
    <3> QED
      BY <2>6, <3>1 DEF rk_MapBuffer
  <2> HIDE DEF Calling
  <2> QED
    BY <1>3, <2>1, <2>2, <2>3, <2>4, <2>5, <2>6 DEF Uses
<1> QED
  BY <1>1, <1>2, <1>3, BegunQuiet

(* The objects of before have what they had.                               *)
SameRaw(m1, m2) ==
  /\ m2.open = m1.open /\ DOMAIN m2.obj = DOMAIN m1.obj
  /\ \A p \in DOMAIN m1.obj : m2.obj[p].raw = m1.obj[p].raw

(* The links and the reference counts are no resources.                    *)
LEMMA LinksRaw ==
  ASSUME NEW obj, Objects(obj), obj = [p \in DOMAIN obj |-> obj[p]],
         NEW o \in DOMAIN obj, NEW slot, NEW list
  PROVE  LET obj2 == [obj EXCEPT ![o].links[slot] = list]
         IN /\ DOMAIN obj2 = DOMAIN obj
            /\ \A p \in DOMAIN obj : obj2[p].raw = obj[p].raw
<1> DEFINE x == [obj[o] EXCEPT !.links[slot] = list]
<1>1. obj[o] \in Object
  BY DEF Objects
<1>2. x.raw = obj[o].raw
  BY <1>1 DEF Object
<1> HIDE DEF x
<1>3. [obj EXCEPT ![o].links[slot] = list] = [obj EXCEPT ![o] = x]
  BY DEF x
<1> QED
  BY <1>2, <1>3

(* A list of links is replaced.                                            *)
LEMMA RelinkedRaw ==
  ASSUME RefInv, NEW o \in DOMAIN store.obj, NEW slot, NEW list
  PROVE  SameRaw(store, Relinked(o, slot, list))
<1> DEFINE obj2 == [store.obj EXCEPT ![o].links[slot] = list]
<1>1. /\ Objects(store.obj) /\ store = Memory(store.obj, store.open)
      /\ store.obj = [p \in DOMAIN store.obj |-> store.obj[p]]
  BY ObjectsStand, StoreIs DEF RefInv
<1>2. /\ DOMAIN obj2 = DOMAIN store.obj
      /\ \A p \in DOMAIN store.obj : obj2[p].raw = store.obj[p].raw
  BY <1>1, LinksRaw
<1>3. Relinked(o, slot, list) = Memory(obj2, store.open)
  BY <1>1, MemoryChanges DEF Relinked
<1> HIDE DEF obj2
<1> QED
  BY <1>2, <1>3 DEF SameRaw, Memory

(* A reference more.                                                       *)
LEMMA RefRaw ==
  ASSUME RefInv, NEW o \in DOMAIN store.obj
  PROVE  SameRaw(store, Ref(store, o))
<1> DEFINE obj2 == [store.obj EXCEPT ![o].refs = store.obj[o].refs + 1]
<1>1. /\ Ref(store, o) = Memory(obj2, store.open)
      /\ SameLinks(store.obj, obj2)
      /\ \A p \in DOMAIN store.obj : obj2[p].raw = store.obj[p].raw
  BY MemoryRefs
<1> HIDE DEF obj2
<1> QED
  BY <1>1 DEF SameRaw, Memory, SameLinks, SameTypes

(* The last step of a picture call or of a handle call is quiet when the   *)
(* resources stay.                                                         *)
LEMMA ReturnsQuiet ==
  ASSUME RefInv, NEW t \in Threads, NEW do \in LastSteps, At(t, do), NEW list,
         Returns(t, list), heap' = heap, made' = made, SameRaw(store, store')
  PROVE  \E e : Quiet(t, e)
<1> DEFINE c == call[t]
           e == Back(c, list)
<1>1. /\ c.at = do /\ c \in Call /\ c.self = NoObject
      /\ c.failed = FALSE /\ c.ids = <<>>
  BY LastFits
<1>2. Goes(t, e)
  BY DEF Returns, Back
<1>3. /\ e.at = "idle" /\ e.self = c.self /\ e.local = c.local
      /\ e.failed = c.failed /\ e.ids = c.ids
  BY <1>1 DEF Back, Call
<1>4. c.at \notin Loaded /\ e.at \notin Loaded /\ e.at \notin Resting
  BY <1>1, <1>3 DEF Loaded, LastSteps, Resting
<1> HIDE DEF e, c
<1>5. Quiet(t, e)
  BY <1>1, <1>2, <1>3, <1>4 DEF Quiet, SameRaw, c
<1> QED
  BY <1>5

(* The picture calls.                                                      *)
LEMMA PicturesQuiet ==
  ASSUME RefInv, NEW t \in Threads, Pictures(t)
  PROVE  \E e : Quiet(t, e)
<1>0. "begin" \in LastSteps /\ "end" \in LastSteps /\ "enqueue" \in LastSteps
  BY DEF LastSteps
<1>1. SameRaw(store, store)
  BY DEF SameRaw
<1>2. ASSUME begin_refused(t)
      PROVE  \E e : Quiet(t, e)
  <2>1. /\ At(t, "begin") /\ Returns(t, <<call[t].surface, call[t].on>>)
        /\ store' = store /\ heap' = heap /\ made' = made
    BY <1>2 DEF begin_refused
  <2> QED
    BY <1>0, <1>1, <2>1, ReturnsQuiet
<1>3. ASSUME reject(t)
      PROVE  \E e : Quiet(t, e)
  <2>1. /\ At(t, "enqueue") /\ Returns(t, <<call[t].held[2], call[t].on>>)
        /\ store' = store /\ heap' = heap /\ made' = made
    BY <1>3 DEF reject
  <2> QED
    BY <1>0, <1>1, <2>1, ReturnsQuiet
<1>4. ASSUME begin_accepted(t)
      PROVE  \E e : Quiet(t, e)
  <2> DEFINE c == call[t].on
  <2>1. /\ At(t, "begin") /\ Returns(t, Linked(c, "render") \o <<c>>)
        /\ store' = Relinked(c, "render", <<call[t].surface>>)
        /\ heap' = heap /\ made' = made
    BY <1>4 DEF begin_accepted
  <2>2. c \in DOMAIN store.obj
    BY <2>1, PictureOn
  <2>3. SameRaw(store, store')
    BY <2>1, <2>2, RelinkedRaw
  <2> QED
    BY <1>0, <2>1, <2>3, ReturnsQuiet
<1>5. ASSUME end_picture(t)
      PROVE  \E e : Quiet(t, e)
  <2> DEFINE c == call[t].on
  <2>1. /\ At(t, "end") /\ Returns(t, Linked(c, "render") \o <<c>>)
        /\ store' = Relinked(c, "render", <<>>)
        /\ heap' = heap /\ made' = made
    BY <1>5 DEF end_picture
  <2>2. c \in DOMAIN store.obj
    BY <2>1, PictureOn
  <2>3. SameRaw(store, store')
    BY <2>1, <2>2, RelinkedRaw
  <2> QED
    BY <1>0, <2>1, <2>3, ReturnsQuiet
<1>6. ASSUME enqueue(t)
      PROVE  \E e : Quiet(t, e)
  <2> DEFINE c    == call[t].on
             list == Append(Linked(c, "job"), call[t].held[2])
  <2>1. /\ At(t, "enqueue") /\ Returns(t, <<c>>)
        /\ store' = Relinked(c, "job", list)
        /\ heap' = heap /\ made' = made
    BY <1>6 DEF enqueue
  <2>2. c \in DOMAIN store.obj
    BY <2>1, PictureOn
  <2>3. SameRaw(store, store')
    <3> HIDE DEF list
    <3> QED
      BY <2>1, <2>2, RelinkedRaw
  <2> QED
    BY <1>0, <2>1, <2>3, ReturnsQuiet
<1>7. ASSUME end_picture_job(t)
      PROVE  \E e : Quiet(t, e)
  <2> DEFINE d    == call[t]
             c    == d.on
             q    == Linked(c, "render")
             s    == q[1]
             m    == Relinked(c, "render", <<>>)
             e    == Queued(d, s)
  <2>1. /\ At(t, "end") /\ q # <<>> /\ store' = Ref(m, s) /\ Goes(t, e)
        /\ heap' = heap /\ made' = made
    BY <1>7, Zenon DEF end_picture_job, Queued
  <2>2. c \in DOMAIN store.obj
    BY <2>1, PictureOn
  <2>3. /\ d.at = "end" /\ d \in Call /\ d.self = NoObject
        /\ d.failed = FALSE /\ d.ids = <<>>
    BY <1>0, <2>1, LastFits
  <2>4. /\ e.at = "enqueue" /\ e.self = d.self /\ e.local = d.local
        /\ e.failed = d.failed /\ e.ids = d.ids
    BY <2>3 DEF Queued, Call
  <2>5. d.at \notin Loaded /\ e.at \notin Loaded /\ e.at \notin Resting
    BY <2>3, <2>4 DEF Loaded, Resting
  <2>6. SameRaw(store, store')
    <3>1. "render" \in Slots /\ "render" # "buffer"
      BY DEF Slots
    <3>2. q \in Seq(Nat) /\ \A k \in DOMAIN q : q[k] \in DOMAIN store.obj
      BY <2>2, <3>1, LinkedIs
    <3>3. s \in DOMAIN store.obj
      <4> HIDE DEF q
      <4>1. Len(q) \in Nat \ {0}
        BY <2>1, <3>2, EmptySeq, Zenon
      <4>2. 1 \in DOMAIN q
        BY <3>2, <4>1
      <4> QED
        BY <3>2, <4>2
    <3>4. FitsSlot(store.obj, c, "render", <<>>)
      <4>1. <<>> \in Seq(Nat) /\ Len(<<>>) = 0 /\ DOMAIN <<>> = {}
        OBVIOUS
      <4> QED
        BY <4>1 DEF FitsSlot
    <3> DEFINE obj1 == Changed(c, "render", <<>>)
    <3>5. /\ m = Memory(obj1, store.open) /\ Well(obj1)
          /\ DOMAIN obj1 = DOMAIN store.obj
          /\ \A p \in DOMAIN store.obj : obj1[p].raw = store.obj[p].raw
      BY <2>2, <3>1, <3>4, RelinkedIs
    <3> HIDE DEF obj1, m, q, s, c
    <3>6. m.obj = obj1 /\ m.open = store.open /\ m = Memory(m.obj, m.open)
      BY <3>5 DEF Memory
    <3>7. LET obj3 == [m.obj EXCEPT ![s].refs = m.obj[s].refs + 1]
          IN /\ Ref(m, s) = Memory(obj3, m.open)
             /\ SameLinks(m.obj, obj3) /\ obj3[s].refs = m.obj[s].refs + 1
             /\ \A p \in DOMAIN m.obj : /\ p # s => obj3[p].refs = m.obj[p].refs
                                        /\ obj3[p].raw = m.obj[p].raw
      <4>1. Well(m.obj) /\ s \in DOMAIN m.obj
        BY <3>3, <3>5, <3>6
      <4> QED
        BY <3>6, <4>1, MemoryRefsOf
    <3> DEFINE obj2 == [m.obj EXCEPT ![s].refs = m.obj[s].refs + 1]
    <3>8. /\ store' = Memory(obj2, store.open) /\ SameLinks(obj1, obj2)
          /\ \A p \in DOMAIN obj1 : obj2[p].raw = obj1[p].raw
      BY <2>1, <3>6, <3>7
    <3> HIDE DEF obj2
    <3> QED
      BY <3>5, <3>8 DEF SameRaw, Memory, SameLinks, SameTypes
  <2> HIDE DEF e
  <2>7. Quiet(t, e)
    BY <2>1, <2>3, <2>4, <2>5, <2>6 DEF Quiet, SameRaw
  <2> QED
    BY <2>7
<1> QED
  BY <1>2, <1>3, <1>4, <1>5, <1>6, <1>7 DEF Pictures

(* A call that has not failed yet.                                         *)
LEMMA GoingIs ==
  ASSUME RefInv, NEW t \in Threads, NEW do, At(t, do), do # "idle"
  PROVE  /\ call[t].at = do /\ call[t].owed = <<>> /\ call[t] \in Call
         /\ CallFits(call[t]) /\ Known(call[t], made)
         /\ call[t].failed = FALSE
<1>1. call[t] \in Call /\ CallFits(call[t]) /\ Known(call[t], made)
  BY CallsAreFit DEF Fit
<1>2. call[t].at = do /\ call[t].owed = <<>>
  BY DEF At
<1>3. call[t].failed \in BOOLEAN /\ (call[t].failed => call[t].at = "idle")
  BY <1>1 DEF Call, CallFits
<1> QED
  BY <1>1, <1>2, <1>3

(* The surface is derivable.                                               *)
LEMMA DerivableQuiet ==
  ASSUME RefInv, NEW t \in Threads, derivable(t)
  PROVE  \E e : Quiet(t, e)
<1> DEFINE c == call[t]
           e == Onward(c)
<1>1. /\ At(t, "layout") /\ Goes(t, e) /\ store' = store /\ heap' = heap
      /\ made' = made
  BY DEF derivable
<1>2. c.at = "layout" /\ c \in Call /\ c.failed = FALSE /\ CallFits(c)
  BY <1>1, GoingIs
<1>3. c.self = NoObject
  <2>1. c.at \notin BuildSteps
    BY <1>2 DEF BuildSteps, SurfaceSteps, BufferSteps, ContextSteps
  <2> QED
    BY <1>2, <2>1 DEF CallFits
<1>4. After(c) = "calloc_buffer"
  BY <1>2 DEF After, Order
<1>5. /\ e.at = "calloc_buffer" /\ e.self = c.self /\ e.local = c.local
      /\ e.failed = c.failed /\ e.ids = c.ids
  BY <1>2, <1>4 DEF Onward, Call
<1> HIDE DEF e, c
<1>6. c.at \notin Loaded /\ e.at \notin Loaded /\ e.at \notin Resting
  BY <1>2, <1>5 DEF Loaded, Resting
<1>7. Quiet(t, e)
  BY <1>1, <1>2, <1>3, <1>5, <1>6 DEF Quiet, c
<1> QED
  BY <1>7

(* An object that is only looked at.                                       *)
LEMMA LookAtQuiet ==
  ASSUME RefInv, NEW t \in Threads, look_at_succeeds(t)
  PROVE  \E e : Quiet(t, e)
<1> DEFINE c == call[t]
           o == Wanted(c)
           e == [Onward(c) EXCEPT !.owed = Unrefs(<<o>>)]
<1>1. PICK do \in LookedAt : At(t, do)
  BY DEF look_at_succeeds
<1>2. /\ o \in heap /\ store' = Ref(store, o) /\ Goes(t, e)
      /\ heap' = heap /\ made' = made
  BY DEF look_at_succeeds
<1>3. c.at = do /\ c \in Call /\ c.failed = FALSE /\ CallFits(c)
  BY <1>1, GoingIs DEF LookedAt
<1>4. SameRaw(store, store')
  BY <1>2, HeapAlive, RefRaw
<1>5. c.at = "use" \/ c.at = "acquire_config"
  BY <1>1, <1>3 DEF LookedAt
<1>6. After(c) \in {"idle", "calloc_context"}
  BY <1>5 DEF After, Order
<1>7. /\ e.at = After(c) /\ e.self = c.self /\ e.local = c.local
      /\ e.failed = c.failed /\ e.ids = c.ids
  BY <1>3 DEF Onward, Call
<1>8. c.self = NoObject
  <2>1. c.at \notin BuildSteps
    BY <1>5 DEF BuildSteps, SurfaceSteps, BufferSteps, ContextSteps
  <2> QED
    BY <1>3, <2>1 DEF CallFits
<1> HIDE DEF e, c
<1>9. c.at \notin Loaded /\ e.at \notin Loaded /\ e.at \notin Resting
  BY <1>5, <1>6, <1>7 DEF Loaded, Resting
<1>10. Quiet(t, e)
  BY <1>2, <1>3, <1>4, <1>7, <1>8, <1>9 DEF Quiet, c, SameRaw
<1> QED
  BY <1>10

(* An object that is held.                                                 *)
LEMMA AcquireQuiet ==
  ASSUME RefInv, NEW t \in Threads, acquire_succeeds(t)
  PROVE  \E e : Quiet(t, e)
<1> DEFINE c == call[t]
           o == Wanted(c)
           e == [Onward(c) EXCEPT !.held = Append(@, o)]
<1>1. PICK do \in Kept : At(t, do)
  BY DEF acquire_succeeds
<1>2. /\ o \in heap /\ store' = Ref(store, o) /\ Goes(t, e)
      /\ heap' = heap /\ made' = made
  BY DEF acquire_succeeds
<1>3. c.at = do /\ c \in Call /\ c.failed = FALSE /\ CallFits(c)
  BY <1>1, GoingIs DEF Kept
<1>4. SameRaw(store, store')
  BY <1>2, HeapAlive, RefRaw
<1> HIDE DEF c
<1>5. /\ After(c) \in {"acquire_surface", "begin", "layout", "calloc_image",
                       "end", "handle", "release"}
      /\ e.at = After(c) /\ e.self = c.self /\ e.ids = c.ids
      /\ e.failed = c.failed /\ e.local = c.local
  BY <1>1, <1>3, AcquireHolds
<1>6. c.self = NoObject
  <2>1. c.at \notin BuildSteps
    BY <1>1, <1>3 DEF Kept, BuildSteps, SurfaceSteps, BufferSteps, ContextSteps
  <2> QED
    BY <1>3, <2>1 DEF CallFits
<1> HIDE DEF e
<1>7. c.at \notin Loaded /\ e.at \notin Loaded /\ e.at \notin Resting
  BY <1>1, <1>3, <1>5 DEF Loaded, Kept, Resting
<1>8. Quiet(t, e)
  BY <1>2, <1>3, <1>4, <1>5, <1>6, <1>7 DEF Quiet, c, SameRaw
<1> QED
  BY <1>8

(* A target of the context under construction.                             *)
LEMMA TargetQuiet ==
  ASSUME RefInv, NEW t \in Threads, acquire_target_succeeds(t)
  PROVE  \E e : Quiet(t, e)
<1> DEFINE c    == call[t]
           o    == Wanted(c)
           s    == c.self
           obj  == store.obj
           obj1 == [obj EXCEPT ![o].refs = obj[o].refs + 1]
           m    == Ref(store, o)
           list == Append(m.obj[s].links["target"], o)
           obj2 == [m.obj EXCEPT ![s].links["target"] = list]
           e    == Onward([c EXCEPT !.targets = Tail(@)])
<1>1. /\ At(t, "acquire_target") /\ o \in heap /\ Goes(t, e)
      /\ store' = [m EXCEPT !.obj[s].links["target"] = list]
      /\ heap' = heap /\ made' = made
  BY DEF acquire_target_succeeds
<1>2. c.at = "acquire_target" /\ c.failed = FALSE /\ Fit(c, made, obj)
  BY <1>1, GoingIs, CallsAreFit
<1>3. o \in DOMAIN obj
  BY <1>1, HeapAlive
<1>4. /\ e.self = s /\ e.at \in {"mpp_create", "acquire_target"}
      /\ e.local = c.local /\ e.ids = c.ids /\ e.failed = c.failed
  BY <1>2, TargetNext
<1>5. s \in DOMAIN obj
  <2>1. c.at \in BuildSteps
    BY <1>2 DEF BuildSteps, ContextSteps
  <2> QED
    BY <1>2, <2>1 DEF CallFits, SelfFits, Fit
<1>6. /\ m = Memory(obj1, store.open) /\ SameLinks(obj, obj1) /\ Well(obj)
      /\ \A p \in DOMAIN obj : obj1[p].raw = obj[p].raw
  BY <1>3, MemoryRefs, StoreWell
<1> HIDE DEF obj1, m, s, o, c
<1>7. /\ Well(obj1) /\ DOMAIN obj1 = DOMAIN obj
      /\ m.obj = obj1 /\ m.open = store.open /\ m = Memory(m.obj, m.open)
  BY <1>6, LinksKept DEF Memory, SameLinks, SameTypes
<1> HIDE DEF list
<1>8. store' = Memory(obj2, store.open)
  <2>1. [m EXCEPT !.obj[s].links["target"] = list] =
          Memory([m.obj EXCEPT ![s].links["target"] = list], m.open)
    BY <1>7, MemoryChanges
  <2> QED
    BY <1>1, <1>7, <2>1
<1>9. /\ DOMAIN obj2 = DOMAIN obj1
      /\ \A p \in DOMAIN obj1 : obj2[p].raw = obj1[p].raw
  <2>1. Objects(obj1) /\ obj1 = [p \in DOMAIN obj1 |-> obj1[p]]
    BY <1>7 DEF Well
  <2>2. LET obj3 == [obj1 EXCEPT ![s].links["target"] = list]
        IN /\ DOMAIN obj3 = DOMAIN obj1
           /\ \A p \in DOMAIN obj1 : obj3[p].raw = obj1[p].raw
    BY <1>5, <1>7, <2>1, LinksRaw
  <2> QED
    BY <1>7, <2>2
<1> HIDE DEF obj2
<1>10. SameRaw(store, store')
  BY <1>6, <1>7, <1>8, <1>9 DEF SameRaw, Memory
<1>11. RawAt(c.at) \subseteq RawAt(e.at)
  BY <1>2, <1>4 DEF RawAt
<1> HIDE DEF e
<1>12. c.at \notin Loaded /\ e.at \notin Loaded /\ e.at \notin Resting
  BY <1>2, <1>4 DEF Loaded, Resting
<1>13. Quiet(t, e)
  BY <1>1, <1>2, <1>4, <1>10, <1>11, <1>12 DEF Quiet, c, s, SameRaw
<1> QED
  BY <1>13

(* An object is allocated: it has nothing yet.                             *)
LEMMA CallocQuiet ==
  ASSUME RefInv, NEW t \in Threads, calloc_succeeds(t)
  PROVE  \E e : Quiet(t, e)
<1> DEFINE c   == call[t]
           do  == c.at
           x   == New(do, NoLinks)
           e   == Allocated(c, made')
           obj == store.obj
           y   == With(obj, made', x)
<1>1. do \in Callocs /\ do \in DOMAIN TypeMade /\ At(t, do) /\ do # "idle"
  <2>1. PICK d \in DOMAIN TypeMade \ {"calloc_image"} : At(t, d)
    BY DEF calloc_succeeds
  <2>2. DOMAIN TypeMade \ {"calloc_image"} = Callocs /\ "idle" \notin Callocs
    BY DEF TypeMade, Callocs
  <2>3. d = do
    BY <2>1 DEF At
  <2> QED
    BY <2>1, <2>2, <2>3
<1>2. /\ made' = made + 1 /\ heap' = heap /\ Goes(t, e)
      /\ store' = [store EXCEPT !.obj = y]
  BY DEF calloc_succeeds, Allocated
<1>3. /\ c \in Call /\ CallFits(c) /\ Known(c, made) /\ made \in Nat
      /\ store = Memory(obj, store.open) /\ made + 1 \notin DOMAIN obj
      /\ c.failed = FALSE
  BY <1>1, GoingIs, StoreIs, ObjectsStand DEF RefInv
<1>4. store' = Memory(y, store.open)
  <2> HIDE DEF y
  <2> QED
    BY <1>2, <1>3, MemoryChanges
<1>5. x.raw = {}
  BY <1>1, NewIs
<1>6. /\ SameNames(c, e) /\ e.self = made' /\ e.local = c.local
      /\ e.failed = c.failed
      /\ e.at \in {"group", "dup", "data", "sync_objects", "insert_config"}
  BY <1>1, <1>2, <1>3, AllocatedFits
<1> HIDE DEF x, e
<1>7. /\ DOMAIN store'.obj = DOMAIN obj \cup {made + 1}
      /\ store'.open = store.open
      /\ \A p \in DOMAIN store'.obj :
           store'.obj[p].raw = IF p \in DOMAIN obj THEN obj[p].raw ELSE {}
  <2>1. y = [p \in DOMAIN obj \cup {made + 1} |->
               IF p = made + 1 THEN x ELSE obj[p]]
    BY <1>2 DEF With
  <2> HIDE DEF y
  <2>2. store'.obj = y /\ store'.open = store.open
    BY <1>4 DEF Memory
  <2> QED
    BY <1>3, <1>5, <2>1, <2>2
<1>8. c.at \notin Loaded /\ e.at \notin Loaded /\ e.at \notin Resting
  BY <1>1, <1>6 DEF Loaded, Callocs, Resting
<1>9. Quiet(t, e)
  BY <1>2, <1>3, <1>6, <1>7, <1>8 DEF Quiet, SameNames
<1> QED
  BY <1>9

(* So is an image.                                                         *)
LEMMA CallocImageQuiet ==
  ASSUME RefInv, NEW t \in Threads, calloc_image_succeeds(t)
  PROVE  \E e : Quiet(t, e)
<1> DEFINE c    == call[t]
           b    == Buffer(c)
           x    == NewImage(b)
           e    == ImageAllocated(c, made')
           obj  == store.obj
           obj1 == Deriving(c)
           y    == With(obj1, made', x)
<1>1. At(t, "calloc_image") /\ c.at = "calloc_image"
  BY DEF calloc_image_succeeds, At
<1>2. /\ made' = made + 1 /\ heap' = heap /\ Goes(t, e)
      /\ store' = [store EXCEPT !.obj = y]
  BY DEF calloc_image_succeeds, ImageAllocated, NewImage, Deriving
<1>3. /\ c \in Call /\ CallFits(c) /\ Known(c, made) /\ made \in Nat
      /\ store = Memory(obj, store.open) /\ made + 1 \notin DOMAIN obj
      /\ c.failed = FALSE
  BY <1>1, GoingIs, StoreIs, ObjectsStand DEF RefInv
<1>4. store' = Memory(y, store.open)
  <2> HIDE DEF y
  <2> QED
    BY <1>2, <1>3, MemoryChanges
<1>5. x.raw = {}
  <2>1. b \in Nat
    BY <1>1, ImageHolds
  <2> QED
    BY <2>1, ImageIs
<1>6. /\ DOMAIN obj1 = DOMAIN obj
      /\ \A p \in DOMAIN obj : obj1[p].raw = obj[p].raw
  BY <1>1, DerivingIs DEF SameTypes
<1>7. /\ SameNames(c, e) /\ e.self = made' /\ e.local = c.local
      /\ e.failed = c.failed /\ e.at = "insert_image"
  BY <1>1, <1>2, <1>3, ImageAllocatedFits
<1> HIDE DEF x, e, obj1
<1>8. /\ DOMAIN store'.obj = DOMAIN obj \cup {made + 1}
      /\ store'.open = store.open
      /\ \A p \in DOMAIN store'.obj :
           store'.obj[p].raw = IF p \in DOMAIN obj THEN obj[p].raw ELSE {}
  <2>1. y = [p \in DOMAIN obj \cup {made + 1} |->
               IF p = made + 1 THEN x ELSE obj1[p]]
    BY <1>2, <1>6 DEF With
  <2> HIDE DEF y
  <2>2. store'.obj = y /\ store'.open = store.open
    BY <1>4 DEF Memory
  <2> QED
    BY <1>3, <1>5, <1>6, <2>1, <2>2
<1>9. c.at \notin Loaded /\ e.at \notin Loaded /\ e.at \notin Resting
  BY <1>1, <1>7 DEF Loaded, Resting
<1>10. Quiet(t, e)
  BY <1>2, <1>3, <1>7, <1>8, <1>9 DEF Quiet, SameNames
<1> QED
  BY <1>10

(* The descriptors of a buffer are those of their makers.                  *)
LEMMA FdsAre ==
  ASSUME SafeInv, NEW b \in DOMAIN store.obj
  PROVE  LET seen == {u \in Threads :
                        <<"acquired_fd", b, u>> \in AcquiredFds(b)}
         IN AcquiredFds(b) = MadeBy(seen, b)
<1> DEFINE seen == {u \in Threads : <<"acquired_fd", b, u>> \in AcquiredFds(b)}
<1>1. store.obj[b].raw \subseteq Resources
  BY StoreWell DEF SafeInv, Well, Objects, Object
<1>2. \A x \in store.obj[b].raw : x[2] = b
  BY DEF SafeInv, RawFits
<1>3. ASSUME NEW x \in AcquiredFds(b)
      PROVE  x \in MadeBy(seen, b)
  <2>1. x \in Resources /\ x[1] = "acquired_fd" /\ x[2] = b
    BY <1>1, <1>2 DEF AcquiredFds
  <2>2. x \notin Names \X Nat
    BY <2>1 DEF Names
  <2>3. x \in {"acquired_fd"} \X Nat \X Threads
    BY <2>1, <2>2 DEF Resources
  <2>4. PICK n \in Nat, u \in Threads : x = <<"acquired_fd", n, u>>
    BY <2>3
  <2>5. x = <<"acquired_fd", b, u>>
    BY <2>1, <2>4
  <2> QED
    BY <2>5 DEF MadeBy
<1>4. ASSUME NEW x \in MadeBy(seen, b)
      PROVE  x \in AcquiredFds(b)
  BY DEF MadeBy
<1> QED
  BY <1>3, <1>4

(* The descriptor of a derived buffer is there or not, and is looked at.   *)
LEMMA HandleQuiet ==
  ASSUME SafeInv, NEW t \in Threads,
         has_handle(t) \/ needs_handle(t) \/ sees_handle(t)
  PROVE  \E e : Quiet(t, e)
<1> DEFINE c == call[t]
<1>0. RefInv /\ SameRaw(store, store)
  BY DEF SafeInv, SameRaw
<1>1. PICK do \in {"handle", "release"} :
        At(t, do) /\ (needs_handle(t) => do = "handle")
  BY DEF has_handle, needs_handle, sees_handle
<1>2. do \in LastSteps /\ do \in HandleSteps /\ do \notin Loaded
  BY DEF LastSteps, HandleSteps, Loaded
<1>3. /\ c.at = do /\ c \in Call /\ c.self = NoObject
      /\ c.failed = FALSE /\ c.ids = <<>> /\ c.owed = <<>>
  BY <1>0, <1>1, <1>2, LastFits
<1>4. c.op \in {"handle", "release"} /\ (do = "handle" => c.op = "handle")
      /\ c.on \in DOMAIN store.obj
  BY <1>0, <1>1, <1>2, HandleCall
<1>5. ASSUME NEW e, Moved(c, e), e.local = c.local, e.at \in Resting, Goes(t, e),
             Alone(t, c.on), AcquiredFds(c.on) = Expected(e),
             store' = store, heap' = heap, made' = made
      PROVE  Quiet(t, e)
  <2>1. /\ e.self = c.self /\ e.failed = c.failed /\ e.ids = c.ids
        /\ e.on = c.on /\ e.owed = c.owed
    BY <1>5 DEF Moved
  <2>2. e.at \notin Loaded
    BY <1>5 DEF Loaded, Resting
  <2> HIDE DEF c
  <2> QED
    BY <1>2, <1>3, <1>4, <1>5, <2>1, <2>2 DEF Quiet, c
<1>6. CASE has_handle(t)
  <2>1. /\ Returns(t, <<c.on>>) /\ store' = store /\ heap' = heap
        /\ made' = made
    BY <1>6 DEF has_handle
  <2> QED
    BY <1>0, <1>1, <1>2, <2>1, ReturnsQuiet
<1>7. CASE needs_handle(t)
  <2> DEFINE e == Needing(c)
  <2>1. /\ Goes(t, e) /\ Alone(t, c.on) /\ AcquiredFds(c.on) = {}
        /\ store' = store /\ heap' = heap /\ made' = made
    BY <1>7 DEF needs_handle, Needing
  <2>2. Moved(c, e) /\ e.at = "dup_handle" /\ e.local = c.local
    BY <1>1, <1>3, <1>4, <1>7, HandleGoes
  <2> HIDE DEF e, c
  <2>3. e.at \in Resting /\ Expected(e) = {}
    BY <2>2 DEF Resting, Expected
  <2>4. Quiet(t, e)
    BY <1>5, <2>1, <2>2, <2>3
  <2> QED
    BY <2>4
<1>8. CASE sees_handle(t)
  <2> DEFINE seen == {u \in Threads :
                        <<"acquired_fd", c.on, u>> \in AcquiredFds(c.on)}
             e    == Seeing(c, seen)
  <2>1. /\ Goes(t, e) /\ Alone(t, c.on)
        /\ store' = store /\ heap' = heap /\ made' = made
    BY <1>8 DEF sees_handle, Seeing
  <2>2. AcquiredFds(c.on) = MadeBy(seen, c.on)
    BY <1>4, FdsAre
  <2> HIDE DEF seen
  <2>3. seen \in SUBSET Threads
    BY DEF seen
  <2>4. /\ Moved(c, e) /\ e.at = "drop_handle" /\ e.local = c.local
        /\ e.seen = seen
    BY <1>3, <1>4, <2>3, HandleGoes
  <2> HIDE DEF e, c
  <2>5. e.at \in Resting /\ Expected(e) = MadeBy(seen, c.on)
    BY <2>4 DEF Resting, Expected, Moved
  <2>6. Quiet(t, e)
    BY <1>5, <2>1, <2>2, <2>4, <2>5
  <2> QED
    BY <2>6
<1> QED
  BY <1>6, <1>7, <1>8

(* A step that changes nothing in memory.                                  *)
LEMMA StillRaw ==
  ASSUME SafeInv, NEW t \in Threads, NEW e, Goes(t, e), store' = store,
         LocalFits(e), SelfRaw(e, store.obj), e.local \subseteq call[t].local
  PROVE  RawFits'
<1>1. RawFits
  BY DEF SafeInv
<1>2. e.local \subseteq store.open
  BY <1>1 DEF RawFits
<1>3. RawStep(t, e)
  BY <1>1, <1>2 DEF RawStep, RawFits
<1> QED
  BY <1>3, RawTaken

(* rk_object_heap_insert.                                                  *)
LEMMA InsertIs ==
  ASSUME RefInv, NEW t \in Threads, insert_succeeds(t)
  PROVE  LET c == call[t]
             e == Inserted(c)
         IN /\ Goes(t, e) /\ store' = store /\ heap' = heap \cup {c.self}
            /\ made' = made /\ c.at \notin Loaded /\ e.at \notin Loaded
            /\ e.at \notin Resting /\ e.local = c.local
            /\ e.self = NoObject /\ e.ids = Append(c.ids, c.self)
            /\ e.failed = FALSE /\ c.ids \in Seq(Nat) /\ c.self \in Nat
            /\ c.self # NoObject
<1> DEFINE c == call[t]
           e == Inserted(c)
<1>1. PICK do \in Inserts : At(t, do)
  BY DEF insert_succeeds
<1>2. /\ Goes(t, e) /\ store' = store /\ heap' = heap \cup {c.self}
      /\ made' = made
  BY DEF insert_succeeds, Inserted
<1>3. /\ c.at = do /\ c.failed = FALSE /\ c.self # NoObject
  BY <1>1, Inserting
<1>4. c \in Call
  BY CallsAreFit DEF Fit
<1>5. /\ e.self = NoObject /\ e.ids = Append(c.ids, c.self)
      /\ e.failed = c.failed /\ e.local = c.local
      /\ e.at \in {"idle", "calloc_surface", "acquire_buffer"}
  BY <1>1, <1>3, <1>4, InsertedIs
<1>6. c.at \notin Loaded
  BY <1>1, <1>3 DEF Inserts, Loaded
<1> HIDE DEF e
<1>7. e.at \notin Loaded /\ e.at \notin Resting
  BY <1>5 DEF Loaded, Resting
<1> QED
  BY <1>2, <1>3, <1>4, <1>5, <1>6, <1>7 DEF Call, e

(* The object that is inserted keeps what it has.                          *)
LEMMA InsertRaw ==
  ASSUME SafeInv, NEW t \in Threads, insert_succeeds(t)
  PROVE  RawFits'
<1> DEFINE c == call[t]
           e == Inserted(c)
<1>1. /\ Goes(t, e) /\ store' = store /\ c.at \notin Loaded
      /\ e.at \notin Loaded /\ e.local = c.local /\ e.self = NoObject
  BY InsertIs DEF SafeInv
<1>2. LocalFits(c)
  BY DEF SafeInv, RawFits
<1> HIDE DEF e
<1>3. LocalFits(e)
  BY <1>1, <1>2, NotLoaded
<1>4. SelfRaw(e, store.obj)
  BY <1>1 DEF SelfRaw
<1> QED
  BY <1>1, <1>3, <1>4, StillRaw

(* Only what the call owes changes.                                        *)
LEMMA OwedRaw ==
  ASSUME NEW c \in Call, NEW w, NEW obj
  PROVE  LET e == [c EXCEPT !.owed = w]
         IN /\ LocalFits(c) => LocalFits(e)
            /\ SelfRaw(c, obj) => SelfRaw(e, obj)
            /\ e.local = c.local /\ e.self = c.self /\ e.at = c.at
            /\ e.ids = c.ids /\ e.failed = c.failed /\ e.on = c.on
<1> DEFINE e == [c EXCEPT !.owed = w]
<1>1. /\ e.local = c.local /\ e.self = c.self /\ e.at = c.at
      /\ e.ids = c.ids /\ e.failed = c.failed /\ e.on = c.on
  BY DEF Call
<1> HIDE DEF e
<1>2. LocalFits(c) => LocalFits(e)
  BY <1>1 DEF LocalFits
<1>3. SelfRaw(c, obj) => SelfRaw(e, obj)
  BY <1>1 DEF SelfRaw
<1> QED
  BY <1>1, <1>2, <1>3 DEF e

(* rk_object_heap_remove.                                                  *)
LEMMA RemoveIs ==
  ASSUME RefInv, NEW t \in Threads, remove(t)
  PROVE  LET c == call[t]
             o == Head(c.owed).on
         IN /\ Goes(t, [c EXCEPT !.owed = Unrefs(Gone(o)) \o Tail(c.owed)])
            /\ store' = store /\ made' = made /\ up' = up
            /\ heap' = heap \ ToSet(Gone(o))
            /\ Owes(t, "remove")
BY DEF remove, Gone

(* A handle has no resources.                                              *)
LEMMA RemoveRaw ==
  ASSUME SafeInv, NEW t \in Threads, remove(t)
  PROVE  RawFits'
<1> DEFINE c == call[t]
           w == Unrefs(Gone(Head(c.owed).on)) \o Tail(c.owed)
           e == [c EXCEPT !.owed = w]
<1>1. Goes(t, e) /\ store' = store
  BY RemoveIs DEF SafeInv
<1>2. c \in Call
  BY CallsAreFit DEF Fit, SafeInv
<1>3. LocalFits(c) /\ SelfRaw(c, store.obj)
  BY DEF SafeInv, RawFits
<1> HIDE DEF w
<1>4. LocalFits(e) /\ SelfRaw(e, store.obj) /\ e.local = c.local
  BY <1>2, <1>3, OwedRaw
<1> HIDE DEF e
<1> QED
  BY <1>1, <1>4, StillRaw

(* vaTerminate.                                                            *)
LEMMA TerminateRaw ==
  ASSUME SafeInv, NEW t \in Threads, rk_Terminate(t)
  PROVE  RawFits'
<1> DEFINE e == Terminating(Everything)
<1>1. Goes(t, e) /\ store' = store
  BY DEF rk_Terminate, Terminating, Everything
<1>2. e.at = "idle" /\ e.local = {} /\ e.self = NoObject
  BY DEF Terminating, Idle
<1> HIDE DEF e
<1>3. LocalFits(e)
  BY <1>2, NotLoaded DEF Loaded
<1>4. SelfRaw(e, store.obj)
  BY <1>2 DEF SelfRaw
<1> QED
  BY <1>1, <1>2, <1>3, <1>4, StillRaw

(* A local resource is named after the object under construction.          *)
LEMMA LocalOwn ==
  ASSUME SafeInv, NEW t \in Threads, NEW x \in call[t].local
  PROVE  x[2] = call[t].self
<1>1. LocalFits(call[t])
  BY DEF SafeInv, RawFits
<1> QED
  BY <1>1 DEF LocalFits, OwnedBy

(* The resources of o are nobody else's.                                   *)
LEMMA ApartFrom ==
  ASSUME SafeInv, NEW o, NEW rs, \A x \in rs : x[2] = o
  PROVE  /\ \A p \in DOMAIN store.obj : p # o => store.obj[p].raw \cap rs = {}
         /\ \A u \in Threads : call[u].self # o => call[u].local \cap rs = {}
<1>1. \A p \in DOMAIN store.obj : \A x \in store.obj[p].raw : x[2] = p
  BY DEF SafeInv, RawFits
<1>2. \A u \in Threads : \A x \in call[u].local : x[2] = call[u].self
  BY LocalOwn
<1> QED
  BY <1>1, <1>2

(* A call reaches the object it constructs.                                *)
LEMMA SelfReached ==
  ASSUME RefInv, NEW t \in Threads, call[t].self # NoObject
  PROVE  Reachable(t, call[t].self)
<1> DEFINE s == call[t].self
<1>1. call[t] \in Call
  BY CallsAreFit DEF Fit
<1>2. /\ RefsOf(call[t], s) = Count(call[t].held, s) +
                              Count(Due(call[t].owed), s) + OnSelf(call[t], s)
      /\ Count(call[t].held, s) \in Nat /\ Count(Due(call[t].owed), s) \in Nat
  BY <1>1, OwedDue
<1>3. OnSelf(call[t], s) = 1
  BY DEF OnSelf
<1> QED
  BY <1>2, <1>3 DEF Reachable

(* What another call constructs is not what this one reaches.              *)
LEMMA OtherSelf ==
  ASSUME RefInv, NEW t \in Threads, NEW o, o # NoObject, Reachable(t, o),
         NEW u \in Threads \ {t}
  PROVE  call[u].self # o
<1> SUFFICES ASSUME call[u].self = o
             PROVE  FALSE
  OBVIOUS
<1>1. /\ o \notin heap /\ LinkRefs(store.obj, o) = 0 /\ RefsOf(call[t], o) = 0
  BY SelfAlone
<1> QED
  BY <1>1 DEF Reachable

(* What a step takes is what the next one finds.                           *)
Carried(a, b) ==
  /\ IF b = "keep_import"
     THEN ClosedOnFailure(a) \cup (Takes[a] \cap Local) \subseteq Imported
     ELSE ClosedOnFailure(b) = ClosedOnFailure(a) \cup (Takes[a] \cap Local)
  /\ RawAt(a) \cup (Takes[a] \ Local) \subseteq RawAt(b)

(* At every step of a construction that takes something.                   *)
LEMMA TakesCarried ==
  ASSUME NEW a \in DOMAIN Takes, NEW b, <<a, b>> \in Pairs
  PROVE  Carried(a, b) /\ a # "keep_import"
<1> USE DEF Carried, ClosedOnFailure, RawAt, Takes, Local, Imported, Pairs
<1>1. CASE a = "dup"
  BY <1>1
<1>2. CASE a = "sync"
  BY <1>2
<1>3. CASE a = "import"
  BY <1>3
<1>4. CASE a = "dup_chroma"
  BY <1>4
<1>5. CASE a = "sync_chroma"
  BY <1>5
<1>6. CASE a = "import_chroma"
  BY <1>6
<1>7. CASE a = "group"
  BY <1>7
<1>8. CASE a = "placeholder"
  BY <1>8
<1>9. CASE a = "data"
  BY <1>9
<1>10. CASE a = "sync_objects"
  BY <1>10
<1>11. CASE a = "mpp_create"
  BY <1>11
<1>12. CASE a = "mpp_init"
  BY <1>12
<1>13. CASE a = "enc_cfg"
  BY <1>13
<1>14. CASE a = "enc_control"
  BY <1>14
<1>15. CASE a = "dec_cfg"
  BY <1>15
<1>16. CASE a = "dec_timeouts"
  BY <1>16
<1>17. CASE a = "worker"
  BY <1>17
<1> QED
  BY <1>1, <1>2, <1>3, <1>4, <1>5, <1>6, <1>7, <1>8, <1>9, <1>10, <1>11, <1>12,
     <1>13, <1>14, <1>15, <1>16, <1>17

(* A step of a construction, after which open2 is open and the object has  *)
(* rs.                                                                     *)
Building(t, e, open2, rs) ==
  LET c == call[t]
  IN /\ Goes(t, e) /\ heap' = heap /\ made' = made
     /\ <<c.at, e.at>> \in Pairs /\ c \in Call
     /\ c.self # NoObject /\ c.self \in DOMAIN store.obj
     /\ e.self = c.self /\ e.ids = c.ids /\ e.failed = FALSE
     /\ store'.open = open2 /\ DOMAIN store'.obj = DOMAIN store.obj
     /\ \A p \in DOMAIN store.obj :
          store'.obj[p].raw = IF p = c.self THEN rs ELSE store.obj[p].raw

(* The construction goes on.                                               *)
LEMMA BuildGoes ==
  ASSUME RefInv, NEW t \in Threads, NEW do \in Starting, At(t, do),
         NEW local \in SUBSET Resources
  PROVE  LET c == call[t]
             e == [Onward(c) EXCEPT !.local = local]
         IN /\ <<c.at, e.at>> \in Pairs /\ c \in Call /\ c.at = do
            /\ c.self # NoObject /\ c.self \in DOMAIN store.obj
            /\ e.self = c.self /\ e.ids = c.ids /\ e.failed = FALSE
            /\ e.local = local
<1> DEFINE c == call[t]
           e == [Onward(c) EXCEPT !.local = local]
<1>1. /\ c \in Call /\ c.at = do /\ Moved(c, e) /\ e.at = After(c)
      /\ <<c.at, After(c)>> \in Pairs /\ c.self \in DOMAIN store.obj
  BY BuildMoves
<1>2. c.failed = FALSE
  BY GoingIs DEF Starting
<1>3. NoObject \notin DOMAIN store.obj
  BY ObjectsStand DEF RefInv
<1>4. e.local = local
  BY <1>1 DEF Onward, Call
<1> HIDE DEF e
<1> QED
  BY <1>1, <1>2, <1>3, <1>4 DEF Moved, e

(* A resource is taken.                                                    *)
LEMMA TakeIs ==
  ASSUME RefInv, NEW t \in Threads, take_succeeds(t)
  PROVE  LET c == call[t]
         IN \E e :
              /\ Building(t, e, store.open \cup Taken(c),
                          store.obj[c.self].raw \cup Owned(c))
              /\ e.local = c.local \cup (Taken(c) \ Owned(c))
              /\ c.at \in DOMAIN Takes
<1> DEFINE c   == call[t]
           new == Taken(c)
           own == Owned(c)
           loc == c.local \cup (new \ own)
           e   == [Onward(c) EXCEPT !.local = loc]
<1>1. PICK do \in DOMAIN Takes : At(t, do)
  BY DEF take_succeeds
<1>2. /\ do \in Starting /\ c.at = do /\ Takes[c.at] \subseteq Names
  BY <1>1, TakesIs DEF At
<1>3. c \in Call /\ c.self \in Nat
  BY CallsAreFit DEF Fit, Call
<1>4. new \subseteq Resources /\ own \subseteq new
  <2>1. \A r \in Names : <<r, c.self>> \in Resources
    BY <1>3 DEF Resources
  <2> QED
    BY <1>2, <2>1 DEF Taken, Owned
<1>5. loc \in SUBSET Resources
  BY <1>3, <1>4 DEF Call
<1>6. [Onward(c) EXCEPT !.local = @ \cup (new \ own)] = e
  BY <1>3 DEF Onward, Call
<1>7. Goes(t, e) /\ heap' = heap /\ made' = made
  BY <1>6 DEF take_succeeds, Taken, Owned
<1> DEFINE rs   == store.obj[c.self].raw \cup own
           obj2 == [store.obj EXCEPT ![c.self].raw = rs]
           op2  == store.open \cup new
<1>8. store' = Took(store, op2, c.self, rs)
  BY DEF take_succeeds, Taken, Owned, Took
<1>9. /\ store = Memory(store.obj, store.open) /\ Well(store.obj)
  BY StoreIs, StoreWell
<1> HIDE DEF loc, op2
<1>10. /\ <<c.at, e.at>> \in Pairs
       /\ c.self # NoObject /\ c.self \in DOMAIN store.obj
       /\ e.self = c.self /\ e.ids = c.ids /\ e.failed = FALSE
       /\ e.local = loc
  BY <1>1, <1>2, <1>5, BuildGoes
<1>11. rs \in SUBSET Resources
  <2>1. store.obj[c.self] \in Object
    BY <1>9, <1>10 DEF Well, Objects
  <2> QED
    BY <1>4, <2>1 DEF Object
<1> HIDE DEF rs, e
<1>12. store' = Memory(obj2, op2)
  BY <1>8, <1>9, MemoryTakes
<1>13. /\ SameLinks(store.obj, obj2) /\ obj2[c.self].raw = rs
       /\ \A p \in DOMAIN store.obj :
            p # c.self => obj2[p].raw = store.obj[p].raw
  <2> DEFINE y == c.self
  <2>1. y \in DOMAIN store.obj /\ rs \in SUBSET Resources /\ Well(store.obj)
    BY <1>9, <1>10, <1>11
  <2> HIDE DEF y
  <2>2. LET obj3 == [store.obj EXCEPT ![y].raw = rs]
        IN /\ SameLinks(store.obj, obj3) /\ obj3[y].raw = rs
           /\ \A p \in DOMAIN store.obj :
                /\ p # y => obj3[p].raw = store.obj[p].raw
                /\ obj3[p].refs = store.obj[p].refs
    BY <2>1, RawSet
  <2> QED
    BY <2>2 DEF y
<1> HIDE DEF obj2
<1>14. Building(t, e, op2, rs)
  BY <1>3, <1>7, <1>10, <1>12, <1>13 DEF Building, Memory, SameLinks, SameTypes
<1> QED
  BY <1>1, <1>2, <1>10, <1>14 DEF rs, op2, loc

(* The object gets what the call had.                                      *)
LEMMA HandOverIs ==
  ASSUME RefInv, NEW t \in Threads, hand_over(t)
  PROVE  LET c == call[t]
         IN \E e : /\ Building(t, e, store.open,
                               store.obj[c.self].raw \cup c.local)
                   /\ e.local = {} /\ c.at \in HandOvers
<1> DEFINE c    == call[t]
           e    == [Onward(c) EXCEPT !.local = {}]
           rs   == store.obj[c.self].raw \cup c.local
           obj2 == [store.obj EXCEPT ![c.self].raw = rs]
<1>1. PICK do \in HandOvers : At(t, do)
  BY DEF hand_over
<1>2. do \in Starting /\ c.at = do
  BY <1>1 DEF HandOvers, Starting, At
<1>3. Goes(t, e) /\ heap' = heap /\ made' = made
      /\ store' = [store EXCEPT !.obj[c.self].raw = rs]
  BY DEF hand_over
<1>4. /\ store = Memory(store.obj, store.open) /\ Well(store.obj)
  BY StoreIs, StoreWell
<1>5. /\ <<c.at, e.at>> \in Pairs /\ c \in Call
      /\ c.self # NoObject /\ c.self \in DOMAIN store.obj
      /\ e.self = c.self /\ e.ids = c.ids /\ e.failed = FALSE
      /\ e.local = {}
  <2>1. {} \in SUBSET Resources
    OBVIOUS
  <2> QED
    BY <1>1, <1>2, <2>1, BuildGoes
<1>6. rs \in SUBSET Resources
  <2>1. store.obj[c.self] \in Object /\ c.local \subseteq Resources
    BY <1>4, <1>5 DEF Well, Objects, Call
  <2> QED
    BY <2>1 DEF Object
<1> HIDE DEF rs, e
<1>7. store' = Memory(obj2, store.open)
  BY <1>3, <1>4, MemoryChanges
<1>8. /\ SameLinks(store.obj, obj2) /\ obj2[c.self].raw = rs
      /\ \A p \in DOMAIN store.obj :
           p # c.self => obj2[p].raw = store.obj[p].raw
  <2> DEFINE y == c.self
  <2>1. y \in DOMAIN store.obj /\ rs \in SUBSET Resources /\ Well(store.obj)
    BY <1>4, <1>5, <1>6
  <2> HIDE DEF y
  <2>2. LET obj3 == [store.obj EXCEPT ![y].raw = rs]
        IN /\ SameLinks(store.obj, obj3) /\ obj3[y].raw = rs
           /\ \A p \in DOMAIN store.obj :
                /\ p # y => obj3[p].raw = store.obj[p].raw
                /\ obj3[p].refs = store.obj[p].refs
    BY <2>1, RawSet
  <2> QED
    BY <2>2 DEF y
<1> HIDE DEF obj2
<1>9. Building(t, e, store.open, rs)
  BY <1>3, <1>5, <1>7, <1>8 DEF Building, Memory, SameLinks, SameTypes
<1> QED
  BY <1>1, <1>2, <1>5, <1>9 DEF rs

(* The configuration is closed.                                            *)
LEMMA DecControlIs ==
  ASSUME SafeInv, NEW t \in Threads, dec_control(t)
  PROVE  LET c == call[t]
         IN \E e : /\ Building(t, e, store.open \ c.local,
                               store.obj[c.self].raw)
                   /\ e.local = {} /\ c.at = "dec_control"
<1> DEFINE c == call[t]
           e == [Onward(c) EXCEPT !.local = {}]
<1>1. RefInv /\ c.local \subseteq store.open
  BY DEF SafeInv, RawFits
<1>2. /\ At(t, "dec_control") /\ Goes(t, e) /\ heap' = heap /\ made' = made
      /\ store' = Close(store, c.local)
  BY DEF dec_control
<1>3. store = Memory(store.obj, store.open)
  BY <1>1, StoreIs
<1>4. /\ <<c.at, e.at>> \in Pairs /\ c \in Call /\ c.at = "dec_control"
      /\ c.self # NoObject /\ c.self \in DOMAIN store.obj
      /\ e.self = c.self /\ e.ids = c.ids /\ e.failed = FALSE
      /\ e.local = {}
  <2>1. {} \in SUBSET Resources /\ "dec_control" \in Starting
    BY DEF Starting
  <2> QED
    BY <1>1, <1>2, <2>1, BuildGoes
<1>5. store' = Memory(store.obj, store.open \ c.local)
  BY <1>1, <1>2, <1>3, MemoryClosed
<1> HIDE DEF e
<1>6. Building(t, e, store.open \ c.local, store.obj[c.self].raw)
  BY <1>2, <1>4, <1>5 DEF Building, Memory
<1> QED
  BY <1>4, <1>6

(* A step of a construction that closes nothing of anyone else.            *)
LEMMA BuildRaw ==
  ASSUME SafeInv, NEW t \in Threads, NEW e, NEW open2, NEW rs,
         Building(t, e, open2, rs), LocalFits(e), e.local \subseteq open2,
         rs \subseteq open2, rs \subseteq OwnedBy(RawAt(e.at), call[t].self),
         \A p \in DOMAIN store.obj :
           p # call[t].self => store.obj[p].raw \subseteq open2,
         \A u \in Threads \ {t} : call[u].local \subseteq open2
  PROVE  RawFits'
<1> DEFINE c == call[t]
<1>1. RefInv /\ RawFits
  BY DEF SafeInv
<1>2. /\ c.self # NoObject /\ c.self \in DOMAIN store.obj
      /\ e.self = c.self /\ store'.open = open2
      /\ DOMAIN store'.obj = DOMAIN store.obj
      /\ store'.obj[c.self].raw = rs
      /\ \A p \in DOMAIN store.obj :
           p # c.self => store'.obj[p].raw = store.obj[p].raw
  BY DEF Building
<1>3. \A x \in rs : x[2] = c.self
  BY DEF OwnedBy
<1>4. SelfRaw(e, store'.obj)
  BY <1>2 DEF SelfRaw
<1>5. \A u \in Threads \ {t} : SelfRaw(call[u], store'.obj)
  BY <1>1, <1>2, SelfReached, OthersRaw
<1>6. \A p \in DOMAIN store'.obj :
        /\ store'.obj[p].raw \subseteq store'.open
        /\ \A x \in store'.obj[p].raw : x[2] = p
  BY <1>1, <1>2, <1>3 DEF RawFits
<1>7. RawStep(t, e)
  BY <1>2, <1>4, <1>5, <1>6 DEF RawStep, Building
<1> QED
  BY <1>7, RawTaken

(* A resource is taken.                                                    *)
LEMMA TakeRaw ==
  ASSUME SafeInv, NEW t \in Threads, take_succeeds(t)
  PROVE  RawFits'
<1> DEFINE c    == call[t]
           new  == Taken(c)
           own  == Owned(c)
           raw  == store.obj[c.self].raw
<1>1. RefInv /\ RawFits
  BY DEF SafeInv
<1>2. PICK e : /\ Building(t, e, store.open \cup new, raw \cup own)
               /\ e.local = c.local \cup (new \ own)
               /\ c.at \in DOMAIN Takes
  BY <1>1, TakeIs
<1>3. /\ <<c.at, e.at>> \in Pairs /\ c.self \in DOMAIN store.obj
      /\ e.self = c.self
      /\ c.self # NoObject
  BY <1>2 DEF Building
<1>4. Carried(c.at, e.at) /\ c.at # "keep_import"
  BY <1>2, <1>3, TakesCarried
<1>5. /\ new \ own = OwnedBy(Takes[c.at] \cap Local, c.self)
      /\ own = OwnedBy(Takes[c.at] \ Local, c.self)
  BY DEF Taken, Owned, OwnedBy
<1>6. c.local = OwnedBy(ClosedOnFailure(c.at), c.self)
  BY <1>1, <1>4 DEF RawFits, LocalFits
<1>7. raw \subseteq OwnedBy(RawAt(c.at), c.self) /\ raw \subseteq store.open
      /\ c.local \subseteq store.open
  BY <1>1, <1>3 DEF RawFits, SelfRaw
<1>8. LocalFits(e)
  <2>1. e.local = OwnedBy(ClosedOnFailure(c.at) \cup (Takes[c.at] \cap Local),
                          c.self)
    BY <1>2, <1>5, <1>6 DEF OwnedBy
  <2>2. CASE e.at = "keep_import"
    BY <1>3, <1>4, <2>1, <2>2 DEF LocalFits, Carried, OwnedBy
  <2>3. CASE e.at # "keep_import"
    BY <1>3, <1>4, <2>1, <2>3 DEF LocalFits, Carried
  <2> QED
    BY <2>2, <2>3
<1>9. raw \cup own \subseteq OwnedBy(RawAt(e.at), c.self)
  BY <1>4, <1>5, <1>7 DEF Carried, OwnedBy
<1>10. own \subseteq new
  BY DEF Taken, Owned
<1>11. /\ \A p \in DOMAIN store.obj : store.obj[p].raw \subseteq store.open
       /\ \A u \in Threads : call[u].local \subseteq store.open
  BY <1>1 DEF RawFits
<1> DEFINE open2 == store.open \cup new
           rs    == raw \cup own
<1>12. /\ e.local \subseteq open2 /\ rs \subseteq open2
       /\ rs \subseteq OwnedBy(RawAt(e.at), call[t].self)
       /\ Building(t, e, open2, rs)
       /\ \A p \in DOMAIN store.obj :
            p # call[t].self => store.obj[p].raw \subseteq open2
       /\ \A u \in Threads \ {t} : call[u].local \subseteq open2
  BY <1>2, <1>7, <1>9, <1>10, <1>11
<1> HIDE DEF open2, rs
<1> QED
  BY <1>8, <1>12, BuildRaw

(* The object gets what the call had.                                      *)
LEMMA HandOverRaw ==
  ASSUME SafeInv, NEW t \in Threads, hand_over(t)
  PROVE  RawFits'
<1> DEFINE c   == call[t]
           raw == store.obj[c.self].raw
           rs  == raw \cup c.local
<1>1. RefInv /\ RawFits
  BY DEF SafeInv
<1>2. PICK e : /\ Building(t, e, store.open, rs)
               /\ e.local = {} /\ c.at \in HandOvers
  BY <1>1, HandOverIs
<1>3. /\ <<c.at, e.at>> \in Pairs /\ c.self \in DOMAIN store.obj
      /\ e.self = c.self
      /\ c.self # NoObject
  BY <1>2 DEF Building
<1>4. \/ c.at = "keep_import" /\ e.at = "group"
      \/ c.at = "placeholder_fd" /\ e.at = "insert_surface"
  BY <1>2, <1>3 DEF HandOvers, Pairs
<1>5. /\ raw \subseteq OwnedBy(RawAt(c.at), c.self) /\ raw \subseteq store.open
      /\ c.local \subseteq store.open /\ LocalFits(c)
  BY <1>1, <1>3 DEF RawFits, SelfRaw
<1>6. rs \subseteq OwnedBy(RawAt(e.at), c.self)
  <2>1. CASE c.at = "keep_import"
    <3>1. RawAt(c.at) = {} /\ RawAt(e.at) = Imported
      BY <1>4, <2>1 DEF RawAt
    <3> QED
      BY <1>5, <2>1, <3>1 DEF LocalFits, OwnedBy
  <2>2. CASE c.at = "placeholder_fd"
    <3>1. /\ RawAt(c.at) = Imported
          /\ RawAt(e.at) = Imported \cup {"group", "priv"}
          /\ ClosedOnFailure(c.at) = {"group", "priv"}
      BY <1>4, <2>2 DEF RawAt, ClosedOnFailure
    <3> QED
      BY <1>5, <2>2, <3>1 DEF LocalFits, OwnedBy
  <2> QED
    BY <1>4, <2>1, <2>2
<1>7. LocalFits(e)
  BY <1>2, <1>4, NotLoaded DEF Loaded
<1>8. /\ \A p \in DOMAIN store.obj : store.obj[p].raw \subseteq store.open
      /\ \A u \in Threads : call[u].local \subseteq store.open
      /\ e.local \subseteq store.open /\ rs \subseteq store.open
  BY <1>1, <1>2, <1>5 DEF RawFits
<1> HIDE DEF rs
<1> QED
  BY <1>2, <1>6, <1>7, <1>8, BuildRaw

(* What a failing step closes, the object does not have.                   *)
LEMMA ClosedApart ==
  ASSUME NEW a
  PROVE  /\ ClosedOnFailure(a) \cap RawAt(a) = {}
         /\ a \notin Loaded => ClosedOnFailure(a) = {}
         /\ Loaded \subseteq BuildSteps
<1>1. ClosedOnFailure(a) \cap RawAt(a) = {}
  BY DEF ClosedOnFailure, RawAt, Imported
<1>2. a \notin Loaded => ClosedOnFailure(a) = {}
  BY DEF ClosedOnFailure, Loaded
<1>3. Loaded \subseteq BuildSteps
  BY DEF Loaded, BuildSteps, SurfaceSteps, ContextSteps
<1> QED
  BY <1>1, <1>2, <1>3

(* It is only the call's own.                                              *)
LEMMA ClosesApart ==
  ASSUME SafeInv, NEW t \in Threads
  PROVE  LET c  == call[t]
             rs == OwnedBy(ClosedOnFailure(c.at), c.self)
         IN /\ \A p \in DOMAIN store.obj : store.obj[p].raw \cap rs = {}
            /\ \A u \in Threads \ {t} : call[u].local \cap rs = {}
            /\ rs \subseteq store.open
            /\ c.at # "keep_import" => rs = c.local
<1> DEFINE c  == call[t]
           rs == OwnedBy(ClosedOnFailure(c.at), c.self)
<1>1. RefInv /\ RawFits /\ CallFits(c)
  BY CallsAreFit DEF SafeInv, Fit
<1>2. c.at # "keep_import" => rs = c.local
  BY <1>1 DEF RawFits, LocalFits
<1>3. c.at = "keep_import" => rs = {}
  BY DEF OwnedBy, ClosedOnFailure
<1>4. rs \subseteq store.open
  BY <1>1, <1>2, <1>3 DEF RawFits
<1>5. CASE c.self = NoObject
  <2>1. c.at \notin BuildSteps
    BY <1>1, <1>5 DEF CallFits
  <2>2. rs = {}
    BY <2>1, ClosedApart DEF OwnedBy
  <2> QED
    BY <1>2, <1>4, <2>2
<1>6. CASE c.self # NoObject
  <2>1. \A x \in rs : x[2] = c.self
    BY DEF OwnedBy
  <2>2. store.obj[c.self].raw \subseteq OwnedBy(RawAt(c.at), c.self)
    BY <1>1, <1>6 DEF RawFits, SelfRaw
  <2>3. store.obj[c.self].raw \cap rs = {}
    BY <2>2, ClosedApart DEF OwnedBy
  <2>4. \A u \in Threads \ {t} : call[u].self # c.self
    BY <1>1, <1>6, SelfAlone
  <2>5. /\ \A p \in DOMAIN store.obj :
             p # c.self => store.obj[p].raw \cap rs = {}
        /\ \A u \in Threads : call[u].self # c.self => call[u].local \cap rs = {}
    <3> HIDE DEF rs
    <3> QED
      BY <2>1, ApartFrom
  <2> QED
    BY <1>2, <1>4, <2>3, <2>4, <2>5
<1> QED
  BY <1>5, <1>6

(* The configuration is closed.                                            *)
LEMMA DecControlRaw ==
  ASSUME SafeInv, NEW t \in Threads, dec_control(t)
  PROVE  RawFits'
<1> DEFINE c     == call[t]
           raw   == store.obj[c.self].raw
           open2 == store.open \ c.local
<1>1. RefInv /\ RawFits
  BY DEF SafeInv
<1>2. PICK e : /\ Building(t, e, open2, raw)
               /\ e.local = {} /\ c.at = "dec_control"
  BY DecControlIs
<1>3. /\ <<c.at, e.at>> \in Pairs /\ c.self \in DOMAIN store.obj
      /\ e.self = c.self
      /\ c.self # NoObject
  BY <1>2 DEF Building
<1>4. e.at = "dec_timeouts"
  BY <1>2, <1>3 DEF Pairs
<1>5. raw \subseteq OwnedBy(RawAt(c.at), c.self)
  BY <1>1, <1>3 DEF RawFits, SelfRaw
<1>6. RawAt(c.at) = RawAt(e.at)
  BY <1>2, <1>4 DEF RawAt
<1>7. LocalFits(e)
  BY <1>2, <1>4, NotLoaded DEF Loaded
<1>8. /\ \A p \in DOMAIN store.obj : store.obj[p].raw \cap c.local = {}
      /\ \A u \in Threads \ {t} : call[u].local \cap c.local = {}
  BY <1>2, ClosesApart
<1>9. /\ \A p \in DOMAIN store.obj : store.obj[p].raw \subseteq open2
      /\ \A u \in Threads \ {t} : call[u].local \subseteq open2
      /\ e.local \subseteq open2
  BY <1>1, <1>2, <1>8 DEF RawFits
<1> HIDE DEF open2
<1> QED
  BY <1>2, <1>3, <1>5, <1>6, <1>7, <1>9, BuildRaw

(* A step fails.                                                           *)
LEMMA FailsRaw ==
  ASSUME SafeInv, NEW t \in Threads, NEW do \in Failing, At(t, do), Fails(t)
  PROVE  RawFits'
<1> DEFINE c  == call[t]
           rs == OwnedBy(ClosedOnFailure(c.at), c.self)
           e  == [c EXCEPT !.at = "idle", !.owed = Cleanup(c), !.local = {},
                           !.self = NoObject, !.held = <<>>, !.failed = TRUE]
<1>1. RefInv /\ RawFits
  BY DEF SafeInv
<1>2. c \in Call
  BY <1>1, CallsAreFit DEF Fit
<1>3. store' = Close(store, rs) /\ Goes(t, e)
  BY DEF Fails, OwnedBy
<1>4. e.at = "idle" /\ e.local = {} /\ e.self = NoObject
  BY <1>2 DEF Call
<1>5. /\ \A p \in DOMAIN store.obj : store.obj[p].raw \cap rs = {}
      /\ \A u \in Threads \ {t} : call[u].local \cap rs = {}
      /\ rs \subseteq store.open
  BY ClosesApart
<1> HIDE DEF rs, e
<1>6. store' = Memory(store.obj, store.open \ rs)
  BY <1>1, <1>3, <1>5, StoreIs, MemoryClosed
<1>7. store'.obj = store.obj /\ store'.open = store.open \ rs
  BY <1>6 DEF Memory
<1>8. LocalFits(e) /\ SelfRaw(e, store'.obj)
  BY <1>4, NotLoaded DEF Loaded, SelfRaw
<1>9. RawStep(t, e)
  BY <1>1, <1>3, <1>4, <1>5, <1>7, <1>8 DEF RawStep, RawFits
<1> QED
  BY <1>9, RawTaken

(* What is left in memory when o has gone, if it has.                      *)
GoneRaw(o) ==
  LET obj == store.obj
  IN \/ SameRaw(store, store')
     \/ /\ DOMAIN store'.obj = DOMAIN obj \ {o}
        /\ store'.open = store.open \ obj[o].raw
        /\ \A p \in DOMAIN obj \ {o} : store'.obj[p].raw = obj[p].raw

(* rk_object_unref.                                                        *)
LEMMA UnrefIs ==
  ASSUME SafeInv, NEW t \in Threads, unref(t)
  PROVE  LET c == call[t]
             o == Head(c.owed).on
         IN /\ Goes(t, [c EXCEPT !.owed = Unrefs(Inherited(store, o)) \o
                                          Tail(c.owed)])
            /\ heap' = heap /\ made' = made /\ up' = up /\ Owes(t, "unref")
            /\ c \in Call /\ o # NoObject /\ o \in DOMAIN store.obj
            /\ Reachable(t, o) /\ c.self # o
            /\ GoneRaw(o)
<1> DEFINE c   == call[t]
           o   == Head(c.owed).on
           obj == store.obj
           w   == Unrefs(Inherited(store, o)) \o Tail(c.owed)
<1>0. RefInv
  BY DEF SafeInv
<1>1. /\ Owes(t, "unref") /\ store' = Unref(store, o)
      /\ Goes(t, [c EXCEPT !.owed = w])
      /\ heap' = heap /\ made' = made /\ up' = up
  BY DEF unref
<1>2. /\ o \in Nat /\ o # NoObject /\ o \in DOMAIN obj /\ Reachable(t, o)
      /\ c.self # o
  BY <1>0, <1>1, OwedAlive
<1>3. /\ store = Memory(obj, store.open) /\ Well(obj) /\ c \in Call
  BY <1>0, StoreIs, StoreWell, CallsAreFit DEF Fit
<1>4. obj[o] \in Object /\ obj[o].refs \in Nat
  BY <1>2, <1>3 DEF Well, Objects, Object
<1> HIDE DEF w, o, c
<1>5. CASE obj[o].refs > 1
  <2> DEFINE r    == obj[o].refs - 1
             obj2 == [obj EXCEPT ![o].refs = r]
  <2>1. r \in Nat
    BY <1>4, <1>5
  <2>2. store' = [store EXCEPT !.obj[o].refs = r]
    BY <1>1, <1>2, <1>5 DEF Unref, Alive
  <2> HIDE DEF r
  <2>3. store' = Memory(obj2, store.open)
    BY <1>3, <2>2, MemoryChanges
  <2>4. LET obj3 == [obj EXCEPT ![o].refs = r]
        IN /\ SameLinks(obj, obj3) /\ obj3[o].refs = r
           /\ \A p \in DOMAIN obj : /\ p # o => obj3[p].refs = obj[p].refs
                                    /\ obj3[p].raw = obj[p].raw
    BY <1>2, <1>3, <2>1, RefsSet
  <2>5. SameLinks(obj, obj2) /\ \A p \in DOMAIN obj : obj2[p].raw = obj[p].raw
    BY <2>4
  <2> HIDE DEF obj2
  <2>6. SameRaw(store, store')
    BY <2>3, <2>5 DEF SameRaw, Memory, SameLinks, SameTypes
  <2> QED
    BY <1>1, <1>2, <1>3, <2>6 DEF w, o, c, GoneRaw
<1>6. CASE ~(obj[o].refs > 1)
  <2> DEFINE obj2 == [p \in DOMAIN obj \ {o} |-> obj[p]]
             op2  == store.open \ obj[o].raw
  <2>1. obj[o].raw \subseteq store.open
    BY <1>2 DEF SafeInv, RawFits
  <2>2. store' = Destroy(store, o)
    BY <1>1, <1>2, <1>6 DEF Unref, Alive
  <2>3. store' = Memory(obj2, op2)
    BY <1>3, <2>1, <2>2, MemoryLoses
  <2>4. store'.obj = obj2 /\ store'.open = op2
    <3> HIDE DEF obj2, op2
    <3> QED
      BY <2>3 DEF Memory
  <2>5. GoneRaw(o)
    BY <2>4 DEF GoneRaw
  <2> QED
    BY <1>1, <1>2, <1>3, <2>5 DEF w, o, c
<1> QED
  BY <1>5, <1>6

(* An object takes its own resources with it.                              *)
LEMMA UnrefRaw ==
  ASSUME SafeInv, NEW t \in Threads, unref(t)
  PROVE  RawFits'
<1> DEFINE c == call[t]
           o == Head(c.owed).on
           w == Unrefs(Inherited(store, o)) \o Tail(c.owed)
           e == [c EXCEPT !.owed = w]
<1>0. RefInv /\ RawFits
  BY DEF SafeInv
<1>1. /\ Goes(t, e) /\ c \in Call /\ o # NoObject /\ o \in DOMAIN store.obj
      /\ Reachable(t, o) /\ c.self # o /\ GoneRaw(o)
  BY UnrefIs
<1> HIDE DEF w
<1>2. \A obj : /\ LocalFits(c) => LocalFits(e)
               /\ SelfRaw(c, obj) => SelfRaw(e, obj)
               /\ e.local = c.local /\ e.self = c.self
  BY <1>1, OwedRaw
<1>3. LocalFits(c) /\ SelfRaw(c, store.obj) /\ c.local \subseteq store.open
  BY <1>0 DEF RawFits
<1> HIDE DEF e, o
<1>4. \A u \in Threads : call[u].self # o
  BY <1>0, <1>1, OtherSelf
<1>5. \A u \in Threads : call[u].self # NoObject =>
        call[u].self \in DOMAIN store.obj
  BY <1>0, SelfAlone
<1>6. CASE SameRaw(store, store')
  <2>1. \A u \in Threads : SelfRaw(call[u], store'.obj)
    BY <1>0, <1>5, <1>6 DEF SameRaw, RawFits, SelfRaw
  <2>2. RawStep(t, e)
    BY <1>0, <1>1, <1>2, <1>3, <1>6, <2>1 DEF RawStep, SameRaw, RawFits
  <2> QED
    BY <2>2, RawTaken
<1>7. CASE ~SameRaw(store, store')
  <2>1. /\ DOMAIN store'.obj = DOMAIN store.obj \ {o}
        /\ store'.open = store.open \ store.obj[o].raw
        /\ \A p \in DOMAIN store.obj \ {o} :
             store'.obj[p].raw = store.obj[p].raw
    BY <1>1, <1>7 DEF GoneRaw
  <2>2. \A x \in store.obj[o].raw : x[2] = o
    BY <1>0, <1>1 DEF RawFits
  <2> DEFINE rs == store.obj[o].raw
  <2>3. /\ \A p \in DOMAIN store.obj : p # o => store.obj[p].raw \cap rs = {}
        /\ \A u \in Threads : call[u].self # o => call[u].local \cap rs = {}
    <3> HIDE DEF rs
    <3> QED
      BY <2>2, ApartFrom DEF rs
  <2>4. \A u \in Threads : SelfRaw(call[u], store'.obj)
    BY <1>0, <1>4, <1>5, <2>1 DEF RawFits, SelfRaw
  <2>5. \A u \in Threads : call[u].local \subseteq store'.open
    BY <1>0, <1>4, <2>1, <2>3 DEF RawFits
  <2>6. \A p \in DOMAIN store'.obj :
          /\ store'.obj[p].raw \subseteq store'.open
          /\ \A x \in store'.obj[p].raw : x[2] = p
    BY <1>0, <2>1, <2>3 DEF RawFits
  <2>7. RawStep(t, e)
    BY <1>1, <1>2, <1>3, <2>4, <2>5, <2>6 DEF RawStep
  <2> QED
    BY <2>7, RawTaken
<1> QED
  BY <1>6, <1>7

(* The descriptor of a derived buffer is made or closed: afterwards open2  *)
(* is open and the buffer has rs.                                          *)
Handled(t, e, open2, rs) ==
  LET c == call[t]
  IN /\ Goes(t, e) /\ heap' = heap /\ made' = made
     /\ c \in Call /\ c.self = NoObject /\ c.ids = <<>> /\ c.failed = FALSE
     /\ c.at \in Resting
     /\ e.self = c.self /\ e.ids = c.ids /\ e.failed = c.failed
     /\ e.local = c.local
     /\ \/ e.at \in {"idle", "handle"}
        \/ e.at = "dup_handle" /\ e.owed = <<>> /\ e.on = c.on
     /\ c.on \in DOMAIN store.obj /\ c.on # NoObject /\ Reachable(t, c.on)
     /\ store'.open = open2 /\ DOMAIN store'.obj = DOMAIN store.obj
     /\ \A p \in DOMAIN store.obj :
          store'.obj[p].raw = IF p = c.on THEN rs ELSE store.obj[p].raw

(* The step to make one, and the step to close one.                        *)
IsDup(t, open2, rs) ==
  LET b == call[t].on
  IN \E new \in {{<<"acquired_fd", b, t>>}, {}} :
       /\ open2 = store.open \cup new
       /\ rs = (store.obj[b].raw \ AcquiredFds(b)) \cup new

IsDrop(t, open2, rs) ==
  LET b   == call[t].on
      fds == MadeBy(call[t].seen, b)
  IN /\ store.open \ fds \subseteq open2
     /\ fds \subseteq store.open => open2 = store.open \ fds
     /\ rs = store.obj[b].raw \ AcquiredFds(b)

(* The two steps that do.                                                  *)
LEMMA HandledIs ==
  ASSUME RefInv, NEW t \in Threads, dup_handle(t) \/ drop_handle(t)
  PROVE  \E e, open2, rs :
           /\ Handled(t, e, open2, rs)
           /\ \/ /\ At(t, "dup_handle") /\ e.at # "dup_handle"
                 /\ IsDup(t, open2, rs)
              \/ At(t, "drop_handle") /\ IsDrop(t, open2, rs)
<1> DEFINE c  == call[t]
           b  == c.on
<1>1. PICK do \in {"dup_handle", "drop_handle"} :
        /\ At(t, do)
        /\ (do = "dup_handle" /\ dup_handle(t))
           \/ (do = "drop_handle" /\ drop_handle(t))
  BY DEF dup_handle, drop_handle
<1>2. do \in LastSteps /\ do \in HandleSteps /\ do \in Resting
  BY DEF LastSteps, HandleSteps, Resting
<1>3. /\ b \in DOMAIN store.obj /\ b \in Nat /\ b # NoObject
      /\ Reachable(t, b) /\ c \in Call /\ c.self = NoObject
      /\ c.ids = <<>> /\ c.failed = FALSE /\ c.at = do /\ c.owed = <<>>
  BY <1>1, <1>2, LastHolds, LastFits
<1>4. c.op \in {"handle", "release"} /\ (do = "dup_handle" => c.op = "handle")
  BY <1>1, <1>2, HandleCall
<1>5. heap' = heap /\ made' = made
  BY <1>1 DEF dup_handle, drop_handle
<1>6. Well(store.obj)
  BY StoreWell
<1>7. ASSUME NEW e, Goes(t, e), e.self = c.self, e.ids = c.ids,
             e.failed = c.failed, e.local = c.local,
             \/ e.at \in {"idle", "handle"}
             \/ e.at = "dup_handle" /\ e.owed = <<>> /\ e.on = c.on,
             NEW op2, NEW rs \in SUBSET Resources,
             store' = Memory([store.obj EXCEPT ![b].raw = rs], op2)
      PROVE  Handled(t, e, op2, rs)
  <2> DEFINE obj2 == [store.obj EXCEPT ![b].raw = rs]
  <2> HIDE DEF b
  <2>0. rs \in SUBSET Resources /\ Well(store.obj) /\ b \in DOMAIN store.obj
    BY <1>3, <1>6, <1>7
  <2>1. LET obj3 == [store.obj EXCEPT ![b].raw = rs]
        IN /\ SameLinks(store.obj, obj3) /\ obj3[b].raw = rs
           /\ \A p \in DOMAIN store.obj :
                /\ p # b => obj3[p].raw = store.obj[p].raw
                /\ obj3[p].refs = store.obj[p].refs
    BY <2>0, RawSet
  <2>2. /\ SameLinks(store.obj, obj2) /\ obj2[b].raw = rs
        /\ \A p \in DOMAIN store.obj : p # b => obj2[p].raw = store.obj[p].raw
        /\ store' = Memory(obj2, op2)
    BY <1>7, <2>1
  <2> HIDE DEF obj2
  <2>3. /\ store'.open = op2 /\ DOMAIN store'.obj = DOMAIN store.obj
        /\ \A p \in DOMAIN store.obj :
             store'.obj[p].raw = IF p = b THEN rs ELSE store.obj[p].raw
    BY <2>2 DEF Memory, SameLinks, SameTypes
  <2> QED
    BY <1>2, <1>3, <1>5, <1>7, <2>3 DEF Handled, b
<1>8. CASE do = "dup_handle" /\ dup_handle(t)
  <2> DEFINE e == Duped(c)
  <2>1. Goes(t, e)
    BY <1>8 DEF dup_handle, Duped
  <2>2. Moved(c, e) /\ e.at = "handle" /\ e.local = c.local
    BY <1>3, <1>4, <1>8, HandleGoes
  <2>3. PICK new \in {{<<"acquired_fd", b, t>>}, {}} :
          LET rs == (store.obj[b].raw \ AcquiredFds(b)) \cup new
          IN /\ rs \in SUBSET Resources
             /\ store' = Memory([store.obj EXCEPT ![b].raw = rs],
                                store.open \cup new)
    BY <1>8, DupStore
  <2> DEFINE rs    == (store.obj[b].raw \ AcquiredFds(b)) \cup new
             open2 == store.open \cup new
  <2>4. /\ IsDup(t, open2, rs) /\ rs \in SUBSET Resources
        /\ store' = Memory([store.obj EXCEPT ![b].raw = rs], open2)
    BY <2>3 DEF IsDup
  <2> HIDE DEF e, rs, open2
  <2>5. e.self = c.self /\ e.ids = c.ids /\ e.failed = c.failed
    BY <2>2 DEF Moved
  <2>6. Handled(t, e, open2, rs)
    BY <1>7, <2>1, <2>2, <2>4, <2>5
  <2> QED
    BY <1>1, <1>8, <2>2, <2>4, <2>6
<1>9. CASE do = "drop_handle" /\ drop_handle(t)
  <2> DEFINE rs  == store.obj[b].raw \ AcquiredFds(b)
             fds == MadeBy(c.seen, b)
  <2>1. /\ rs \in SUBSET Resources
        /\ \E open2 \in SUBSET Resources :
             /\ store' = Memory([store.obj EXCEPT ![b].raw = rs], open2)
             /\ store.open \ fds \subseteq open2
             /\ fds \subseteq store.open => open2 = store.open \ fds
    BY <1>9, DropStore
  <2>2. PICK open2 \in SUBSET Resources :
          /\ store' = Memory([store.obj EXCEPT ![b].raw = rs], open2)
          /\ IsDrop(t, open2, rs)
    BY <2>1 DEF IsDrop
  <2> HIDE DEF rs, fds
  <2>3. CASE c.op = "handle" /\ c.left = 1
    <3> DEFINE e == Dropped(c)
    <3>1. Goes(t, e)
      BY <1>9, <2>3 DEF drop_handle, Dropped
    <3>2. Moved(c, e) /\ e.at = "dup_handle" /\ e.local = c.local
      BY <1>3, <1>4, <2>3, HandleGoes
    <3> HIDE DEF e
    <3>3. e.self = c.self /\ e.ids = c.ids /\ e.failed = c.failed
          /\ e.on = c.on /\ e.owed = <<>>
      BY <1>3, <3>2 DEF Moved
    <3>4. Handled(t, e, open2, rs)
      BY <1>7, <2>1, <2>2, <3>1, <3>2, <3>3
    <3> QED
      BY <1>1, <1>9, <2>2, <3>4
  <2>4. CASE ~(c.op = "handle" /\ c.left = 1)
    <3> DEFINE e == Back(c, <<b>>)
    <3>1. Goes(t, e)
      BY <1>9, <2>4 DEF drop_handle, Returns, Back
    <3>2. /\ e.at = "idle" /\ e.local = c.local
          /\ e.self = c.self /\ e.ids = c.ids /\ e.failed = c.failed
      BY <1>3 DEF Back, Call
    <3> HIDE DEF e
    <3>3. Handled(t, e, open2, rs)
      BY <1>7, <2>1, <2>2, <3>1, <3>2
    <3> QED
      BY <1>1, <1>9, <2>2, <3>3
  <2> QED
    BY <2>3, <2>4
<1> QED
  BY <1>1, <1>8, <1>9

(* They leave what everyone else has.                                      *)
LEMMA HandledRaw ==
  ASSUME SafeInv, NEW t \in Threads, dup_handle(t) \/ drop_handle(t)
  PROVE  RawFits'
<1> DEFINE c  == call[t]
           b  == c.on
           A  == AcquiredFds(b)
<1>0. RefInv /\ RawFits
  BY DEF SafeInv
<1>1. ASSUME NEW e, NEW open2, NEW rs, Handled(t, e, open2, rs),
             rs \subseteq open2, \A x \in rs : x[2] = b,
             \A x \in store.open \ open2 : x[2] = b
      PROVE  RawFits'
  <2>1. /\ Goes(t, e) /\ c \in Call /\ c.self = NoObject
        /\ b \in DOMAIN store.obj /\ b # NoObject /\ Reachable(t, b)
        /\ store'.open = open2 /\ DOMAIN store'.obj = DOMAIN store.obj
        /\ \A p \in DOMAIN store.obj :
             store'.obj[p].raw = IF p = b THEN rs ELSE store.obj[p].raw
    BY <1>1 DEF Handled
  <2>2. /\ e.at \in {"idle", "handle", "dup_handle"}
        /\ e.self = c.self /\ e.local = c.local
    BY <1>1 DEF Handled
  <2> HIDE DEF b
  <2>3. c.local = {} /\ c.at # "keep_import"
    <3>1. c.at \notin BuildSteps
      BY <1>0, <2>1, CallsAreFit DEF Fit, CallFits
    <3> QED
      BY <1>0, <3>1, NotLoaded, ClosedApart DEF RawFits, Loaded
  <2>4. LocalFits(e) /\ SelfRaw(e, store'.obj)
    BY <2>1, <2>2, <2>3, NotLoaded DEF Loaded, SelfRaw
  <2>5. \A u \in Threads \ {t} : SelfRaw(call[u], store'.obj)
    BY <2>1, OthersRaw
  <2> DEFINE gone == store.open \ open2
  <2>6. /\ \A p \in DOMAIN store.obj : p # b => store.obj[p].raw \cap gone = {}
        /\ \A u \in Threads : call[u].self # b => call[u].local \cap gone = {}
    <3>1. \A x \in gone : x[2] = b
      BY <1>1 DEF b
    <3> HIDE DEF gone
    <3> QED
      BY <3>1, ApartFrom
  <2>7. \A u \in Threads \ {t} : call[u].self # b
    BY <1>0, <2>1, OtherSelf
  <2>8. \A u \in Threads \ {t} : call[u].local \subseteq store'.open
    BY <1>0, <2>1, <2>6, <2>7 DEF RawFits
  <2>9. \A p \in DOMAIN store'.obj :
          /\ store'.obj[p].raw \subseteq store'.open
          /\ \A x \in store'.obj[p].raw : x[2] = p
    BY <1>0, <1>1, <2>1, <2>6 DEF RawFits, b
  <2>10. RawStep(t, e)
    BY <2>1, <2>2, <2>3, <2>4, <2>5, <2>8, <2>9 DEF RawStep
  <2> QED
    BY <2>10, RawTaken
<1>2. PICK e, open2, rs : /\ Handled(t, e, open2, rs)
                          /\ IsDup(t, open2, rs) \/ IsDrop(t, open2, rs)
  BY <1>0, HandledIs
<1>3. b \in DOMAIN store.obj
  BY <1>2 DEF Handled
<1>4. /\ store.obj[b].raw \subseteq store.open
      /\ \A x \in store.obj[b].raw : x[2] = b
  BY <1>0, <1>3 DEF RawFits
<1>5. CASE IsDup(t, open2, rs)
  <2>1. PICK new \in {{<<"acquired_fd", b, t>>}, {}} :
          open2 = store.open \cup new /\ rs = (store.obj[b].raw \ A) \cup new
    BY <1>5 DEF IsDup
  <2>2. \A x \in new : x[2] = b
    BY <2>1
  <2>3. /\ rs \subseteq open2 /\ \A x \in rs : x[2] = b
        /\ \A x \in store.open \ open2 : x[2] = b
    BY <1>4, <2>1, <2>2
  <2> HIDE DEF b
  <2> QED
    BY <1>1, <1>2, <2>3
<1>6. CASE IsDrop(t, open2, rs)
  <2> DEFINE fds == MadeBy(c.seen, b)
  <2>1. \A x \in fds : x[1] = "acquired_fd" /\ x[2] = b
    BY DEF MadeBy
  <2>2. store.open \ fds \subseteq open2 /\ rs = store.obj[b].raw \ A
    BY <1>6 DEF IsDrop
  <2>3. \A x \in store.obj[b].raw : x \in fds => x \in A
    BY <2>1 DEF AcquiredFds
  <2> HIDE DEF fds, A
  <2>4. /\ rs \subseteq open2 /\ \A x \in rs : x[2] = b
        /\ \A x \in store.open \ open2 : x[2] = b
    BY <1>4, <2>1, <2>2, <2>3
  <2> HIDE DEF b
  <2> QED
    BY <1>1, <1>2, <2>4
<1> QED
  BY <1>2, <1>5, <1>6

(* A worker takes nothing from a call, and nothing from an object but the  *)
(* surface that goes.                                                      *)
LEMMA WorksRaw ==
  ASSUME SafeInv, NEW w \in DOMAIN store.obj, Works(w)
  PROVE  RawFits'
<1>0. RefInv /\ RawFits
  BY DEF SafeInv
<1>1. call' = call
  BY WorksAre
<1>2. PICK s, obj2, open2 : Worked(obj2, open2, s)
  BY WorksAre
<1>3. store'.obj = obj2 /\ store'.open = open2
  BY <1>2 DEF Worked, Memory
<1>4. /\ DOMAIN obj2 \subseteq DOMAIN store.obj
      /\ \A p \in DOMAIN obj2 : obj2[p].raw = store.obj[p].raw
      /\ \A p \in DOMAIN store.obj : LinkRefs(store.obj, p) > 0 \/ p \in DOMAIN obj2
  BY <1>2 DEF Worked
<1>5. \A u \in Threads : call[u].self # NoObject =>
        /\ call[u].self \in DOMAIN store.obj
        /\ LinkRefs(store.obj, call[u].self) = 0
  BY <1>0, SelfAlone
<1>6. \A u \in Threads : call[u].self # NoObject => call[u].self \in DOMAIN obj2
  <2>1. ~(0 > 0)
    OBVIOUS
  <2> QED
    BY <1>4, <1>5, <2>1
<1>7. \A u \in Threads : LocalFits(call[u]) /\ SelfRaw(call[u], obj2)
  BY <1>0, <1>4, <1>6 DEF RawFits, SelfRaw
<1>8. \A p \in DOMAIN obj2 : \A x \in obj2[p].raw : x[2] = p
  BY <1>0, <1>4 DEF RawFits
<1>9. /\ \A p \in DOMAIN obj2 : obj2[p].raw \subseteq open2
      /\ \A u \in Threads : call[u].local \subseteq open2
  <2>1. CASE open2 = store.open
    BY <1>0, <1>4, <2>1 DEF RawFits
  <2>2. CASE /\ open2 = store.open \ store.obj[s].raw
             /\ s \in DOMAIN store.obj /\ DOMAIN obj2 = DOMAIN store.obj \ {s}
    <3> DEFINE rs == store.obj[s].raw
    <3>1. \A x \in rs : x[2] = s
      BY <1>0, <2>2 DEF RawFits
    <3>2. s # NoObject /\ \A u \in Threads : call[u].self # s
      BY <1>0, <1>6, <2>2, ObjectsStand DEF RefInv
    <3> HIDE DEF rs
    <3>3. /\ \A p \in DOMAIN store.obj : p # s => store.obj[p].raw \cap rs = {}
          /\ \A u \in Threads : call[u].local \cap rs = {}
      BY <3>1, <3>2, ApartFrom
    <3>4. open2 = store.open \ rs
      BY <2>2 DEF rs
    <3> QED
      BY <1>0, <1>4, <2>2, <3>3, <3>4 DEF RawFits
  <2> QED
    BY <1>2, <2>1, <2>2 DEF Worked
<1>10. RawFits' = /\ \A u \in Threads : LocalFits(call[u]) /\ SelfRaw(call[u], obj2)
                  /\ \A p \in DOMAIN obj2 : \A x \in obj2[p].raw : x[2] = p
                  /\ \A p \in DOMAIN obj2 : obj2[p].raw \subseteq open2
                  /\ \A u \in Threads : call[u].local \subseteq open2
  BY <1>1, <1>3 DEF RawFits, LocalFits, SelfRaw
<1> QED
  BY <1>7, <1>8, <1>9, <1>10

(* Nothing changes but whether the driver is up.                           *)
LEMMA RawStays ==
  ASSUME RawFits, UNCHANGED <<store, call>>
  PROVE  RawFits'
BY DEF RawFits, LocalFits, SelfRaw

(* Every step keeps the resources with those who have them.                *)
LEMMA RawNext ==
  ASSUME SafeInv, [Next]_vars
  PROVE  RawFits'
<1>0. RefInv /\ RawFits
  BY DEF SafeInv
<1>1. ASSUME NEW t \in Threads, \E e : Quiet(t, e)
      PROVE  RawFits'
  BY <1>1, QuietRaw
<1>2. ASSUME NEW t \in Threads, Creates(t) \/ Destroys(t) \/ Uses(t)
      PROVE  RawFits'
  BY <1>0, <1>1, <1>2, OpensQuiet
<1>3. ASSUME NEW t \in Threads, FailedStep(t)
      PROVE  RawFits'
  BY <1>3, FailedStepIs, FailsRaw
<1>4. ASSUME NEW t \in Threads, Moves(t)
      PROVE  RawFits'
  BY <1>0, <1>1, <1>4, TakeRaw, HandOverRaw, DecControlRaw, DerivableQuiet
     DEF Moves
<1>5. ASSUME NEW t \in Threads, Plain(t)
      PROVE  RawFits'
  BY <1>0, <1>1, <1>5, CallocQuiet, CallocImageQuiet, InsertRaw, LookAtQuiet,
     AcquireQuiet, TargetQuiet, RemoveRaw, PicturesQuiet DEF Plain
<1>6. ASSUME NEW t \in Threads, Handles(t)
      PROVE  RawFits'
  BY <1>1, <1>6, HandleQuiet, HandledRaw DEF Handles
<1>7. ASSUME NEW t \in Threads, unref(t) \/ rk_Terminate(t)
      PROVE  RawFits'
  BY <1>7, UnrefRaw, TerminateRaw
<1>8. ASSUME NEW c \in DOMAIN store.obj, Works(c)
      PROVE  RawFits'
  BY <1>8, WorksRaw
<1>9. CASE rk_driver_init
  BY <1>0, <1>9, RawStays DEF rk_driver_init
<1>10. CASE UNCHANGED vars
  BY <1>0, <1>10, RawStays DEF vars
<1> QED
  BY <1>2, <1>3, <1>4, <1>5, <1>6, <1>7, <1>8, <1>9, <1>10, NextIs

(* The two together are the invariant of the driver.                       *)
LEMMA SafeNext ==
  ASSUME SafeInv, [Next]_vars
  PROVE  SafeInv'
BY RefNext, RawNext DEF SafeInv

(* The counts are those of the holders.                                    *)
LEMMA RefsAreExact ==
  ASSUME SafeInv
  PROVE  RefsExact
<1>1. RefInv /\ store.sane
  BY DEF SafeInv, RefInv, Balance
<1>2. \A o \in 1 .. made : o \in Nat \ {NoObject}
  BY <1>1, StoreIs DEF NoObject
<1>3. \A o \in 1 .. made : Balanced(store.obj, o, Holders(o))
  BY <1>1, <1>2, HoldersIs DEF RefInv, Balance
<1> QED
  BY <1>1, <1>3 DEF RefsExact, Balanced, Alive

(* Whatever the calls of the application, whatever fails in them and       *)
(* however the threads and the workers interleave, the count of every      *)
(* object is the number of the references that exist on it, and no         *)
(* reference is given back twice (rk_object_ref and rk_object_unref, and   *)
(* every call that pairs them).  Raw descriptors are no references: what   *)
(* holds of them is NothingIsLost, under its hypothesis.                   *)
THEOREM RefsAlwaysExact == Spec => []RefsExact
<1>1. Init => SafeInv
  BY InitFits
<1>2. SafeInv /\ [Next]_vars => SafeInv'
  BY SafeNext
<1>3. SafeInv => RefsExact
  BY RefsAreExact
<1> QED
  BY <1>1, <1>2, <1>3, PTL DEF Spec
-----------------------------------------------------------------------------
(***************************************************************************)
(* What a failed call leaves behind.                                       *)
(***************************************************************************)
Has(w, d) == \E j \in DOMAIN w : w[j] = d

(* What is still to do stays so when the rest is put before or after it.   *)
LEMMA DutyKept ==
  ASSUME NEW v \in Seq(Duty), NEW w \in Seq(Duty), NEW d
  PROVE  /\ Has(v, d) => Has(v \o w, d)
         /\ Has(w, d) => Has(v \o w, d)
<1>1. Len(v) \in Nat /\ Len(w) \in Nat /\ Len(v \o w) = Len(v) + Len(w)
      /\ DOMAIN v = 1 .. Len(v) /\ DOMAIN w = 1 .. Len(w)
      /\ DOMAIN (v \o w) = 1 .. Len(v) + Len(w)
  OBVIOUS
<1>2. ASSUME NEW j \in DOMAIN v
      PROVE  j \in DOMAIN (v \o w) /\ (v \o w)[j] = v[j]
  BY <1>1
<1>3. ASSUME NEW j \in DOMAIN w
      PROVE  Len(v) + j \in DOMAIN (v \o w) /\ (v \o w)[Len(v) + j] = w[j]
  BY <1>1
<1> QED
  BY <1>2, <1>3 DEF Has

(* What is not the first thing to do is still to do after it.              *)
LEMMA DutyLeft ==
  ASSUME NEW w \in Seq(Duty), w # <<>>, NEW d, Has(w, d), Head(w) # d
  PROVE  Has(Tail(w), d)
<1>1. PICK j \in DOMAIN w : w[j] = d
  BY DEF Has
<1>2. j \in 1 .. Len(w) /\ Len(w) \in Nat /\ Len(Tail(w)) = Len(w) - 1
      /\ DOMAIN Tail(w) = 1 .. Len(w) - 1 /\ Head(w) = w[1]
  OBVIOUS
<1>3. j # 1
  BY <1>1, <1>2
<1>4. j - 1 \in DOMAIN Tail(w) /\ Tail(w)[j - 1] = w[j]
  BY <1>2, <1>3
<1> QED
  BY <1>1, <1>4 DEF Has

(* A list with one duty.                                                   *)
LEMMA DutyOne ==
  ASSUME NEW d
  PROVE  Has(<<d>>, d)
<1>1. 1 \in DOMAIN <<d>> /\ <<d>>[1] = d
  OBVIOUS
<1> QED
  BY <1>1 DEF Has

(* Undone, in these terms.                                                 *)
LEMMA UndoneIs ==
  ASSUME NEW c
  PROVE  Undone(c) <=> (c.failed => \A k \in DOMAIN c.ids :
                           c.ids[k] \notin heap \/
                           Has(c.owed, Step("remove", c.ids[k])))
BY DEF Undone, Has

(* A step of t after which e is its call: it names nothing but what it     *)
(* named before or has just inserted, and inserts nothing but what it      *)
(* constructed.                                                            *)
UndoStep(t, e) ==
  LET c == call[t]
  IN /\ Goes(t, e)
     /\ e.self \in {NoObject, c.self, made + 1}
     /\ \A k \in DOMAIN e.ids :
          \/ \E j \in DOMAIN c.ids : e.ids[k] = c.ids[j]
          \/ e.ids[k] = c.self /\ e.self = NoObject
     /\ heap' \subseteq heap \cup ({c.self} \ {NoObject})
     /\ e.failed => \A k \in DOMAIN e.ids :
          e.ids[k] \notin heap' \/ Has(e.owed, Step("remove", e.ids[k]))

(* Such a step keeps the invariant.                                        *)
LEMMA UndoTaken ==
  ASSUME UndoInv, NEW t \in Threads, NEW e, UndoStep(t, e)
  PROVE  Nameless' /\ \A u \in Threads : Undone(call[u])'
<1> DEFINE c == call[t]
           d == Settled(e)
<1>0. RefInv /\ Nameless /\ \A u \in Threads : Undone(call[u])
  BY DEF UndoInv
<1>1. /\ Goes(t, e) /\ e.self \in {NoObject, c.self, made + 1}
      /\ \A k \in DOMAIN e.ids :
           \/ \E j \in DOMAIN c.ids : e.ids[k] = c.ids[j]
           \/ e.ids[k] = c.self /\ e.self = NoObject
      /\ heap' \subseteq heap \cup ({c.self} \ {NoObject})
      /\ e.failed => \A k \in DOMAIN e.ids :
           e.ids[k] \notin heap' \/ Has(e.owed, Step("remove", e.ids[k]))
  BY DEF UndoStep
<1>2. call'[t] = d /\ \A u \in Threads \ {t} : call'[u] = call[u]
  BY <1>0, <1>1, GoesIs
<1>3. /\ d.self \in {NoObject, e.self}
      /\ \A k \in DOMAIN d.ids : k \in DOMAIN e.ids /\ d.ids[k] = e.ids[k]
      /\ d.failed => e.failed
      /\ d.failed => d.owed = e.owed
  <2>1. CASE ~Over(e)
    BY <2>1 DEF Settled
  <2>2. CASE Over(e) /\ e.failed
    <3>1. d = [Idle EXCEPT !.failed = TRUE, !.ids = e.ids]
      BY <2>2 DEF Settled
    <3>2. d.self = NoObject /\ d.ids = e.ids /\ d.owed = <<>>
      BY <3>1 DEF Idle
    <3> QED
      BY <2>2, <3>2 DEF Over
  <2>3. CASE Over(e) /\ ~e.failed
    <3>1. d = Idle
      BY <2>3 DEF Settled
    <3>2. d.self = NoObject /\ d.ids = <<>> /\ d.failed = FALSE
      BY <3>1 DEF Idle
    <3>3. DOMAIN d.ids = {}
      BY <3>2
    <3> QED
      BY <3>2, <3>3
  <2> QED
    BY <2>1, <2>2, <2>3
<1> HIDE DEF d, c
<1>4. \A u \in Threads : \A k \in DOMAIN call[u].ids :
        call[u].ids[k] # made + 1
  <2>1. TAKE u \in Threads
  <2>2. TAKE k \in DOMAIN call[u].ids
  <2>3. made \in Nat /\ call[u] \in Call /\ call[u].ids[k] <= made
    BY <1>0 DEF RefInv, TypeInv, CallsFit, ObjectsFit, Known
  <2>4. call[u].ids[k] \in Nat
    BY <2>3 DEF Call
  <2> QED
    BY <2>3, <2>4
<1>5. made + 1 # NoObject
  BY <1>0, StoreIs DEF NoObject
<1>6. \A u \in Threads \ {t} : call[u].self # NoObject => c.self # call[u].self
  BY <1>0, SelfAlone DEF c
<1>7. \A u \in Threads : call[u].self # NoObject =>
        \A k \in DOMAIN d.ids : u # t => d.ids[k] # call[u].self
  BY <1>0, <1>1, <1>3, <1>6 DEF Nameless, c
<1>8. d.self # NoObject => \A k \in DOMAIN d.ids : d.ids[k] # d.self
  BY <1>0, <1>1, <1>3, <1>4, <1>5 DEF Nameless, c
<1>9. d.self # NoObject => \A u \in Threads :
        \A k \in DOMAIN call[u].ids : call[u].ids[k] # d.self
  BY <1>0, <1>1, <1>3, <1>4 DEF Nameless, c
<1>10. Nameless'
  <2> SUFFICES ASSUME NEW u \in Threads, NEW v \in Threads,
                      call'[u].self # NoObject, NEW k \in DOMAIN call'[v].ids
               PROVE  call'[v].ids[k] # call'[u].self
    BY DEF Nameless
  <2>1. CASE u = t /\ v = t
    BY <1>2, <1>8, <2>1
  <2>2. CASE u = t /\ v # t
    BY <1>2, <1>9, <2>2
  <2>3. CASE u # t /\ v = t
    BY <1>2, <1>7, <2>3
  <2>4. CASE u # t /\ v # t
    BY <1>0, <1>2, <2>4 DEF Nameless
  <2> QED
    BY <2>1, <2>2, <2>3, <2>4
<1>11. ASSUME NEW u \in Threads
       PROVE  Undone(call[u])'
  <2>1. CASE u = t
    <3>1. d.failed => \A k \in DOMAIN d.ids :
            d.ids[k] \notin heap' \/ Has(d.owed, Step("remove", d.ids[k]))
      BY <1>1, <1>3
    <3> QED
      BY <1>2, <2>1, <3>1 DEF Undone, Has
  <2>2. CASE u # t
    <3>1. Undone(call[u]) /\ call'[u] = call[u]
      BY <1>0, <1>2, <2>2
    <3>2. \A k \in DOMAIN call[u].ids :
            call[u].ids[k] \notin heap => call[u].ids[k] \notin heap'
      BY <1>0, <1>1 DEF Nameless, c
    <3> QED
      BY <3>1, <3>2 DEF Undone
  <2> QED
    BY <2>1, <2>2
<1> QED
  BY <1>10, <1>11
(* What a step that fails has still to undo: every handle the call made.   *)
LEMMA CleanupRemoves ==
  ASSUME NEW c \in Call, CallFits(c), c.at \in Failing, c.failed = FALSE,
         NEW k \in DOMAIN c.ids
  PROVE  Has(Cleanup(c), Step("remove", c.ids[k]))
<1> DEFINE d == Step("remove", c.ids[k])
           G == GiveBackSurface(c)
<1>0. 1 # NoObject
  BY DEF NoObject
<1>1. /\ SelfGone(c) \in Seq(Duty) /\ G \in Seq(Duty)
  BY <1>0, DueSelf, DueSurface
<1>2. c.ids \in Seq(Nat) /\ c.ids[k] \in Nat
  BY DEF Call
<1>3. CASE c.at \in SurfaceCall
  <2>1. Cleanup(c) = SelfGone(c) \o Removes(c.ids)
    BY <1>3, CleanupIs
  <2>2. Removes(c.ids) \in Seq(Duty) /\ DOMAIN Removes(c.ids) = DOMAIN c.ids
    <3>1. Removes(c.ids) \in Seq(Duty)
      BY <1>0, <1>2, DueRemoves
    <3>2. DOMAIN Removes(c.ids) = DOMAIN c.ids
      BY DEF Removes
    <3> QED
      BY <3>1, <3>2
  <2>3. Has(Removes(c.ids), d)
    <3>1. k \in DOMAIN Removes(c.ids) /\ Removes(c.ids)[k] = d
      BY DEF Removes
    <3> QED
      BY <3>1 DEF Has
  <2> QED
    BY <1>1, <2>1, <2>2, <2>3, DutyKept
<1>4. CASE c.at \notin SurfaceCall
  <2>1. c.op # "surfaces"
    <3>1. c.at \in Failing \ SurfaceCall /\ c.op \in OpsAt(c.at)
      BY <1>4 DEF CallFits
    <3> QED
      BY <3>1 DEF OpsAt, Failing, SurfaceCall, SurfaceSteps, BufferSteps,
         ContextSteps, WithBuffer, ImageSteps, Holding, PlainCall
  <2>2. c.at \in WithBuffer
    <3>1. c.ids # <<>>
      OBVIOUS
    <3> QED
      BY <2>1, <3>1 DEF CallFits
  <2>3. k = 1 /\ Buffer(c) = c.ids[k]
    <3>1. Len(c.ids) = 1
      BY <2>2 DEF CallFits
    <3> QED
      BY <1>2, <3>1 DEF Buffer
  <2>4. Cleanup(c) = UndoImage(c)
    BY <2>2, CleanupIs DEF WithBuffer, ImageSteps
  <2> DEFINE R == <<d>>
             U == <<Step("unref", c.ids[k])>>
  <2>5. R \in Seq(Duty) /\ U \in Seq(Duty) /\ Has(R, d)
    BY <1>2, DueOne, DutyOne
  <2>6. CASE c.at = "acquire_buffer"
    <3>1. UndoImage(c) = R \o G
      BY <2>3, <2>6 DEF UndoImage
    <3> HIDE DEF R, G, d
    <3> QED
      BY <1>1, <2>4, <2>5, <3>1, DutyKept DEF d
  <2>7. CASE c.at = "calloc_image"
    <3>1. UndoImage(c) = <<Step("unref", c.ids[k]), d>> \o G
      BY <2>3, <2>7 DEF UndoImage
    <3>2. <<Step("unref", c.ids[k]), d>> = U \o R
      BY PairConcat
    <3> HIDE DEF R, U, G, d
    <3>3. U \o R \in Seq(Duty) /\ Has(U \o R, d)
      BY <2>5, DutyKept
    <3>4. Has((U \o R) \o G, d)
      BY <1>1, <3>3, DutyKept
    <3> QED
      BY <2>4, <3>1, <3>2, <3>4 DEF d
  <2>8. CASE c.at = "insert_image"
    <3>1. UndoImage(c) = SelfGone(c) \o R
      BY <2>3, <2>8 DEF UndoImage
    <3> HIDE DEF R, G, d
    <3> QED
      BY <1>1, <2>4, <2>5, <3>1, DutyKept DEF d
  <2> QED
    BY <2>2, <2>6, <2>7, <2>8 DEF WithBuffer
<1> QED
  BY <1>3, <1>4

(* A step that fails.                                                      *)
LEMMA FailsUndo ==
  ASSUME RefInv, NEW t \in Threads, NEW do \in Failing, At(t, do), Fails(t)
  PROVE  \E e : UndoStep(t, e)
<1> DEFINE c  == call[t]
           e  == [c EXCEPT !.at = "idle", !.owed = Cleanup(c), !.local = {},
                           !.self = NoObject, !.held = <<>>, !.failed = TRUE]
<1>1. /\ c \in Call /\ CallFits(c) /\ c.at = do /\ c.failed = FALSE
  BY FailingIs, GoingIs
<1>2. Goes(t, e) /\ heap' = heap
  BY DEF Fails
<1>3. e.self = NoObject /\ e.ids = c.ids /\ e.owed = Cleanup(c)
  BY <1>1 DEF Call
<1>4. \A k \in DOMAIN c.ids : Has(Cleanup(c), Step("remove", c.ids[k]))
  BY <1>1, CleanupRemoves
<1> HIDE DEF e
<1>5. UndoStep(t, e)
  BY <1>2, <1>3, <1>4 DEF UndoStep
<1> QED
  BY <1>5

(* A step that only moves references and resources.                        *)
LEMMA QuietUndo ==
  ASSUME NEW t \in Threads, NEW e, Quiet(t, e)
  PROVE  UndoStep(t, e)
<1>1. /\ Goes(t, e) /\ heap' = heap /\ e.failed = FALSE
      /\ e.ids \in {<<>>, call[t].ids}
      /\ e.self \in {NoObject, call[t].self, made + 1}
  BY DEF Quiet
<1>2. \A k \in DOMAIN e.ids : \E j \in DOMAIN call[t].ids : e.ids[k] = call[t].ids[j]
  BY <1>1
<1> QED
  BY <1>1, <1>2 DEF UndoStep

(* A step of a construction.                                               *)
LEMMA BuildUndo ==
  ASSUME NEW t \in Threads, NEW e, NEW open2, NEW rs, Building(t, e, open2, rs)
  PROVE  UndoStep(t, e)
<1>1. /\ Goes(t, e) /\ heap' = heap /\ e.failed = FALSE
      /\ e.ids = call[t].ids /\ e.self = call[t].self
  BY DEF Building
<1> QED
  BY <1>1 DEF UndoStep

(* The descriptor of a derived buffer.                                     *)
LEMMA HandledUndo ==
  ASSUME NEW t \in Threads, NEW e, NEW open2, NEW rs,
         Handled(t, e, open2, rs)
  PROVE  UndoStep(t, e)
<1> DEFINE c == call[t]
<1>1. /\ Goes(t, e) /\ heap' = heap /\ c \in Call /\ c.failed = FALSE
      /\ e.failed = c.failed /\ e.ids = c.ids /\ e.self = c.self
  BY DEF Handled
<1> QED
  BY <1>1 DEF UndoStep

(* A handle is made.                                                       *)
LEMMA InsertUndo ==
  ASSUME RefInv, NEW t \in Threads, insert_succeeds(t)
  PROVE  \E e : UndoStep(t, e)
<1> DEFINE c == call[t]
           e == Inserted(c)
<1>1. /\ Goes(t, e) /\ heap' = heap \cup {c.self}
      /\ e.self = NoObject /\ e.ids = Append(c.ids, c.self)
      /\ e.failed = FALSE /\ c.ids \in Seq(Nat) /\ c.self \in Nat
      /\ c.self # NoObject
  BY InsertIs
<1> HIDE DEF e
<1>2. \A k \in DOMAIN e.ids :
        (\E j \in DOMAIN c.ids : e.ids[k] = c.ids[j]) \/ e.ids[k] = c.self
  <2> DEFINE q == c.ids
             o == c.self
  <2>1. q \in Seq(Nat) /\ o \in Nat /\ e.ids = Append(q, o)
    BY <1>1
  <2> HIDE DEF q, o
  <2>2. e.ids = q \o <<o>>
    BY <2>1, CountMore
  <2>3. \A k \in DOMAIN (q \o <<o>>) :
              \/ k \in DOMAIN q /\ (q \o <<o>>)[k] = q[k]
              \/ (q \o <<o>>)[k] = o
    BY <2>1, CountMore
  <2>4. \A k \in DOMAIN e.ids : \/ k \in DOMAIN q /\ e.ids[k] = q[k]
                                \/ e.ids[k] = o
    BY <2>2, <2>3
  <2> QED
    BY <2>4 DEF q, o
<1>3. UndoStep(t, e)
  BY <1>1, <1>2 DEF UndoStep
<1> QED
  BY <1>3

(* A call with other duties.                                               *)
LEMMA OwedUndo ==
  ASSUME UndoInv, NEW t \in Threads, NEW w,
         Goes(t, [call[t] EXCEPT !.owed = w]), heap' \subseteq heap,
         \A k \in DOMAIN call[t].ids :
           Has(call[t].owed, Step("remove", call[t].ids[k])) =>
             \/ call[t].ids[k] \notin heap'
             \/ Has(w, Step("remove", call[t].ids[k]))
  PROVE  \E e : UndoStep(t, e)
<1> DEFINE c == call[t]
           e == [c EXCEPT !.owed = w]
<1>0. RefInv /\ Undone(c)
  BY DEF UndoInv
<1>1. c \in Call
  BY <1>0, CallsAreFit DEF Fit
<1>2. e.self = c.self /\ e.ids = c.ids /\ e.owed = w /\ e.failed = c.failed
  BY <1>1 DEF Call
<1>3. c.failed => \A k \in DOMAIN c.ids :
        c.ids[k] \notin heap' \/ Has(w, Step("remove", c.ids[k]))
  BY <1>0, UndoneIs
<1>4. Goes(t, e)
  OBVIOUS
<1> HIDE DEF e
<1>5. UndoStep(t, e)
  BY <1>2, <1>3, <1>4 DEF UndoStep
<1> QED
  BY <1>5

(* rk_object_unref leaves what is to be removed.                           *)
LEMMA UnrefUndo ==
  ASSUME SafeInv, UndoInv, NEW t \in Threads, unref(t)
  PROVE  \E e : UndoStep(t, e)
<1> DEFINE c == call[t]
           o == Head(c.owed).on
           v == Unrefs(Inherited(store, o))
           w == v \o Tail(c.owed)
<1>1. /\ Goes(t, [c EXCEPT !.owed = w]) /\ heap' = heap
      /\ Owes(t, "unref") /\ c \in Call /\ o \in DOMAIN store.obj
  BY UnrefIs
<1>2. c.owed \in Seq(Duty) /\ c.owed # <<>> /\ Head(c.owed).do = "unref"
  BY <1>1 DEF Owes, Call
<1>3. Tail(c.owed) \in Seq(Duty)
  BY <1>2
<1>4. v \in Seq(Duty)
  <2>1. Inherited(store, o) \in Seq(Nat)
    <3>1. store.obj[o] \in Object
      BY <1>1, ObjectsStand DEF SafeInv, RefInv, Objects
    <3>2. Links(store.obj[o]) \in Seq(Nat) /\ <<>> \in Seq(Nat)
      BY <3>1, LinksList
    <3> QED
      BY <3>2 DEF Inherited
  <2> QED
    BY <2>1, DueUnrefs
<1>5. ASSUME NEW x, Has(c.owed, Step("remove", x))
      PROVE  Has(w, Step("remove", x))
  <2>1. Head(c.owed) # Step("remove", x)
    BY <1>2 DEF Step
  <2>2. Has(Tail(c.owed), Step("remove", x))
    BY <1>2, <1>5, <2>1, DutyLeft
  <2> HIDE DEF v
  <2> QED
    BY <1>3, <1>4, <2>2, DutyKept
<1> HIDE DEF w
<1> QED
  BY <1>1, <1>5, OwedUndo

(* rk_object_heap_remove does one of them.                                 *)
LEMMA RemoveUndo ==
  ASSUME UndoInv, NEW t \in Threads, remove(t)
  PROVE  \E e : UndoStep(t, e)
<1> DEFINE c == call[t]
           o == Head(c.owed).on
           v == Unrefs(Gone(o))
           w == v \o Tail(c.owed)
<1>0. RefInv
  BY DEF UndoInv
<1>1. /\ Goes(t, [c EXCEPT !.owed = w]) /\ heap' = heap \ ToSet(Gone(o))
      /\ Owes(t, "remove") /\ c \in Call
  BY <1>0, RemoveIs, CallsAreFit DEF Fit
<1>2. c.owed \in Seq(Duty) /\ c.owed # <<>>
  BY <1>1 DEF Owes, Call
<1>3. Tail(c.owed) \in Seq(Duty) /\ Head(c.owed) \in Duty /\ o \in Nat
  <2>1. Tail(c.owed) \in Seq(Duty) /\ Head(c.owed) \in Duty
    BY <1>2, DueTail
  <2> QED
    BY <2>1 DEF Duty
<1>4. v \in Seq(Duty) /\ o \notin heap'
  <2>1. Gone(o) \in Seq(Nat) /\ o \notin heap \ ToSet(Gone(o))
    BY <1>0, <1>3, GoneIs
  <2> QED
    BY <1>1, <2>1, DueUnrefs
<1>5. ASSUME NEW x, Has(c.owed, Step("remove", x))
      PROVE  x \notin heap' \/ Has(w, Step("remove", x))
  <2>1. CASE Head(c.owed) = Step("remove", x)
    <3>1. o = x
      BY <2>1 DEF Step
    <3> QED
      BY <1>4, <3>1
  <2>2. CASE Head(c.owed) # Step("remove", x)
    <3>1. Has(Tail(c.owed), Step("remove", x))
      BY <1>2, <1>5, <2>2, DutyLeft
    <3> HIDE DEF v
    <3> QED
      BY <1>3, <1>4, <3>1, DutyKept
  <2> QED
    BY <2>1, <2>2
<1> HIDE DEF w
<1> QED
  BY <1>1, <1>5, OwedUndo
(* vaTerminate leaves no handle at all.                                    *)
LEMMA TerminateUndo ==
  ASSUME NEW t \in Threads, rk_Terminate(t)
  PROVE  \E e : UndoStep(t, e)
<1> DEFINE e == Terminating(Everything)
<1>1. Goes(t, e) /\ heap' = {}
  BY DEF rk_Terminate, Terminating, Everything
<1>2. e.self = NoObject /\ e.ids = <<>> /\ e.failed = FALSE
  BY DEF Terminating, Idle
<1> HIDE DEF e
<1>3. DOMAIN e.ids = {}
  BY <1>2
<1>4. UndoStep(t, e)
  BY <1>1, <1>2, <1>3 DEF UndoStep
<1> QED
  BY <1>4

(* Neither the calls nor the handles change.                               *)
LEMMA UndoStays ==
  ASSUME UndoInv, UNCHANGED <<heap, call>>
  PROVE  Nameless' /\ \A u \in Threads : Undone(call[u])'
BY DEF UndoInv, Nameless, Undone

(* Every step keeps what a failed call has still to undo.                  *)
LEMMA UndoNext ==
  ASSUME SafeInv, UndoInv, [Next]_vars
  PROVE  UndoInv'
<1> DEFINE Goal == Nameless' /\ \A u \in Threads : Undone(call[u])'
<1>0. RefInv /\ RefInv'
  BY RefNext DEF SafeInv
<1>1. ASSUME NEW t \in Threads, \E e : UndoStep(t, e)
      PROVE  Goal
  BY <1>1, UndoTaken
<1>2. ASSUME NEW t \in Threads, \E e : Quiet(t, e)
      PROVE  Goal
  BY <1>1, <1>2, QuietUndo
<1>3. ASSUME NEW t \in Threads, \E e, open2, rs : Building(t, e, open2, rs)
      PROVE  Goal
  BY <1>1, <1>3, BuildUndo
<1>4. ASSUME NEW t \in Threads, \E e, open2, rs : Handled(t, e, open2, rs)
      PROVE  Goal
  BY <1>1, <1>4, HandledUndo
<1>5. ASSUME NEW t \in Threads, Creates(t) \/ Destroys(t) \/ Uses(t)
      PROVE  Goal
  BY <1>0, <1>2, <1>5, OpensQuiet
<1>6. ASSUME NEW t \in Threads, FailedStep(t)
      PROVE  Goal
  BY <1>0, <1>1, <1>6, FailedStepIs, FailsUndo
<1>7. ASSUME NEW t \in Threads, Moves(t)
      PROVE  Goal
  <2>1. CASE derivable(t)
    BY <1>0, <1>2, <2>1, DerivableQuiet
  <2>2. CASE take_succeeds(t)
    BY <1>0, <1>3, <2>2, TakeIs
  <2>3. CASE hand_over(t)
    BY <1>0, <1>3, <2>3, HandOverIs
  <2>4. CASE dec_control(t)
    BY <1>0, <1>3, <2>4, DecControlIs
  <2> QED
    BY <1>7, <2>1, <2>2, <2>3, <2>4 DEF Moves
<1>8. ASSUME NEW t \in Threads, Plain(t)
      PROVE  Goal
  <2>1. CASE insert_succeeds(t)
    BY <1>0, <1>1, <2>1, InsertUndo
  <2>2. CASE remove(t)
    BY <1>0, <1>1, <2>2, RemoveUndo
  <2>3. CASE ~insert_succeeds(t) /\ ~remove(t)
    <3>1. \E e : Quiet(t, e)
      BY <1>0, <1>8, <2>3, CallocQuiet, CallocImageQuiet, LookAtQuiet,
         AcquireQuiet, TargetQuiet, PicturesQuiet DEF Plain
    <3> QED
      BY <1>2, <3>1
  <2> QED
    BY <2>1, <2>2, <2>3
<1>9. ASSUME NEW t \in Threads, Handles(t)
      PROVE  Goal
  <2>1. CASE dup_handle(t) \/ drop_handle(t)
    BY <1>0, <1>4, <2>1, HandledIs
  <2>2. CASE has_handle(t) \/ needs_handle(t) \/ sees_handle(t)
    BY <1>0, <1>2, <2>2, HandleQuiet
  <2> QED
    BY <1>9, <2>1, <2>2 DEF Handles
<1>10. ASSUME NEW t \in Threads, unref(t) \/ rk_Terminate(t)
       PROVE  Goal
  BY <1>1, <1>10, UnrefUndo, TerminateUndo
<1>11. ASSUME NEW c \in DOMAIN store.obj, Works(c)
       PROVE  Goal
  <2>1. UNCHANGED <<heap, call>>
    BY <1>11, WorksAre
  <2> QED
    BY <2>1, UndoStays
<1>12. ASSUME rk_driver_init \/ UNCHANGED vars
       PROVE  Goal
  BY <1>12, UndoStays DEF rk_driver_init, vars
<1> HIDE DEF Goal
<1>14. Goal
  BY <1>5, <1>6, <1>7, <1>8, <1>9, <1>10, <1>11, <1>12, NextIs
<1> QED
  BY <1>0, <1>14 DEF UndoInv, Goal

(* At the start no call has failed.                                        *)
LEMMA InitUndo ==
  ASSUME Init
  PROVE  UndoInv
<1>1. \A t \in Threads : call[t] = Idle
  BY DEF Init
<1>2. Idle.self = NoObject /\ Idle.failed = FALSE
  BY DEF Idle
<1> QED
  BY <1>1, <1>2, InitFits DEF UndoInv, Nameless, Undone, SafeInv

(* A call that is over has nothing left to undo.                           *)
LEMMA UndoneIsNothing ==
  ASSUME UndoInv
  PROVE  AllOrNothing
<1> SUFFICES ASSUME NEW t \in Threads, Free(t), call[t].failed
             PROVE  ToSet(call[t].ids) \cap heap = {}
  BY DEF AllOrNothing
<1>1. call[t].owed = <<>> /\ Undone(call[t])
  BY DEF Free, Over, UndoInv
<1>2. \A k \in DOMAIN call[t].ids : call[t].ids[k] \notin heap
  BY <1>1 DEF Undone
<1> QED
  BY <1>2 DEF ToSet

(* However a create call fails and whatever the other threads do while it  *)
(* cleans up, once it has reported the failure none of the handles it made *)
(* can be looked up (the cleanup paths of create_surfaces, rk_CreateImage  *)
(* and rk_DeriveImage).                                                    *)
THEOREM FailureLeavesNothing == Spec => []AllOrNothing
<1>1. Init => SafeInv /\ UndoInv
  BY InitFits, InitUndo
<1>2. SafeInv /\ UndoInv /\ [Next]_vars => (SafeInv /\ UndoInv)'
  BY SafeNext, UndoNext
<1>3. UndoInv => AllOrNothing
  BY UndoneIsNothing
<1> QED
  BY <1>1, <1>2, <1>3, PTL DEF Spec
-----------------------------------------------------------------------------
(***************************************************************************)
(* No resource is lost.                                                    *)
(***************************************************************************)

(* Nobody but t is about to make or close a descriptor of p.               *)
Sole(t, p) == \A u \in Threads \ {t} :
                ~(call[u].at \in Resting /\ call[u].on = p)

(* Where a resource is once t goes on with e.                              *)
OwnerNext(t, e, x) ==
  \/ \E p \in DOMAIN store'.obj : x \in store'.obj[p].raw
  \/ x \in e.local /\ ~Over(e)
  \/ \E u \in Threads \ {t} : x \in call[u].local

(* A step that loses nothing.                                              *)
TightStep(t, e) ==
  /\ Goes(t, e)
  /\ e.at \in Resting =>
       /\ e.owed = <<>> /\ Alone(t, e.on)
       /\ e.on \in DOMAIN store'.obj => AcquiredFds(e.on)' = Expected(e)
  /\ \A p \in DOMAIN store.obj \cap DOMAIN store'.obj :
       store'.obj[p].raw = store.obj[p].raw \/ Sole(t, p)
  /\ \A x \in store'.open : OwnerNext(t, e, x)

(* While a buffer's handle is used by one thread.                          *)
LEMMA SoleIs ==
  ASSUME Tight, ~SharedHandles, NEW t \in Threads, NEW p, Alone(t, p)
  PROVE  Sole(t, p)
<1>1. \A u \in Threads \ {t} :
        ~(call[u].owed = <<>> /\ call[u].at \in Resting /\ call[u].on = p)
  BY DEF Alone
<1>2. \A u \in Threads : call[u].at \in Resting => call[u].owed = <<>>
  BY DEF Tight, Exclusive
<1> QED
  BY <1>1, <1>2 DEF Sole

(* The buffer a handle is made of is there.                                *)
LEMMA DupAlive ==
  ASSUME RefInv, Tight, NEW u \in Threads, call[u].at \in Resting
  PROVE  /\ call[u].on \in DOMAIN store.obj /\ Reachable(u, call[u].on)
         /\ AcquiredFds(call[u].on) = Expected(call[u])
<1>1. At(u, call[u].at) /\ call[u].at \in LastSteps
  BY DEF Tight, Exclusive, At, LastSteps, Resting
<1>2. call[u].on \in DOMAIN store.obj /\ Reachable(u, call[u].on)
  BY <1>1, LastHolds
<1> QED
  BY <1>2 DEF Tight, Exclusive

(* Such a step keeps the invariant.                                        *)
LEMMA TightTaken ==
  ASSUME RefInv, Tight, ~SharedHandles, NEW t \in Threads, NEW e,
         TightStep(t, e)
  PROVE  Tight'
<1> DEFINE d == Settled(e)
<1>1. call'[t] = d /\ \A u \in Threads \ {t} : call'[u] = call[u]
  BY GoesIs DEF TightStep
<1>2. /\ d.at \in Resting => d = e /\ e.at \in Resting
      /\ ~Over(e) => d.local = e.local
  BY DEF Settled, Idle, Over, Resting
<1> HIDE DEF d
<1>3. ASSUME d.at \in Resting
      PROVE  /\ d.owed = <<>> /\ Sole(t, d.on)
             /\ d.on \in DOMAIN store'.obj => AcquiredFds(d.on)' = Expected(d)
  BY <1>2, <1>3, SoleIs DEF TightStep
<1>4. ASSUME NEW u \in Threads \ {t}, call[u].at \in Resting
      PROVE  /\ call[u].owed = <<>>
             /\ call[u].on \in DOMAIN store'.obj =>
                  {x \in store'.obj[call[u].on].raw : x[1] = "acquired_fd"} =
                    Expected(call[u])
             /\ \A v \in Threads \ {u, t} :
                  ~(call[v].at \in Resting /\ call[v].on = call[u].on)
  <2> DEFINE p == call[u].on
  <2>1. p \in DOMAIN store.obj /\ AcquiredFds(p) = Expected(call[u])
    BY <1>4, DupAlive
  <2>2. ~Sole(t, p)
    BY <1>4 DEF Sole
  <2>3. call[u].owed = <<>>
    BY <1>4 DEF Tight, Exclusive
  <2>4. \A v \in Threads \ {u, t} : ~(call[v].at \in Resting /\ call[v].on = p)
    BY <1>4 DEF Tight, Exclusive
  <2> HIDE DEF p
  <2>5. p \in DOMAIN store'.obj => store'.obj[p].raw = store.obj[p].raw
    BY <2>1, <2>2 DEF TightStep
  <2>6. p \in DOMAIN store'.obj =>
          {x \in store'.obj[p].raw : x[1] = "acquired_fd"} = Expected(call[u])
    BY <2>1, <2>5 DEF AcquiredFds
  <2> QED
    BY <2>3, <2>4, <2>6 DEF p
<1>5. Exclusive'
  <2> SUFFICES ASSUME NEW u \in Threads, call'[u].at \in Resting
               PROVE  /\ call'[u].owed = <<>>
                      /\ call'[u].on \in DOMAIN store'.obj =>
                           {x \in store'.obj[call'[u].on].raw :
                              x[1] = "acquired_fd"} = Expected(call'[u])
                      /\ \A v \in Threads \ {u} :
                           ~(/\ call'[v].at \in Resting
                             /\ call'[v].on = call'[u].on)
    BY DEF Exclusive, AcquiredFds, Expected
  <2>1. CASE u = t
    BY <1>1, <1>3, <2>1 DEF Sole, AcquiredFds
  <2>2. CASE u # t
    <3>1. call'[u] = call[u]
      BY <1>1, <2>2
    <3>2. ASSUME call'[t].at \in Resting
          PROVE  call'[t].on # call[u].on
      BY <1>1, <1>3, <2>2, <3>1, <3>2 DEF Sole
    <3>3. ASSUME NEW v \in Threads \ {u}
          PROVE  ~(call'[v].at \in Resting /\ call'[v].on = call[u].on)
      <4>1. CASE v = t
        BY <3>2, <4>1
      <4>2. CASE v # t
        BY <1>1, <1>4, <2>2, <3>1, <4>2
      <4> QED
        BY <4>1, <4>2
    <3> QED
      BY <1>4, <2>2, <3>1, <3>3
  <2> QED
    BY <2>1, <2>2
<1>6. ASSUME NEW x \in store'.open
      PROVE  Owner(x)'
  <2>1. OwnerNext(t, e, x)
    BY DEF TightStep
  <2>2. CASE x \in e.local /\ ~Over(e)
    BY <1>1, <1>2, <2>2 DEF Owner
  <2>3. CASE \E u \in Threads \ {t} : x \in call[u].local
    BY <1>1, <2>3 DEF Owner
  <2>4. CASE \E p \in DOMAIN store'.obj : x \in store'.obj[p].raw
    BY <2>4 DEF Owner
  <2> QED
    BY <2>1, <2>2, <2>3, <2>4 DEF OwnerNext
<1> QED
  BY <1>5, <1>6 DEF Tight

(* A call that is not loaded has no local resources.                       *)
LEMMA Unloaded ==
  ASSUME SafeInv, NEW t \in Threads, call[t].at \notin Loaded
  PROVE  call[t].local = {}
BY NotLoaded DEF SafeInv, RawFits

(* Nothing is opened or closed.                                            *)
LEMMA QuietTight ==
  ASSUME SafeInv, Tight, NEW t \in Threads, NEW e, Quiet(t, e)
  PROVE  TightStep(t, e)
<1>1. /\ Goes(t, e) /\ store'.open = store.open
      /\ DOMAIN store.obj \subseteq DOMAIN store'.obj
      /\ \A p \in DOMAIN store'.obj :
          store'.obj[p].raw = IF p \in DOMAIN store.obj THEN store.obj[p].raw
                              ELSE {}
      /\ call[t].at \notin Loaded
      /\ e.at \in Resting => /\ e.owed = <<>> /\ Alone(t, e.on)
                             /\ e.on \in DOMAIN store.obj
                             /\ AcquiredFds(e.on) = Expected(e)
  BY DEF Quiet
<1>2. call[t].local = {}
  BY <1>1, Unloaded
<1>3. ASSUME NEW x \in store'.open
      PROVE  OwnerNext(t, e, x)
  <2>1. Owner(x)
    BY <1>1, <1>3 DEF Tight
  <2> QED
    BY <1>1, <1>2, <2>1 DEF Owner, OwnerNext
<1>4. e.at \in Resting => AcquiredFds(e.on)' = Expected(e)
  BY <1>1 DEF AcquiredFds
<1> QED
  BY <1>1, <1>3, <1>4 DEF TightStep

(* The object under construction, and the call, have what was opened.      *)
LEMMA BuildTight ==
  ASSUME SafeInv, Tight, NEW t \in Threads, NEW e, NEW open2, NEW rs,
         Building(t, e, open2, rs),
         \A x \in open2 : \/ x \in rs \/ x \in e.local
                          \/ /\ x \in store.open /\ x \notin call[t].local
                             /\ x \notin store.obj[call[t].self].raw
  PROVE  TightStep(t, e)
<1> DEFINE c == call[t]
           s == c.self
<1>0. RefInv
  BY DEF SafeInv
<1>1. /\ Goes(t, e) /\ <<c.at, e.at>> \in Pairs /\ s # NoObject
      /\ s \in DOMAIN store.obj
      /\ store'.open = open2 /\ DOMAIN store'.obj = DOMAIN store.obj
      /\ \A p \in DOMAIN store.obj :
           store'.obj[p].raw = IF p = s THEN rs ELSE store.obj[p].raw
  BY DEF Building
<1>2. e.at \notin Resting /\ ~Over(e)
  <2>1. e.at \in BuildSteps
    BY <1>1, PairsFit
  <2>2. e.at \notin Resting /\ e.at # "idle"
    BY <2>1 DEF Resting, BuildSteps, SurfaceSteps, BufferSteps, ContextSteps
  <2> QED
    BY <2>2 DEF Over
<1>3. Sole(t, s)
  <2>1. \A u \in Threads \ {t} : call[u].at \in Resting => call[u].on # s
    <3> SUFFICES ASSUME NEW u \in Threads \ {t}, call[u].at \in Resting,
                        call[u].on = s
                 PROVE  FALSE
      OBVIOUS
    <3>1. Reachable(u, s)
      BY <1>0, DupAlive
    <3> QED
      BY <1>0, <1>1, <3>1, OtherSelf
  <2> QED
    BY <2>1 DEF Sole
<1>4. ASSUME NEW x \in store'.open
      PROVE  OwnerNext(t, e, x)
  <2>1. CASE x \in rs
    BY <1>1, <2>1 DEF OwnerNext
  <2>2. CASE x \in e.local
    BY <1>2, <2>2 DEF OwnerNext
  <2>3. CASE x \in store.open /\ x \notin c.local /\ x \notin store.obj[s].raw
    <3>1. Owner(x)
      BY <2>3 DEF Tight
    <3> QED
      BY <1>1, <2>3, <3>1 DEF Owner, OwnerNext
  <2> QED
    BY <1>1, <1>4, <2>1, <2>2, <2>3
<1> QED
  BY <1>1, <1>2, <1>3, <1>4 DEF TightStep
(* A step of a construction that succeeds.                                 *)
LEMMA MovesTight ==
  ASSUME SafeInv, Tight, NEW t \in Threads,
         take_succeeds(t) \/ hand_over(t) \/ dec_control(t)
  PROVE  \E e : TightStep(t, e)
<1> DEFINE c == call[t]
           raw == store.obj[c.self].raw
<1>0. RefInv
  BY DEF SafeInv
<1>1. ASSUME take_succeeds(t)
      PROVE  \E e : TightStep(t, e)
  <2> DEFINE open2 == store.open \cup Taken(c)
             rs    == raw \cup Owned(c)
  <2>1. PICK e : /\ Building(t, e, open2, rs)
                 /\ e.local = c.local \cup (Taken(c) \ Owned(c))
    BY <1>0, <1>1, TakeIs
  <2>2. \A x \in open2 : \/ x \in rs \/ x \in e.local
                         \/ x \in store.open /\ x \notin c.local /\ x \notin raw
    BY <2>1
  <2> HIDE DEF open2, rs
  <2>3. TightStep(t, e)
    BY <2>1, <2>2, BuildTight
  <2> QED
    BY <2>3
<1>2. ASSUME hand_over(t)
      PROVE  \E e : TightStep(t, e)
  <2> DEFINE rs == raw \cup c.local
  <2>1. PICK e : Building(t, e, store.open, rs)
    BY <1>0, <1>2, HandOverIs
  <2>2. \A x \in store.open :
          \/ x \in rs \/ x \in e.local
          \/ x \in store.open /\ x \notin c.local /\ x \notin raw
    OBVIOUS
  <2> HIDE DEF rs
  <2>3. TightStep(t, e)
    BY <2>1, <2>2, BuildTight
  <2> QED
    BY <2>3
<1>3. ASSUME dec_control(t)
      PROVE  \E e : TightStep(t, e)
  <2> DEFINE open2 == store.open \ c.local
             rs    == raw
  <2>1. PICK e : Building(t, e, open2, rs)
    BY <1>3, DecControlIs
  <2>2. \A x \in open2 : \/ x \in rs \/ x \in e.local
                         \/ x \in store.open /\ x \notin c.local /\ x \notin raw
    OBVIOUS
  <2> HIDE DEF open2, rs
  <2>3. TightStep(t, e)
    BY <2>1, <2>2, BuildTight
  <2> QED
    BY <2>3
<1> QED
  BY <1>1, <1>2, <1>3

(* The descriptor of a derived buffer is made or closed.                   *)
LEMMA HandledTight ==
  ASSUME SafeInv, Tight, ~SharedHandles, NEW t \in Threads,
         dup_handle(t) \/ drop_handle(t)
  PROVE  \E e : TightStep(t, e)
<1> DEFINE c  == call[t]
           b  == c.on
           A  == AcquiredFds(b)
<1>0. RefInv
  BY DEF SafeInv
<1>1. PICK e, open2, rs :
        /\ Handled(t, e, open2, rs)
        /\ \/ /\ At(t, "dup_handle") /\ e.at # "dup_handle"
              /\ IsDup(t, open2, rs)
           \/ At(t, "drop_handle") /\ IsDrop(t, open2, rs)
  BY <1>0, HandledIs
<1>2. /\ Goes(t, e) /\ c \in Call /\ c.self = NoObject /\ c.at \in Resting
      /\ b \in DOMAIN store.obj
      /\ \/ e.at \in {"idle", "handle"}
         \/ e.at = "dup_handle" /\ e.owed = <<>> /\ e.on = b
      /\ store'.open = open2 /\ DOMAIN store'.obj = DOMAIN store.obj
      /\ \A p \in DOMAIN store.obj :
           store'.obj[p].raw = IF p = b THEN rs ELSE store.obj[p].raw
  BY <1>1 DEF Handled
<1>3. A = Expected(c) /\ Sole(t, b)
  BY <1>0, <1>2, DupAlive DEF Tight, Exclusive, Sole
<1>4. store.obj[b].raw \subseteq store.open /\ A \subseteq store.obj[b].raw
  BY <1>2 DEF SafeInv, RawFits, AcquiredFds
<1>5. /\ \A x \in open2 : x \in rs \/ x \in store.open
      /\ \A x \in open2 : x \in store.obj[b].raw => x \in rs
      /\ e.at = "dup_handle" => \A x \in rs : x[1] # "acquired_fd"
  <2>1. CASE At(t, "dup_handle") /\ e.at # "dup_handle" /\ IsDup(t, open2, rs)
    <3>1. A = {}
      BY <1>3, <2>1 DEF At, Expected
    <3>2. PICK new : /\ open2 = store.open \cup new
                     /\ rs = (store.obj[b].raw \ A) \cup new
      BY <2>1 DEF IsDup
    <3> HIDE DEF A
    <3> QED
      BY <2>1, <3>1, <3>2
  <2>2. CASE At(t, "drop_handle") /\ IsDrop(t, open2, rs)
    <3>1. A = MadeBy(c.seen, b)
      BY <1>3, <2>2 DEF At, Expected
    <3>2. open2 = store.open \ A /\ rs = store.obj[b].raw \ A
      <4>1. MadeBy(c.seen, b) \subseteq store.open
        BY <1>4, <3>1
      <4> QED
        BY <2>2, <3>1, <4>1 DEF IsDrop
    <3>3. \A x \in rs : x[1] # "acquired_fd"
      BY <3>2 DEF AcquiredFds
    <3> HIDE DEF A
    <3> QED
      BY <3>2, <3>3
  <2> QED
    BY <1>1, <2>1, <2>2
<1>6. c.local = {}
  <2>1. c.at \notin BuildSteps
    BY <1>0, <1>2, CallsAreFit DEF Fit, CallFits
  <2> QED
    BY <2>1, Unloaded, ClosedApart
<1> HIDE DEF b, A
<1>7. ASSUME NEW x \in store'.open
      PROVE  OwnerNext(t, e, x)
  <2>1. CASE x \in rs
    BY <1>2, <2>1 DEF OwnerNext
  <2>2. CASE x \notin rs
    <3>1. x \in store.open /\ x \notin store.obj[b].raw
      BY <1>2, <1>5, <1>7, <2>2
    <3>2. Owner(x)
      BY <3>1 DEF Tight
    <3> QED
      BY <1>2, <1>6, <3>1, <3>2 DEF Owner, OwnerNext
  <2> QED
    BY <2>1, <2>2
<1>8. ASSUME e.at \in Resting
      PROVE  /\ e.owed = <<>> /\ Alone(t, e.on)
             /\ e.on \in DOMAIN store'.obj => AcquiredFds(e.on)' = Expected(e)
  <2>1. e.at = "dup_handle" /\ e.owed = <<>> /\ e.on = b
    BY <1>2, <1>8 DEF Resting
  <2>2. Alone(t, e.on)
    BY <1>3, <2>1 DEF Alone, Sole
  <2>3. {x \in store'.obj[b].raw : x[1] = "acquired_fd"} = {}
    BY <1>2, <1>5, <2>1
  <2>4. Expected(e) = {}
    BY <2>1 DEF Expected
  <2> QED
    BY <2>1, <2>2, <2>3, <2>4 DEF AcquiredFds
<1>9. TightStep(t, e)
  BY <1>2, <1>3, <1>7, <1>8 DEF TightStep
<1> QED
  BY <1>9

(* A step after which everything that is open was open before, and nothing *)
(* of an object that is gone is.                                           *)
Leaving ==
  /\ \A p \in DOMAIN store.obj \cap DOMAIN store'.obj :
       store'.obj[p].raw = store.obj[p].raw
  /\ \A x \in store'.open :
       /\ x \in store.open
       /\ \A p \in DOMAIN store.obj \ DOMAIN store'.obj :
            x \notin store.obj[p].raw

(* Nothing is lost in it.                                                  *)
LEMMA LeavingTight ==
  ASSUME Tight, NEW t \in Threads, NEW e, Goes(t, e), Leaving,
         e.at \notin Resting,
         \A x \in call[t].local \cap store'.open : x \in e.local /\ ~Over(e)
  PROVE  TightStep(t, e)
<1>1. ASSUME NEW x \in store'.open
      PROVE  OwnerNext(t, e, x)
  <2>1. Owner(x)
    BY DEF Tight, Leaving
  <2>2. ASSUME NEW p \in DOMAIN store.obj, x \in store.obj[p].raw
        PROVE  p \in DOMAIN store'.obj /\ x \in store'.obj[p].raw
    BY <2>2 DEF Leaving
  <2> QED
    BY <2>1, <2>2 DEF Owner, OwnerNext
<1> QED
  BY <1>1 DEF TightStep, Leaving

(* The memory as it was.                                                   *)
LEMMA LeavingIs ==
  /\ store' = store => Leaving
  /\ SameRaw(store, store') => Leaving
  /\ \A o : GoneRaw(o) => Leaving
BY DEF Leaving, SameRaw, GoneRaw

(* A call that owes something else.                                        *)
LEMMA OwedTight ==
  ASSUME SafeInv, Tight, NEW t \in Threads, NEW w,
         Goes(t, [call[t] EXCEPT !.owed = w]), call[t].owed # <<>>, Leaving
  PROVE  \E e : TightStep(t, e)
<1> DEFINE c == call[t]
           e == [c EXCEPT !.owed = w]
<1>1. c \in Call
  BY CallsAreFit DEF Fit, SafeInv
<1>2. e.at = c.at /\ e.local = c.local /\ Goes(t, e)
  BY <1>1 DEF Call
<1>3. c.at \notin Resting
  BY DEF Tight, Exclusive
<1>4. c.local # {} => c.at # "idle"
  BY Unloaded DEF Loaded
<1> HIDE DEF e
<1>5. \A x \in c.local \cap store'.open : x \in e.local /\ ~Over(e)
  BY <1>2, <1>4 DEF Over
<1>6. TightStep(t, e)
  BY <1>2, <1>3, <1>5, LeavingTight
<1> QED
  BY <1>6

(* rk_object_unref and rk_object_heap_remove.                              *)
LEMMA OwesTight ==
  ASSUME SafeInv, Tight, NEW t \in Threads, unref(t) \/ remove(t)
  PROVE  \E e : TightStep(t, e)
<1> DEFINE c == call[t]
           o == Head(c.owed).on
<1>0. RefInv
  BY DEF SafeInv
<1>1. CASE unref(t)
  <2> DEFINE w == Unrefs(Inherited(store, o)) \o Tail(c.owed)
  <2>1. Goes(t, [c EXCEPT !.owed = w]) /\ Owes(t, "unref") /\ GoneRaw(o)
    BY <1>1, UnrefIs
  <2>2. c.owed # <<>> /\ Leaving
    BY <2>1, LeavingIs DEF Owes
  <2> HIDE DEF w
  <2> QED
    BY <2>1, <2>2, OwedTight
<1>2. CASE remove(t)
  <2> DEFINE w == Unrefs(Gone(o)) \o Tail(c.owed)
  <2>1. Goes(t, [c EXCEPT !.owed = w]) /\ Owes(t, "remove") /\ store' = store
    BY <1>0, <1>2, RemoveIs
  <2>2. c.owed # <<>> /\ Leaving
    BY <2>1, LeavingIs DEF Owes
  <2> HIDE DEF w
  <2> QED
    BY <2>1, <2>2, OwedTight
<1> QED
  BY <1>1, <1>2

(* rk_object_heap_insert and vaTerminate.                                  *)
LEMMA InsertTight ==
  ASSUME SafeInv, Tight, NEW t \in Threads, insert_succeeds(t)
  PROVE  \E e : TightStep(t, e)
<1> DEFINE e == Inserted(call[t])
<1>1. /\ Goes(t, e) /\ store' = store /\ e.at \notin Resting
      /\ call[t].at \notin Loaded
  BY InsertIs DEF SafeInv
<1>2. call[t].local = {} /\ Leaving
  BY <1>1, Unloaded, LeavingIs
<1> HIDE DEF e
<1>3. TightStep(t, e)
  BY <1>1, <1>2, LeavingTight
<1> QED
  BY <1>3

(* Every other call is over when the driver goes down.                     *)
LEMMA TerminateTight ==
  ASSUME SafeInv, Tight, NEW t \in Threads, rk_Terminate(t)
  PROVE  \E e : TightStep(t, e)
<1> DEFINE e == Terminating(Everything)
<1>1. Goes(t, e) /\ store' = store /\ Free(t)
  BY DEF rk_Terminate, Terminating, Everything
<1>2. e.at = "idle"
  BY DEF Terminating, Idle
<1>3. call[t].local = {} /\ Leaving
  BY <1>1, Unloaded, LeavingIs DEF Free, Over, Loaded
<1> HIDE DEF e
<1>4. TightStep(t, e)
  BY <1>1, <1>2, <1>3, LeavingTight DEF Resting
<1> QED
  BY <1>4

(* A step that fails closes what it had.                                   *)
LEMMA FailsTight ==
  ASSUME SafeInv, Tight, NEW t \in Threads, FailedStep(t)
  PROVE  \E e : TightStep(t, e)
<1> DEFINE c  == call[t]
           rs == OwnedBy(ClosedOnFailure(c.at), c.self)
           e  == [c EXCEPT !.at = "idle", !.owed = Cleanup(c), !.local = {},
                           !.self = NoObject, !.held = <<>>, !.failed = TRUE]
<1>0. RefInv
  BY DEF SafeInv
<1>1. c \in Call
  BY <1>0, CallsAreFit DEF Fit
<1>2. store' = Close(store, rs) /\ Goes(t, e)
  BY FailedStepIs DEF Fails, OwnedBy
<1>3. e.at = "idle"
  BY <1>1 DEF Call
<1>4. c.at # "keep_import"
  <2>1. "keep_import" \notin Acquires \cup Fallible \cup {"layout"}
    <3>1. "keep_import" \notin DOMAIN TypeMade
      BY DEF TypeMade
    <3>2. "keep_import" \notin DOMAIN Takes
      BY DEF Takes
    <3> QED
      BY <3>1, <3>2 DEF Acquires, Fallible, LookedAt, Kept, Inserts
  <2>2. c.at \in Acquires \cup Fallible \cup {"layout"}
    BY DEF FailedStep, acquire_fails, fallible_fails, not_derivable, At
  <2> QED
    BY <2>1, <2>2
<1>5. rs \subseteq store.open /\ rs = c.local
  BY <1>4, ClosesApart
<1> HIDE DEF rs, e
<1>6. store' = Memory(store.obj, store.open \ rs)
  BY <1>0, <1>2, <1>5, StoreIs, MemoryClosed
<1>7. store'.obj = store.obj /\ store'.open = store.open \ rs
  BY <1>6 DEF Memory
<1>8. Leaving /\ c.local \cap store'.open = {}
  BY <1>5, <1>7 DEF Leaving
<1>9. TightStep(t, e)
  BY <1>2, <1>3, <1>8, LeavingTight DEF Resting
<1> QED
  BY <1>9

(* The worker closes what a surface had when it goes.                      *)
LEMMA WorksTight ==
  ASSUME SafeInv, Tight, NEW w \in DOMAIN store.obj, Works(w)
  PROVE  Tight'
<1>0. RefInv
  BY DEF SafeInv
<1>1. call' = call
  BY WorksAre
<1>2. PICK s, obj2, open2 : Worked(obj2, open2, s)
  BY WorksAre
<1>3. store'.obj = obj2 /\ store'.open = open2
  BY <1>2 DEF Worked, Memory
<1>4. Leaving
  BY <1>2, <1>3 DEF Worked, Leaving
<1>5. Exclusive'
  <2> SUFFICES ASSUME NEW u \in Threads, call[u].at \in Resting
               PROVE  /\ call[u].owed = <<>>
                      /\ call[u].on \in DOMAIN store'.obj =>
                           {x \in store'.obj[call[u].on].raw :
                              x[1] = "acquired_fd"} = Expected(call[u])
                      /\ \A v \in Threads \ {u} :
                           ~(/\ call[v].at \in Resting
                             /\ call[v].on = call[u].on)
    BY <1>1 DEF Exclusive, AcquiredFds, Expected
  <2>1. /\ call[u].on \in DOMAIN store.obj
        /\ AcquiredFds(call[u].on) = Expected(call[u])
    BY <1>0, DupAlive
  <2>2. call[u].on \in DOMAIN store'.obj =>
          store'.obj[call[u].on].raw = store.obj[call[u].on].raw
    BY <1>4, <2>1 DEF Leaving
  <2> QED
    BY <2>1, <2>2 DEF Tight, Exclusive, AcquiredFds
<1>6. ASSUME NEW x \in store'.open
      PROVE  Owner(x)'
  <2>1. Owner(x)
    BY <1>4 DEF Tight, Leaving
  <2>2. ASSUME NEW p \in DOMAIN store.obj, x \in store.obj[p].raw
        PROVE  p \in DOMAIN store'.obj /\ x \in store'.obj[p].raw
    BY <1>4, <2>2 DEF Leaving
  <2> QED
    BY <1>1, <2>1, <2>2 DEF Owner
<1> QED
  BY <1>5, <1>6 DEF Tight

(* Neither the memory nor the calls change.                                *)
LEMMA TightStays ==
  ASSUME Tight, UNCHANGED <<store, call>>
  PROVE  Tight'
BY DEF Tight, Exclusive, Owner, AcquiredFds, Expected
(* No step loses a resource.                                               *)
LEMMA TightNext ==
  ASSUME SafeInv, Tight, ~SharedHandles, [Next]_vars
  PROVE  Tight'
<1>0. RefInv
  BY DEF SafeInv
<1>1. ASSUME NEW t \in Threads, \E e : TightStep(t, e)
      PROVE  Tight'
  BY <1>0, <1>1, TightTaken
<1>2. ASSUME NEW t \in Threads, \E e : Quiet(t, e)
      PROVE  Tight'
  BY <1>1, <1>2, QuietTight
<1>3. ASSUME NEW t \in Threads, Creates(t) \/ Destroys(t) \/ Uses(t)
      PROVE  Tight'
  BY <1>0, <1>2, <1>3, OpensQuiet
<1>4. ASSUME NEW t \in Threads, FailedStep(t)
      PROVE  Tight'
  BY <1>1, <1>4, FailsTight
<1>5. ASSUME NEW t \in Threads, Moves(t)
      PROVE  Tight'
  BY <1>0, <1>1, <1>2, <1>5, MovesTight, DerivableQuiet DEF Moves
<1>6. ASSUME NEW t \in Threads, Plain(t)
      PROVE  Tight'
  <2>1. CASE insert_succeeds(t) \/ remove(t)
    BY <1>1, <2>1, InsertTight, OwesTight
  <2>2. CASE ~insert_succeeds(t) /\ ~remove(t)
    <3>1. \E e : Quiet(t, e)
      BY <1>0, <1>6, <2>2, CallocQuiet, CallocImageQuiet, LookAtQuiet,
         AcquireQuiet, TargetQuiet, PicturesQuiet DEF Plain
    <3> QED
      BY <1>2, <3>1
  <2> QED
    BY <2>1, <2>2
<1>7. ASSUME NEW t \in Threads, Handles(t)
      PROVE  Tight'
  <2>1. CASE dup_handle(t) \/ drop_handle(t)
    BY <1>1, <2>1, HandledTight
  <2>2. CASE has_handle(t) \/ needs_handle(t) \/ sees_handle(t)
    BY <1>2, <2>2, HandleQuiet
  <2> QED
    BY <1>7, <2>1, <2>2 DEF Handles
<1>8. ASSUME NEW t \in Threads, unref(t) \/ rk_Terminate(t)
      PROVE  Tight'
  BY <1>1, <1>8, OwesTight, TerminateTight
<1>9. ASSUME NEW c \in DOMAIN store.obj, Works(c)
      PROVE  Tight'
  BY <1>9, WorksTight
<1>10. CASE rk_driver_init
  BY <1>10, TightStays DEF rk_driver_init
<1>11. CASE UNCHANGED vars
  BY <1>11, TightStays DEF vars
<1> QED
  BY <1>3, <1>4, <1>5, <1>6, <1>7, <1>8, <1>9, <1>10, <1>11, NextIs

(* At the start nothing is open.                                           *)
LEMMA InitTight ==
  ASSUME Init
  PROVE  Tight
<1>1. \A t \in Threads : call[t] = Idle
  BY DEF Init
<1>2. Idle.at = "idle" /\ store.open = {}
  BY DEF Idle, Init
<1> QED
  BY <1>1, <1>2 DEF Tight, Exclusive, Resting

(* Nobody has o when nobody has it once.                                   *)
LEMMA OccurrencesNone ==
  ASSUME NEW F, IsFamily(F), NEW o, \A i \in DOMAIN F : Count(F[i], o) = 0
  PROVE  Occurrences(F, o) = 0
<1>1. \A i \in DOMAIN F : Positions(F[i], o) = {}
  <2> TAKE i \in DOMAIN F
  <2>1. IsFiniteSet(Positions(F[i], o))
    BY PositionsFinite DEF IsFamily
  <2>2. Cardinality(Positions(F[i], o)) = 0
    BY DEF Count
  <2> QED
    BY <2>1, <2>2, FS_EmptySet
<1>2. UNION {{<<i, k>> : k \in Positions(F[i], o)} : i \in DOMAIN F} = {}
  BY <1>1
<1> QED
  BY <1>2, FS_EmptySet DEF Occurrences

(* An object that only another one holds is linked to it.                  *)
LEMMA LinkedFrom ==
  ASSUME NEW obj, Well(obj), NEW o, LinkRefs(obj, o) > 0
  PROVE  \E p \in DOMAIN obj, slot \in Slots : \E k \in DOMAIN obj[p].links[slot] :
           obj[p].links[slot][k] = o
<1> SUFFICES ASSUME \A p \in DOMAIN obj, slot \in Slots :
                      \A k \in DOMAIN obj[p].links[slot] :
                        obj[p].links[slot][k] # o
             PROVE  FALSE
  OBVIOUS
<1>1. Objects(obj) /\ IsFamily(LinkFamily(obj))
  BY LinkFamilyFits DEF Well
<1>2. ASSUME NEW p \in DOMAIN obj
      PROVE  Count(Links(obj[p]), o) = 0
  <2> DEFINE x == obj[p]
  <2>1. x \in Object
    BY <1>1 DEF Objects
  <2>2. \A s \in Slots : x.links[s] \in Seq(Nat)
    BY <2>1 DEF Object
  <2>3. \A s \in Slots : \A k \in DOMAIN x.links[s] : x.links[s][k] # o
    OBVIOUS
  <2> HIDE DEF x
  <2>4. \A s \in Slots : Count(x.links[s], o) = 0
    BY <2>2, <2>3, CountNone
  <2>5. Count(Links(x), o) = 0
    BY <2>1, <2>4, LinksCount DEF Slots
  <2> QED
    BY <2>5 DEF x
<1>3. \A p \in DOMAIN LinkFamily(obj) : Count(LinkFamily(obj)[p], o) = 0
  BY <1>2 DEF LinkFamily
<1>4. LinkRefs(obj, o) = 0
  BY <1>1, <1>3, OccurrencesNone DEF LinkRefs
<1> QED
  BY <1>4

(* When the driver is down and its last call is over, nothing is left.     *)
LEMMA DownEmpty ==
  ASSUME SafeInv, Tight, ~up, \A t \in Threads : Free(t)
  PROVE  store.open = {} /\ DOMAIN store.obj = {}
<1> DEFINE obj == store.obj
<1>0. RefInv /\ Well(obj) /\ heap = {}
  BY StoreWell DEF SafeInv, RefInv, DownFits
<1>1. ASSUME NEW o \in DOMAIN obj
      PROVE  LinkRefs(obj, o) > 0
  <2>1. o \in Nat \ {NoObject}
    BY <1>0, <1>1, StoreIs DEF NoObject
  <2>2. CallRefs(call, o) = 0
    <3>1. IsFamily(CallFamily(call))
      BY <1>0, ObjectsStand, CallFamilyFits DEF RefInv
    <3>2. \A t \in Threads : Count(References(call[t]), o) = 0
      BY <1>0, <2>1, FreeRefs DEF RefsOf
    <3>3. \A t \in DOMAIN CallFamily(call) : Count(CallFamily(call)[t], o) = 0
      BY <3>2 DEF CallFamily
    <3> QED
      BY <3>1, <3>3, OccurrencesNone DEF CallRefs
  <2>3. InHeap(heap, o) = 0
    BY <1>0 DEF InHeap
  <2>4. Balanced(obj, o, HeldBy(heap, obj, call, o))
    BY <1>0, <2>1 DEF RefInv, Balance
  <2>5. LinkRefs(obj, o) \in Nat
    BY <1>0, LinkFamilyFits DEF Well
  <2>6. obj[o].refs > 0 /\ obj[o].refs = HeldBy(heap, obj, call, o)
    BY <1>1, <2>4 DEF Balanced
  <2>7. HeldBy(heap, obj, call, o) = LinkRefs(obj, o)
    BY <2>2, <2>3, <2>5 DEF HeldBy
  <2> QED
    BY <2>6, <2>7
<1> HIDE DEF obj
<1>2. ASSUME NEW o \in DOMAIN obj
      PROVE  \E p \in DOMAIN obj, slot \in Slots :
               obj[o].type = TargetOf(slot) /\ obj[p].type = OwnerOf(slot)
  <2>1. LinkRefs(obj, o) > 0
    BY <1>1
  <2>2. PICK p \in DOMAIN obj, slot \in Slots : \E k \in DOMAIN obj[p].links[slot] :
           obj[p].links[slot][k] = o
    BY <1>0, <2>1, LinkedFrom
  <2>3. obj[o].type = TargetOf(slot) /\ obj[p].type = OwnerOf(slot)
    BY <1>0, <2>2, LinkedRefs
  <2> QED
    BY <2>3
<1>3. \A slot \in Slots : /\ TargetOf(slot) \in {"buffer", "surface"}
                          /\ TargetOf(slot) = "buffer" => OwnerOf(slot) = "image"
                          /\ OwnerOf(slot) \in {"image", "buffer", "context"}
                          /\ OwnerOf(slot) = "image" => TargetOf(slot) = "buffer"
  BY DEF Slots, TargetOf, OwnerOf
<1>4. \A o \in DOMAIN obj : obj[o].type \notin {"image", "context"}
  BY <1>2, <1>3
<1>5. \A o \in DOMAIN obj : obj[o].type # "buffer"
  BY <1>2, <1>3, <1>4
<1>6. DOMAIN obj = {}
  BY <1>2, <1>3, <1>4, <1>5
<1>7. \A t \in Threads : call[t].local = {}
  BY Unloaded DEF Free, Over, Loaded
<1>8. store.open = {}
  BY <1>6, <1>7 DEF Tight, Owner, obj
<1> QED
  BY <1>6, <1>8 DEF obj

(* What an object has no call has in a local variable.                     *)
LEMMA LocalApart ==
  ASSUME SafeInv, NEW p \in DOMAIN store.obj, NEW t \in Threads
  PROVE  store.obj[p].raw \cap call[t].local = {}
<1> DEFINE c == call[t]
<1> SUFFICES ASSUME NEW x \in store.obj[p].raw, x \in c.local
             PROVE  FALSE
  OBVIOUS
<1>1. RefInv /\ RawFits
  BY DEF SafeInv
<1>2. x[2] = p /\ x[2] = c.self
  BY <1>1, LocalOwn DEF RawFits
<1>3. c.self # NoObject
  BY <1>1, <1>2, ObjectsStand DEF RefInv
<1>4. store.obj[p].raw \subseteq OwnedBy(RawAt(c.at), p)
  BY <1>1, <1>2, <1>3 DEF RawFits, SelfRaw
<1>5. LocalFits(c)
  BY <1>1 DEF RawFits
<1>6. CASE c.at = "keep_import"
  <2>1. RawAt(c.at) = {}
    BY <1>6 DEF RawAt
  <2> QED
    BY <1>4, <2>1 DEF OwnedBy
<1>7. CASE c.at # "keep_import"
  <2>1. c.local = OwnedBy(ClosedOnFailure(c.at), p)
    BY <1>2, <1>5, <1>7 DEF LocalFits
  <2>2. ClosedOnFailure(c.at) \cap RawAt(c.at) = {}
    BY ClosedApart
  <2>3. PICK r \in RawAt(c.at) : x = <<r, p>>
    BY <1>4 DEF OwnedBy
  <2>4. PICK s \in ClosedOnFailure(c.at) : x = <<s, p>>
    BY <2>1 DEF OwnedBy
  <2>5. r = s
    BY <2>3, <2>4
  <2> QED
    BY <2>2, <2>5
<1> QED
  BY <1>6, <1>7

(* The resources are those of the objects and the calls.                   *)
LEMMA RawIsExact ==
  ASSUME SafeInv, Tight
  PROVE  RawExact
<1> DEFINE owned == UNION {store.obj[o].raw : o \in DOMAIN store.obj}
           local == UNION {call[t].local : t \in Threads}
<1>0. RawFits
  BY DEF SafeInv
<1>1. store.open = owned \cup local
  <2>1. \A x \in store.open : x \in owned \cup local
    BY DEF Tight, Owner
  <2>2. \A x \in owned \cup local : x \in store.open
    BY <1>0 DEF RawFits
  <2> QED
    BY <2>1, <2>2
<1>2. owned \cap local = {}
  BY LocalApart
<1>3. \A o, p \in DOMAIN store.obj :
        o # p => store.obj[o].raw \cap store.obj[p].raw = {}
  BY <1>0 DEF RawFits
<1>4. ~up /\ (\A t \in Threads : Free(t)) =>
        store.open = {} /\ DOMAIN store.obj = {}
  BY DownEmpty
<1> QED
  BY <1>1, <1>2, <1>3, <1>4 DEF RawExact

(* As long as no two threads are at the handle of one buffer at once       *)
(* (acquired_fd is looked at, closed and stored without a lock), every     *)
(* descriptor, MPP buffer, group, context, configuration and thread has    *)
(* exactly one owner through every failure of every call, none is closed   *)
(* twice, and none outlives vaTerminate (the error paths of                *)
(* rk_CreateSurfaces2, import_surface_descriptor and rk_CreateContext, the *)
(* destructors, and rk_Terminate).                                         *)
THEOREM NothingIsLost ==
  ASSUME ~SharedHandles
  PROVE  Spec => []RawExact
<1>1. Init => SafeInv /\ Tight
  BY InitFits, InitTight
<1>2. SafeInv /\ Tight /\ [Next]_vars => (SafeInv /\ Tight)'
  BY SafeNext, TightNext
<1>3. SafeInv /\ Tight => RawExact
  BY RawIsExact
<1> QED
  BY <1>1, <1>2, <1>3, PTL DEF Spec
=============================================================================
