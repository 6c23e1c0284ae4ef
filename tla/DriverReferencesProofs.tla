---------------------- MODULE DriverReferencesProofs ----------------------
(***************************************************************************)
(* The invariants behind the theorems of DriverObjectsProofs, and the      *)
(* balance of the reference counts, for any number of threads, objects,    *)
(* surfaces in a call and jobs, with every step of every call able to      *)
(* fail.                                                                   *)
(*                                                                         *)
(* RefInv is the balance of the counts with what it takes to carry it from *)
(* step to step: which kind of object each link, each local reference and  *)
(* each handle of a call names, and what a call holds at each of its       *)
(* steps.  RawFits says the same of the raw resources.  Both hold for      *)
(* every application.                                                      *)
(*                                                                         *)
(* UndoInv adds the handles of a call that has failed: each is out of the  *)
(* heaps or among those the call will still remove.                        *)
(*                                                                         *)
(* Tight adds that nothing is open without an owner and nothing was closed *)
(* twice (the mark would have no owner).  It needs an application that is  *)
(* at the handle of a buffer from one thread at a time: of two that find   *)
(* no descriptor each makes one, and the buffer remembers the second; of   *)
(* two that find one each closes it.                                       *)
(***************************************************************************)
EXTENDS DriverObjects, FiniteSetTheorems, FunctionTheorems, SequenceTheorems,
        TLAPS

-----------------------------------------------------------------------------
(***************************************************************************)
(* Counting occurrences.                                                   *)
(***************************************************************************)
Count(list, o) == Cardinality(Positions(list, o))

(* A list has finitely many positions.                                     *)
LEMMA PositionsFinite ==
  ASSUME NEW list, Len(list) \in Nat, DOMAIN list = 1 .. Len(list), NEW o
  PROVE  /\ IsFiniteSet(Positions(list, o))
         /\ Count(list, o) \in Nat
<1>1. IsFiniteSet(1 .. Len(list))
  BY FS_Interval
<1>2. Positions(list, o) \subseteq 1 .. Len(list)
  BY DEF Positions
<1>3. IsFiniteSet(Positions(list, o))
  BY <1>1, <1>2, FS_Subset
<1> QED
  BY <1>3, FS_CardinalityType DEF Count

(* Occurrences in a concatenation add up.                                  *)
LEMMA CountConcat ==
  ASSUME NEW S, NEW s \in Seq(S), NEW r \in Seq(S), NEW o
  PROVE  Count(s \o r, o) = Count(s, o) + Count(r, o)
<1> DEFINE A == Positions(s, o)
           B == Positions(r, o)
           C == {Len(s) + k : k \in B}
           f == [k \in B |-> Len(s) + k]
<1>1. /\ Len(s) \in Nat /\ Len(r) \in Nat
      /\ DOMAIN s = 1 .. Len(s) /\ DOMAIN r = 1 .. Len(r)
      /\ Len(s \o r) = Len(s) + Len(r)
      /\ DOMAIN (s \o r) = 1 .. (Len(s) + Len(r))
      /\ \A k \in 1 .. Len(s) : (s \o r)[k] = s[k]
      /\ \A k \in 1 .. Len(r) : (s \o r)[Len(s) + k] = r[k]
  OBVIOUS
<1>2. Positions(s \o r, o) = A \cup C
  <2>1. ASSUME NEW k \in Positions(s \o r, o)
        PROVE  k \in A \cup C
    <3>1. k \in 1 .. (Len(s) + Len(r)) /\ (s \o r)[k] = o
      BY <1>1, <2>1 DEF Positions
    <3>2. CASE k <= Len(s)
      BY <1>1, <3>1, <3>2 DEF Positions
    <3>3. CASE k > Len(s)
      <4>1. k - Len(s) \in 1 .. Len(r) /\ k = Len(s) + (k - Len(s))
        BY <1>1, <3>1, <3>3
      <4>2. k - Len(s) \in B
        BY <1>1, <3>1, <4>1 DEF Positions
      <4> QED
        BY <4>1, <4>2
    <3> QED
      BY <1>1, <3>1, <3>2, <3>3
  <2>2. ASSUME NEW k \in A
        PROVE  k \in Positions(s \o r, o)
    BY <1>1, <2>2 DEF Positions
  <2>3. ASSUME NEW k \in B
        PROVE  Len(s) + k \in Positions(s \o r, o)
    <3>1. k \in 1 .. Len(r) /\ r[k] = o
      BY <1>1, <2>3 DEF Positions
    <3>2. Len(s) + k \in 1 .. (Len(s) + Len(r))
      BY <1>1, <3>1
    <3> QED
      BY <1>1, <3>1, <3>2 DEF Positions
  <2> QED
    BY <2>1, <2>2, <2>3
<1>3. A \cap C = {}
  BY <1>1 DEF Positions
<1>4. IsFiniteSet(A) /\ IsFiniteSet(B) /\ Count(s, o) \in Nat
      /\ Count(r, o) \in Nat
  BY <1>1, PositionsFinite
<1>5. f \in Bijection(B, C)
  <2>1. \A k \in B : k \in Int
    BY <1>1 DEF Positions
  <2> HIDE DEF B
  <2>2. f \in [B -> C]
    OBVIOUS
  <2>3. \A a, b \in B : f[a] = f[b] => a = b
    BY <1>1, <2>1
  <2>4. \A c \in C : \E b \in B : f[b] = c
    OBVIOUS
  <2> QED
    BY <2>2, <2>3, <2>4, Fun_IsBij
<1> HIDE DEF A, B, C, f
<1>6. IsFiniteSet(C) /\ Cardinality(C) = Cardinality(B)
  <2>1. ExistsBijection(B, C)
    BY <1>5 DEF ExistsBijection
  <2> QED
    BY <1>4, <2>1, FS_Bijection
<1>7. Cardinality(A \cup C) = Cardinality(A) + Cardinality(C)
  <2>1. /\ Cardinality(A) \in Nat /\ Cardinality(C) \in Nat
        /\ Cardinality({}) = 0
    BY <1>4, <1>6, FS_CardinalityType, FS_EmptySet
  <2>2. Cardinality(A \cup C) =
          Cardinality(A) + Cardinality(C) - Cardinality(A \cap C)
    BY <1>4, <1>6, FS_Union
  <2>3. Cardinality(A \cap C) = 0
    BY <1>3, <2>1
  <2> QED
    BY <2>1, <2>2, <2>3
<1> QED
  BY <1>2, <1>6, <1>7 DEF Count, A, B

(* A list of one.                                                          *)
LEMMA CountOne ==
  ASSUME NEW x, NEW o
  PROVE  Count(<<x>>, o) = IF x = o THEN 1 ELSE 0
<1>1. CASE x = o
  <2>1. Positions(<<x>>, o) = {1}
    BY <1>1 DEF Positions
  <2> QED
    BY <1>1, <2>1, FS_Singleton DEF Count
<1>2. CASE x # o
  <2>1. Positions(<<x>>, o) = {}
    BY <1>2 DEF Positions
  <2> QED
    BY <1>2, <2>1, FS_EmptySet DEF Count
<1> QED
  BY <1>1, <1>2

(* The empty list.                                                         *)
LEMMA CountEmpty ==
  ASSUME NEW o
  PROVE  Count(<<>>, o) = 0
<1>1. Positions(<<>>, o) = {}
  BY DEF Positions
<1> QED
  BY <1>1, FS_EmptySet DEF Count

(* A finite family of lists of object names.                               *)
IsFamily(F) ==
  IsFiniteSet(DOMAIN F) /\ \A i \in DOMAIN F : F[i] \in Seq(Nat)

Tokens(F, o) == UNION {{<<i, k>> : k \in Positions(F[i], o)} : i \in DOMAIN F}

Other(F, i) == [j \in DOMAIN F \ {i} |-> F[j]]

(* A family without one of its lists is one.                               *)
LEMMA OtherFamily ==
  ASSUME NEW F, IsFamily(F), NEW i
  PROVE  IsFamily(Other(F, i))
<1>1. IsFiniteSet(DOMAIN F \ {i})
  BY FS_Subset DEF IsFamily
<1> QED
  BY <1>1 DEF IsFamily, Other

(* A family has finitely many occurrences.                                 *)
LEMMA TokensFinite ==
  ASSUME NEW F, IsFamily(F), NEW o
  PROVE  IsFiniteSet(Tokens(F, o)) /\ Occurrences(F, o) \in Nat
<1> DEFINE Of1(i) == {<<i, k>> : k \in Positions(F[i], o)}
           All    == {Of1(i) : i \in DOMAIN F}
<1>1. ASSUME NEW i \in DOMAIN F
      PROVE  IsFiniteSet(Of1(i))
  <2>1. IsFiniteSet(Positions(F[i], o))
    <3>1. F[i] \in Seq(Nat)
      BY <1>1 DEF IsFamily
    <3>2. Len(F[i]) \in Nat /\ DOMAIN F[i] = 1 .. Len(F[i])
      BY <3>1
    <3> QED
      BY <3>2, PositionsFinite
  <2> DEFINE P == Positions(F[i], o)
             g == [k \in P |-> <<i, k>>]
  <2> HIDE DEF P
  <2>2. g \in Surjection(P, Of1(i))
    <3>1. g \in [P -> Of1(i)]
      BY DEF P
    <3>2. \A c \in Of1(i) : \E b \in P : g[b] = c
      BY DEF P
    <3> QED
      BY <3>1, <3>2, Fun_IsSurj
  <2> QED
    BY <2>1, <2>2, FS_Surjection DEF P
<1>2. IsFiniteSet(All)
  <2> DEFINE g == [i \in DOMAIN F |-> Of1(i)]
  <2> HIDE DEF Of1
  <2>1. g \in [DOMAIN F -> All]
    OBVIOUS
  <2>2. \A c \in All : \E i \in DOMAIN F : g[i] = c
    OBVIOUS
  <2>3. g \in Surjection(DOMAIN F, All)
    BY <2>1, <2>2, Fun_IsSurj
  <2>4. IsFiniteSet(DOMAIN F)
    BY DEF IsFamily
  <2> QED
    BY <2>3, <2>4, FS_Surjection
<1>3. \A S \in All : IsFiniteSet(S)
  BY <1>1
<1>4. IsFiniteSet(UNION All)
  BY <1>2, <1>3, FS_UNION
<1>5. IsFiniteSet(Tokens(F, o))
  BY <1>4 DEF Tokens
<1>6. Cardinality(Tokens(F, o)) \in Nat
  BY <1>5, FS_CardinalityType
<1> QED
  BY <1>5, <1>6 DEF Tokens, Occurrences

(* One list's part of the occurrences.                                     *)
LEMMA OccurrencesSplit ==
  ASSUME NEW F, IsFamily(F), NEW i \in DOMAIN F, NEW o
  PROVE  /\ Occurrences(F, o) = Occurrences(Other(F, i), o) + Count(F[i], o)
         /\ Occurrences(Other(F, i), o) \in Nat
         /\ Count(F[i], o) \in Nat
<1> DEFINE P == Positions(F[i], o)
           A == {<<i, k>> : k \in P}
           B == Tokens(Other(F, i), o)
           g == [k \in P |-> <<i, k>>]
<1>1. Tokens(F, o) = A \cup B
  BY DEF Tokens, Other
<1>2. A \cap B = {}
  BY DEF Tokens, Other
<1>3. IsFiniteSet(P) /\ Count(F[i], o) \in Nat
  <2>1. F[i] \in Seq(Nat)
    BY DEF IsFamily
  <2>2. Len(F[i]) \in Nat /\ DOMAIN F[i] = 1 .. Len(F[i])
    BY <2>1
  <2> QED
    BY <2>2, PositionsFinite
<1>4. IsFiniteSet(B) /\ Occurrences(Other(F, i), o) \in Nat
  BY OtherFamily, TokensFinite
<1>5. ExistsBijection(P, A)
  <2> HIDE DEF P
  <2>1. g \in [P -> A] /\ \A a, b \in P : g[a] = g[b] => a = b
    OBVIOUS
  <2>2. \A c \in A : \E b \in P : g[b] = c
    OBVIOUS
  <2>3. g \in Bijection(P, A)
    BY <2>1, <2>2, Fun_IsBij
  <2> QED
    BY <2>3 DEF ExistsBijection
<1> HIDE DEF P, A, B, g
<1>6. IsFiniteSet(A) /\ Cardinality(A) = Cardinality(P)
  BY <1>3, <1>5, FS_Bijection
<1>7. Cardinality(A \cup B) =
        Cardinality(A) + Cardinality(B) - Cardinality(A \cap B)
  BY <1>4, <1>6, FS_Union
<1>8. Cardinality(A \cap B) = 0
  BY <1>2, FS_EmptySet
<1>9. /\ Count(F[i], o) = Cardinality(P)
      /\ Occurrences(Other(F, i), o) = Cardinality(B)
      /\ Occurrences(F, o) = Cardinality(A \cup B)
  <2>1. Occurrences(F, o) = Cardinality(Tokens(F, o))
    BY DEF Occurrences, Tokens
  <2>2. Occurrences(Other(F, i), o) = Cardinality(B)
    BY DEF Occurrences, Tokens, B
  <2> QED
    BY <1>1, <2>1, <2>2 DEF Count, P
<1> QED
  BY <1>3, <1>4, <1>6, <1>7, <1>8, <1>9

-----------------------------------------------------------------------------
(***************************************************************************)
(* The inductive invariant.                                                *)
(***************************************************************************)
Types == {"surface", "buffer", "image", "context", "config"}

Names == {"fd", "buf", "chroma_fd", "chroma_buf", "group", "priv", "data",
          "sync", "mpp", "enc_cfg", "dec_cfg", "worker", "closed_again"}

Resources == (Names \X Nat) \cup ({"acquired_fd"} \X Nat \X Threads)

Object == [type : Types, refs : Nat, raw : SUBSET Resources,
           links : [Slots -> Seq(Nat)]]

(* The steps at which a call has an object under construction, by type.    *)
SurfaceSteps == {"dup", "sync", "import", "dup_chroma", "sync_chroma",
                 "import_chroma", "keep_import", "group", "placeholder",
                 "placeholder_fd", "insert_surface"}
BufferSteps  == {"data", "insert_buffer"}
ContextSteps == {"sync_objects", "acquire_target", "mpp_create", "mpp_init",
                 "enc_cfg", "enc_control", "dec_cfg", "dec_control",
                 "dec_timeouts", "worker", "insert_context"}
BuildSteps   == SurfaceSteps \cup BufferSteps \cup ContextSteps \cup
                {"insert_image", "insert_config"}

Makes(do) == CASE do \in SurfaceSteps -> "surface"
               [] do \in BufferSteps -> "buffer"
               [] do \in ContextSteps -> "context"
               [] do = "insert_image" -> "image"
               [] OTHER -> "config"

(* The steps of a call that has made the buffer of an image.               *)
WithBuffer == {"acquire_buffer", "calloc_image", "insert_image"}

OtherSteps == {"idle", "calloc_surface", "calloc_buffer", "acquire_buffer",
               "calloc_image", "calloc_config", "acquire_config",
               "calloc_context", "use", "acquire", "acquire_surface",
               "layout", "begin", "end", "enqueue", "handle", "release",
               "dup_handle", "drop_handle"}

Ops == {"none", "surfaces", "buffer", "image", "derive", "config",
        "context", "destroy", "use", "begin", "end", "handle", "release",
        "terminate"}

Shapes == {"own", "one", "two", "encoder", "decoder"}

Duty == [do : {"unref", "remove"}, on : Nat]

Call == [op : Ops, at : BuildSteps \cup OtherSteps,
         owed : Seq(Duty), self : Nat,
         local : SUBSET Resources, ids : Seq(Nat), left : Int,
         shape : Shapes, surface : Nat, on : Nat, targets : Seq(Nat),
         held : Seq(Nat), seen : SUBSET Threads, failed : BOOLEAN]

(* The call each step belongs to.                                          *)
OpsAt(do) ==
  CASE do \in SurfaceSteps \cup {"calloc_surface"} -> {"surfaces"}
    [] do \in BufferSteps \cup {"calloc_buffer"} ->
         {"buffer", "image", "derive"}
    [] do \in WithBuffer -> {"image", "derive"}
    [] do \in ContextSteps \cup {"acquire_config", "calloc_context"} ->
         {"context"}
    [] do \in {"calloc_config", "insert_config"} -> {"config"}
    [] do = "acquire" -> {"begin", "end", "handle", "release"}
    [] do = "acquire_surface" -> {"begin", "derive"}
    [] do = "layout" -> {"derive"}
    [] do = "enqueue" -> {"end"}
    [] do = "dup_handle" -> {"handle"}
    [] do = "drop_handle" -> {"handle", "release"}
    [] do = "idle" -> Ops
    [] OTHER -> {do}

(* The references each step finds in local variables.                      *)
OnSurface(c) == IF c.op = "derive" THEN <<c.surface>> ELSE <<>>

Holds(c) ==
  CASE c.at = "layout" -> <<c.surface>>
    [] c.at \in {"calloc_buffer", "data", "insert_buffer", "acquire_buffer"}
         -> OnSurface(c)
    [] c.at = "calloc_image" -> OnSurface(c) \o <<Buffer(c)>>
    [] c.at = "acquire_surface" -> IF c.op = "begin" THEN <<c.on>> ELSE <<>>
    [] c.at = "begin" -> <<c.on, c.surface>>
    [] c.at \in {"end", "handle", "release", "dup_handle", "drop_handle"}
         -> <<c.on>>
    [] c.at = "enqueue" -> <<c.on, c.held[2]>>
    [] OTHER -> <<>>

(* A call is at a step of its own, has at that step what the step expects, *)
(* and knows only handles that were given out.                             *)
CallFits(c) ==
  /\ c.op \in OpsAt(c.at)
  /\ c.held = Holds(c)
  /\ c.at \in WithBuffer => Len(c.ids) = 1
  /\ c.at \notin WithBuffer /\ c.op # "surfaces" /\ ~c.failed => c.ids = <<>>
  /\ c.at \in BuildSteps <=> c.self # NoObject
  /\ c.at = "acquire_target" => c.targets # <<>>
  /\ c.failed => c.at = "idle"

Real(w) ==
  \A k \in DOMAIN w : w[k].do = "unref" => w[k].on # NoObject

Known(c, n) ==
  /\ c.self <= n /\ c.surface <= n /\ c.on <= n
  /\ \A k \in DOMAIN c.ids : c.ids[k] <= n
  /\ \A k \in DOMAIN c.targets : c.targets[k] <= n
  /\ \A k \in DOMAIN c.held : c.held[k] <= n /\ c.held[k] # NoObject
  /\ Real(c.owed)

CallsFit == \A t \in Threads : /\ call[t] \in Call
                               /\ CallFits(call[t])
                               /\ Known(call[t], made)

ObjectsFit ==
  /\ made \in Nat
  /\ heap \subseteq 1 .. made
  /\ DOMAIN store.obj \subseteq 1 .. made
  /\ store = [obj |-> store.obj, open |-> store.open, sane |-> store.sane]
  /\ store.obj = [p \in DOMAIN store.obj |-> store.obj[p]]
  /\ \A p \in DOMAIN store.obj : store.obj[p] \in Object
  /\ store.open \subseteq Resources
  /\ store.sane \in BOOLEAN
  /\ up \in BOOLEAN
  /\ call = [t \in Threads |-> call[t]]

TypeInv == CallsFit /\ ObjectsFit

(* Which object may hold which.                                            *)
OwnerOf(slot)  == CASE slot = "buffer" -> "image"
                    [] slot = "surface" -> "buffer"
                    [] OTHER -> "context"
TargetOf(slot) == IF slot = "buffer" THEN "buffer" ELSE "surface"

IsA(obj, o, type) == o \in DOMAIN obj => obj[o].type = type

LinksFit ==
  \A p \in DOMAIN store.obj :
    /\ \A slot \in Slots :
         /\ store.obj[p].links[slot] # <<>> =>
              store.obj[p].type = OwnerOf(slot)
         /\ \A k \in DOMAIN store.obj[p].links[slot] :
              /\ store.obj[p].links[slot][k] \in DOMAIN store.obj
              /\ IsA(store.obj, store.obj[p].links[slot][k], TargetOf(slot))
    /\ store.obj[p].type = "image" => Len(store.obj[p].links["buffer"]) = 1
    /\ Len(store.obj[p].links["render"]) <= 1

(* The objects a call names have the type they are named for.              *)
Named(c, obj) ==
  /\ IsA(obj, c.surface, "surface")
  /\ \A k \in DOMAIN c.targets : IsA(obj, c.targets[k], "surface")
  /\ c.op \in {"begin", "end"} => IsA(obj, c.on, "context")
  /\ c.op \in {"handle", "release"} => IsA(obj, c.on, "buffer")
  /\ c.op \in {"image", "derive"} =>
       \A k \in DOMAIN c.ids : k = 1 => IsA(obj, c.ids[k], "buffer")
  /\ c.at = "enqueue" => IsA(obj, c.held[2], "surface")

(* An object under construction has one reference, the call's.             *)
SelfFits(c, obj) ==
  c.self # NoObject => /\ c.self \in DOMAIN obj
                       /\ obj[c.self].refs = 1
                       /\ obj[c.self].type = Makes(c.at)

NamesFit == \A t \in Threads : Named(call[t], store.obj)
                               /\ SelfFits(call[t], store.obj)

(* After vaTerminate no handle is left and no call goes on.                *)
DownFits == ~up => heap = {} /\ \A t \in Threads : call[t].at = "idle"

(* The reference count of every name, those not given out yet included, is *)
(* the number of its holders.                                              *)
LinkFamily(obj) == [p \in DOMAIN obj |-> Links(obj[p])]
CallFamily(cs)  == [t \in Threads |-> References(cs[t])]

InHeap(hp, o)    == IF o \in hp THEN 1 ELSE 0
LinkRefs(obj, o) == Occurrences(LinkFamily(obj), o)
CallRefs(cs, o)  == Occurrences(CallFamily(cs), o)

HeldBy(hp, obj, cs, o) == InHeap(hp, o) + LinkRefs(obj, o) + CallRefs(cs, o)

Balanced(obj, o, holders) ==
  IF o \in DOMAIN obj THEN obj[o].refs = holders /\ obj[o].refs > 0
  ELSE holders = 0

Balance ==
  /\ store.sane
  /\ \A o \in Nat \ {NoObject} :
       Balanced(store.obj, o, HeldBy(heap, store.obj, call, o))

(* References.                                                             *)
RefInv == TypeInv /\ LinksFit /\ NamesFit /\ DownFits /\ Balance

-----------------------------------------------------------------------------
(* The handles of a failed call are out of the heap or about to be taken   *)
(* out, and no object under construction has a handle yet.                 *)
Undone(c) ==
  c.failed => \A k \in DOMAIN c.ids :
                \/ c.ids[k] \notin heap
                \/ \E j \in DOMAIN c.owed : c.owed[j] = Step("remove", c.ids[k])

Nameless == \A t, u \in Threads : call[t].self # NoObject =>
              \A k \in DOMAIN call[u].ids : call[u].ids[k] # call[t].self

UndoInv == RefInv /\ Nameless /\ \A t \in Threads : Undone(call[t])

-----------------------------------------------------------------------------
(* The raw resources an object may have before each step that gives it     *)
(* another one.                                                            *)
Imported == {"fd", "buf", "chroma_fd", "chroma_buf"}

RawAt(do) ==
  CASE do \in {"group", "placeholder", "placeholder_fd"} -> Imported
    [] do = "insert_surface" -> Imported \cup {"group", "priv"}
    [] do = "insert_buffer" -> {"data"}
    [] do \in {"acquire_target", "mpp_create"} -> {"sync"}
    [] do \in {"mpp_init", "enc_cfg", "dec_cfg", "dec_control",
               "dec_timeouts", "worker"} -> {"sync", "mpp"}
    [] do = "enc_control" -> {"sync", "mpp", "enc_cfg"}
    [] do = "insert_context" -> {"sync", "mpp", "enc_cfg", "worker"}
    [] OTHER -> {}

OwnedBy(rs, o) == {<<r, o>> : r \in rs}

LocalFits(c) ==
  IF c.at = "keep_import" THEN c.local \subseteq OwnedBy(Imported, c.self)
  ELSE c.local = OwnedBy(ClosedOnFailure(c.at), c.self)

SelfRaw(c, obj) ==
  c.self # NoObject => obj[c.self].raw \subseteq OwnedBy(RawAt(c.at), c.self)

(* What an object or a call has is open.                                   *)
RawFits ==
  /\ \A t \in Threads : LocalFits(call[t]) /\ SelfRaw(call[t], store.obj)
  /\ \A p \in DOMAIN store.obj : \A x \in store.obj[p].raw : x[2] = p
  /\ \A p \in DOMAIN store.obj : store.obj[p].raw \subseteq store.open
  /\ \A t \in Threads : call[t].local \subseteq store.open

SafeInv == RefInv /\ RawFits

(* What is open belongs to an object or a call, when no two threads are at *)
(* the handle of one buffer at once; a call about to make the descriptor,  *)
(* or to close it, then still finds what it saw.                           *)
Expected(c) ==
  IF c.at = "drop_handle" THEN MadeBy(c.seen, c.on) ELSE {}

Exclusive ==
  \A t \in Threads : call[t].at \in Resting =>
    /\ call[t].owed = <<>>
    /\ call[t].on \in DOMAIN store.obj =>
         AcquiredFds(call[t].on) = Expected(call[t])
    /\ \A u \in Threads \ {t} :
         ~(call[u].at \in Resting /\ call[u].on = call[t].on)

Owner(x) == \/ \E p \in DOMAIN store.obj : x \in store.obj[p].raw
            \/ \E t \in Threads : x \in call[t].local

Tight == Exclusive /\ \A x \in store.open : Owner(x)

-----------------------------------------------------------------------------
(***************************************************************************)
(* The references of a state, as a function of its parts.                  *)
(***************************************************************************)
OnSelf(c, o)  == IF c.self = o THEN 1 ELSE 0

(* Holders, in these terms.                                                *)
LEMMA HoldersIs ==
  ASSUME NEW o
  PROVE  /\ Holders(o) = HeldBy(heap, store.obj, call, o)
         /\ Holders(o)' = HeldBy(heap', store'.obj, call', o)
BY DEF Holders, HeldBy, InHeap, LinkRefs, CallRefs, LinkFamily, CallFamily

Objects(obj) ==
  IsFiniteSet(DOMAIN obj) /\ \A p \in DOMAIN obj : obj[p] \in Object
Calls(cs)    == \A t \in Threads : cs[t] \in Call

(* The links of an object are a list of names.                             *)
LEMMA LinksList ==
  ASSUME NEW x \in Object
  PROVE  Links(x) \in Seq(Nat)
<1>1. \A s \in Slots : x.links[s] \in Seq(Nat)
  BY DEF Object
<1> QED
  BY <1>1 DEF Links, Slots

(* The links to o are those of the six slots.                              *)
LEMMA LinksCount ==
  ASSUME NEW x \in Object, NEW o
  PROVE  /\ Count(Links(x), o) =
              Count(x.links["job"], o) + Count(x.links["route"], o) +
              Count(x.links["target"], o) + Count(x.links["render"], o) +
              Count(x.links["surface"], o) + Count(x.links["buffer"], o)
         /\ \A s \in Slots : Count(x.links[s], o) \in Nat
<1> DEFINE L(s) == x.links[s]
<1>1. \A s \in Slots : L(s) \in Seq(Nat)
  BY DEF Object
<1>2. \A s \in Slots : Count(L(s), o) \in Nat
  <2> TAKE s \in Slots
  <2>1. L(s) \in Seq(Nat)
    BY <1>1
  <2> HIDE DEF L
  <2>2. Len(L(s)) \in Nat /\ DOMAIN L(s) = 1 .. Len(L(s))
    BY <2>1
  <2> QED
    BY <2>2, PositionsFinite
<1>3. /\ L("job") \in Seq(Nat) /\ L("route") \in Seq(Nat)
      /\ L("target") \in Seq(Nat) /\ L("render") \in Seq(Nat)
      /\ L("surface") \in Seq(Nat) /\ L("buffer") \in Seq(Nat)
  BY <1>1 DEF Slots
<1>4. Links(x) = L("job") \o L("route") \o L("target") \o L("render") \o
                 L("surface") \o L("buffer")
  BY DEF Links
<1> HIDE DEF L
<1> DEFINE A2 == L("job") \o L("route")
           A3 == A2 \o L("target")
           A4 == A3 \o L("render")
           A5 == A4 \o L("surface")
<1>5. A2 \in Seq(Nat) /\ A3 \in Seq(Nat) /\ A4 \in Seq(Nat) /\ A5 \in Seq(Nat)
  BY <1>3
<1>6. Count(A2, o) = Count(L("job"), o) + Count(L("route"), o)
  BY <1>3, CountConcat
<1>7. Count(A3, o) = Count(A2, o) + Count(L("target"), o)
  BY <1>3, <1>5, CountConcat
<1>8. Count(A4, o) = Count(A3, o) + Count(L("render"), o)
  BY <1>3, <1>5, CountConcat
<1>9. Count(A5, o) = Count(A4, o) + Count(L("surface"), o)
  BY <1>3, <1>5, CountConcat
<1>10. Count(A5 \o L("buffer"), o) = Count(A5, o) + Count(L("buffer"), o)
  BY <1>3, <1>5, CountConcat
<1>11. Count(Links(x), o) =
         Count(L("job"), o) + Count(L("route"), o) + Count(L("target"), o) +
         Count(L("render"), o) + Count(L("surface"), o) +
         Count(L("buffer"), o)
  BY <1>4, <1>6, <1>7, <1>8, <1>9, <1>10
<1> QED
  BY <1>2, <1>11 DEF L

(* The references of the objects are a family, and so are the calls'.      *)
LEMMA LinkFamilyFits ==
  ASSUME NEW obj, Objects(obj)
  PROVE  IsFamily(LinkFamily(obj)) /\ \A o : LinkRefs(obj, o) \in Nat
<1>1. IsFamily(LinkFamily(obj))
  BY LinksList DEF IsFamily, LinkFamily, Objects
<1> QED
  BY <1>1, TokensFinite DEF LinkRefs

(* What a call gives back is a list of names.                              *)
LEMMA OwedList ==
  ASSUME NEW c \in Call
  PROVE  Owed(c) \in Seq(Nat) /\ Len(Owed(c)) = Len(c.owed)
<1>1. /\ c.owed \in Seq(Duty)
      /\ Len(c.owed) \in Nat /\ DOMAIN c.owed = 1 .. Len(c.owed)
  BY DEF Call
<1>2. \A k \in DOMAIN c.owed : c.owed[k].on \in Nat
  <2> TAKE k \in DOMAIN c.owed
  <2>1. c.owed[k] \in Duty
    BY <1>1, ElementOfSeq
  <2> QED
    BY <2>1 DEF Duty
<1>3. Owed(c) \in [1 .. Len(c.owed) -> Nat]
  BY <1>1, <1>2 DEF Owed, NoObject
<1> QED
  BY <1>1, <1>3, IsASeq

(* The references of a call are those it holds, those it owes and that of  *)
(* the object it constructs.                                               *)
LEMMA ReferencesCount ==
  ASSUME NEW c \in Call, NEW o
  PROVE  /\ References(c) \in Seq(Nat)
         /\ Count(References(c), o) =
              Count(c.held, o) + Count(Owed(c), o) + OnSelf(c, o)
         /\ Count(c.held, o) \in Nat /\ Count(Owed(c), o) \in Nat
         /\ OnSelf(c, o) \in Nat
<1>1. /\ c.held \in Seq(Nat) /\ Owed(c) \in Seq(Nat) /\ <<c.self>> \in Seq(Nat)
      /\ c.held \o Owed(c) \in Seq(Nat)
  <2>1. c.held \in Seq(Nat) /\ c.self \in Nat
    BY DEF Call
  <2>2. Owed(c) \in Seq(Nat)
    BY OwedList
  <2> QED
    BY <2>1, <2>2
<1>2. Count(c.held \o Owed(c), o) = Count(c.held, o) + Count(Owed(c), o)
  BY <1>1, CountConcat
<1>3. Count(References(c), o) =
        Count(c.held \o Owed(c), o) + Count(<<c.self>>, o)
  BY <1>1, CountConcat DEF References
<1>4. Count(<<c.self>>, o) = OnSelf(c, o)
  BY CountOne DEF OnSelf
<1>5. Count(c.held, o) \in Nat /\ Count(Owed(c), o) \in Nat
  BY <1>1, PositionsFinite
<1>6. OnSelf(c, o) \in Nat
  BY DEF OnSelf
<1>7. References(c) \in Seq(Nat)
  BY <1>1 DEF References
<1> QED
  BY <1>2, <1>3, <1>4, <1>5, <1>6, <1>7

(* The references of the calls are a family.                               *)
LEMMA CallFamilyFits ==
  ASSUME NEW cs, Calls(cs)
  PROVE  IsFamily(CallFamily(cs)) /\ \A o : CallRefs(cs, o) \in Nat
<1>1. IsFamily(CallFamily(cs))
  BY ReferencesCount, ObjectsAssumption DEF IsFamily, CallFamily, Calls
<1> QED
  BY <1>1, TokensFinite DEF CallRefs

(***************************************************************************)
(* What one change does to the references.                                 *)
(***************************************************************************)
RefsOf(c, o) == Count(References(c), o)

(* A call goes on.                                                         *)
LEMMA CallChange ==
  ASSUME NEW cs, Calls(cs), cs = [t \in Threads |-> cs[t]],
         NEW t \in Threads, NEW d \in Call, NEW o
  PROVE  /\ CallRefs([cs EXCEPT ![t] = d], o) =
              CallRefs(cs, o) - RefsOf(cs[t], o) + RefsOf(d, o)
         /\ RefsOf(cs[t], o) <= CallRefs(cs, o)
         /\ RefsOf(cs[t], o) \in Nat /\ RefsOf(d, o) \in Nat
         /\ CallRefs(cs, o) \in Nat
<1> DEFINE ds == [cs EXCEPT ![t] = d]
           F  == CallFamily(cs)
           G  == CallFamily(ds)
<1>1. Calls(ds)
  BY DEF Calls
<1>2. IsFamily(F) /\ IsFamily(G)
  <2> HIDE DEF ds
  <2> QED
    BY <1>1, CallFamilyFits
<1>3. t \in DOMAIN F /\ t \in DOMAIN G
  BY DEF CallFamily
<1>4. F[t] = References(cs[t]) /\ G[t] = References(d)
  BY DEF CallFamily
<1>5. Other(F, t) = Other(G, t)
  BY DEF Other, CallFamily
<1> HIDE DEF F, G
<1>6. /\ Occurrences(F, o) = Occurrences(Other(F, t), o) + Count(F[t], o)
      /\ Occurrences(Other(F, t), o) \in Nat
      /\ Count(F[t], o) \in Nat
  BY <1>2, <1>3, OccurrencesSplit
<1>7. /\ Occurrences(G, o) = Occurrences(Other(G, t), o) + Count(G[t], o)
      /\ Count(G[t], o) \in Nat
  BY <1>2, <1>3, OccurrencesSplit
<1>8. /\ CallRefs(cs, o) = Occurrences(F, o)
      /\ CallRefs(ds, o) = Occurrences(G, o)
  BY DEF CallRefs, F, G
<1> HIDE DEF ds
<1>9. RefsOf(cs[t], o) = Count(F[t], o) /\ RefsOf(d, o) = Count(G[t], o)
  BY <1>4 DEF RefsOf
<1>10. Occurrences(G, o) = Occurrences(Other(F, t), o) + Count(G[t], o)
  BY <1>5, <1>7
<1>11. /\ CallRefs(ds, o) =
            CallRefs(cs, o) - RefsOf(cs[t], o) + RefsOf(d, o)
       /\ RefsOf(cs[t], o) <= CallRefs(cs, o)
       /\ RefsOf(cs[t], o) \in Nat /\ RefsOf(d, o) \in Nat
       /\ CallRefs(cs, o) \in Nat
  BY <1>6, <1>7, <1>8, <1>9, <1>10
<1> QED
  BY <1>11 DEF ds

(* An object changes.                                                      *)
LEMMA LinkChange ==
  ASSUME NEW obj, Objects(obj), obj = [p \in DOMAIN obj |-> obj[p]],
         NEW p \in DOMAIN obj, NEW x \in Object, NEW o
  PROVE  /\ LinkRefs([obj EXCEPT ![p] = x], o) =
              LinkRefs(obj, o) - Count(Links(obj[p]), o) + Count(Links(x), o)
         /\ Count(Links(obj[p]), o) <= LinkRefs(obj, o)
         /\ Count(Links(obj[p]), o) \in Nat /\ Count(Links(x), o) \in Nat
         /\ LinkRefs(obj, o) \in Nat
<1> DEFINE ob2 == [obj EXCEPT ![p] = x]
           F == LinkFamily(obj)
           G == LinkFamily(ob2)
<1>1. Objects(ob2)
  BY DEF Objects
<1>2. IsFamily(F) /\ IsFamily(G)
  <2> HIDE DEF ob2
  <2> QED
    BY <1>1, LinkFamilyFits
<1>3. p \in DOMAIN F /\ p \in DOMAIN G
  BY DEF LinkFamily
<1>4. F[p] = Links(obj[p]) /\ G[p] = Links(x)
  BY DEF LinkFamily
<1>5. Other(F, p) = Other(G, p)
  BY DEF Other, LinkFamily
<1> HIDE DEF F, G
<1>6. /\ Occurrences(F, o) = Occurrences(Other(F, p), o) + Count(F[p], o)
      /\ Occurrences(Other(F, p), o) \in Nat
      /\ Count(F[p], o) \in Nat
  BY <1>2, <1>3, OccurrencesSplit
<1>7. /\ Occurrences(G, o) = Occurrences(Other(G, p), o) + Count(G[p], o)
      /\ Count(G[p], o) \in Nat
  BY <1>2, <1>3, OccurrencesSplit
<1>8. LinkRefs(obj, o) = Occurrences(F, o)
      /\ LinkRefs(ob2, o) = Occurrences(G, o)
  BY DEF LinkRefs, F, G
<1> HIDE DEF ob2
<1>9. Count(Links(obj[p]), o) = Count(F[p], o)
      /\ Count(Links(x), o) = Count(G[p], o)
  BY <1>4
<1>10. Occurrences(G, o) = Occurrences(Other(F, p), o) + Count(G[p], o)
  BY <1>5, <1>7
<1>11. /\ LinkRefs(ob2, o) =
            LinkRefs(obj, o) - Count(Links(obj[p]), o) + Count(Links(x), o)
       /\ Count(Links(obj[p]), o) <= LinkRefs(obj, o)
       /\ Count(Links(obj[p]), o) \in Nat /\ Count(Links(x), o) \in Nat
       /\ LinkRefs(obj, o) \in Nat
  BY <1>6, <1>7, <1>8, <1>9, <1>10
<1> QED
  BY <1>11 DEF ob2

(* An object goes.                                                         *)
LEMMA LinkDrop ==
  ASSUME NEW obj, Objects(obj), NEW p \in DOMAIN obj, NEW o
  PROVE  /\ LinkRefs([q \in DOMAIN obj \ {p} |-> obj[q]], o) =
              LinkRefs(obj, o) - Count(Links(obj[p]), o)
         /\ Count(Links(obj[p]), o) <= LinkRefs(obj, o)
         /\ Count(Links(obj[p]), o) \in Nat /\ LinkRefs(obj, o) \in Nat
<1> DEFINE ob2 == [q \in DOMAIN obj \ {p} |-> obj[q]]
           F == LinkFamily(obj)
<1>1. IsFamily(F)
  BY LinkFamilyFits
<1>2. p \in DOMAIN F /\ F[p] = Links(obj[p])
  BY DEF LinkFamily
<1>3. Other(F, p) = LinkFamily(ob2)
  BY DEF Other, LinkFamily
<1> HIDE DEF F, ob2
<1>4. /\ Occurrences(F, o) = Occurrences(Other(F, p), o) + Count(F[p], o)
      /\ Occurrences(Other(F, p), o) \in Nat
      /\ Count(F[p], o) \in Nat
  BY <1>1, <1>2, OccurrencesSplit
<1>5. LinkRefs(obj, o) = Occurrences(F, o)
      /\ LinkRefs(ob2, o) = Occurrences(Other(F, p), o)
  BY <1>3 DEF LinkRefs, F
<1>6. /\ LinkRefs(ob2, o) = LinkRefs(obj, o) - Count(Links(obj[p]), o)
      /\ Count(Links(obj[p]), o) <= LinkRefs(obj, o)
      /\ Count(Links(obj[p]), o) \in Nat /\ LinkRefs(obj, o) \in Nat
  BY <1>2, <1>4, <1>5
<1> QED
  BY <1>6 DEF ob2

(* An object is made.                                                      *)
LEMMA LinkAdd ==
  ASSUME NEW obj, Objects(obj), obj = [p \in DOMAIN obj |-> obj[p]],
         NEW n, n \notin DOMAIN obj, NEW x \in Object, NEW o
  PROVE  /\ Objects(With(obj, n, x))
         /\ LinkRefs(With(obj, n, x), o) =
              LinkRefs(obj, o) + Count(Links(x), o)
         /\ LinkRefs(obj, o) \in Nat /\ Count(Links(x), o) \in Nat
<1> DEFINE ob2 == With(obj, n, x)
<1>1. /\ DOMAIN ob2 = DOMAIN obj \cup {n} /\ ob2[n] = x
      /\ \A p \in DOMAIN obj : ob2[p] = obj[p]
  BY DEF With
<1>2. IsFiniteSet(DOMAIN obj \cup {n})
  BY FS_AddElement DEF Objects
<1>3. Objects(ob2)
  <2> HIDE DEF ob2
  <2> QED
    BY <1>1, <1>2 DEF Objects
<1>4. [q \in DOMAIN ob2 \ {n} |-> ob2[q]] = obj
  <2> HIDE DEF ob2
  <2>1. DOMAIN ob2 \ {n} = DOMAIN obj
    BY <1>1
  <2> QED
    BY <1>1, <2>1
<1> HIDE DEF ob2
<1>5. /\ LinkRefs(obj, o) = LinkRefs(ob2, o) - Count(Links(ob2[n]), o)
      /\ Count(Links(ob2[n]), o) <= LinkRefs(ob2, o)
      /\ Count(Links(ob2[n]), o) \in Nat /\ LinkRefs(ob2, o) \in Nat
  <2>1. n \in DOMAIN ob2
    BY <1>1
  <2>2. LinkRefs([q \in DOMAIN ob2 \ {n} |-> ob2[q]], o) =
          LinkRefs(ob2, o) - Count(Links(ob2[n]), o)
    BY <1>3, <2>1, LinkDrop
  <2> QED
    BY <1>3, <1>4, <2>1, <2>2, LinkDrop
<1>6. /\ LinkRefs(ob2, o) = LinkRefs(obj, o) + Count(Links(x), o)
      /\ LinkRefs(obj, o) \in Nat /\ Count(Links(x), o) \in Nat
  BY <1>1, <1>5
<1> QED
  BY <1>3, <1>6 DEF ob2

(***************************************************************************)
(* What a call owes.                                                       *)
(***************************************************************************)
Due(owed) == [k \in DOMAIN owed |->
                IF owed[k].do = "unref" THEN owed[k].on ELSE NoObject]

(* The references a list of duties gives back are a list of names.         *)
LEMMA DueList ==
  ASSUME NEW w \in Seq(Duty)
  PROVE  Due(w) \in Seq(Nat) /\ Len(Due(w)) = Len(w)
<1>1. Len(w) \in Nat /\ DOMAIN w = 1 .. Len(w)
  OBVIOUS
<1>2. \A k \in DOMAIN w : w[k].on \in Nat
  <2> TAKE k \in DOMAIN w
  <2>1. w[k] \in Duty
    BY <1>1, ElementOfSeq
  <2> QED
    BY <2>1 DEF Duty
<1>3. Due(w) \in [1 .. Len(w) -> Nat]
  BY <1>1, <1>2 DEF Due, NoObject
<1> QED
  BY <1>1, <1>3, IsASeq

(* Duties one after the other.                                             *)
LEMMA DueConcat ==
  ASSUME NEW v \in Seq(Duty), NEW w \in Seq(Duty), NEW o
  PROVE  /\ v \o w \in Seq(Duty)
         /\ Count(Due(v \o w), o) = Count(Due(v), o) + Count(Due(w), o)
         /\ Count(Due(v), o) \in Nat /\ Count(Due(w), o) \in Nat
<1>1. /\ Len(v) \in Nat /\ Len(w) \in Nat
      /\ DOMAIN v = 1 .. Len(v) /\ DOMAIN w = 1 .. Len(w)
      /\ v \o w \in Seq(Duty)
      /\ Len(v \o w) = Len(v) + Len(w)
      /\ DOMAIN (v \o w) = 1 .. (Len(v) + Len(w))
      /\ \A k \in 1 .. Len(v) : (v \o w)[k] = v[k]
      /\ \A k \in 1 .. Len(w) : (v \o w)[Len(v) + k] = w[k]
  OBVIOUS
<1>2. /\ Due(v) \in Seq(Nat) /\ Len(Due(v)) = Len(v)
      /\ Due(w) \in Seq(Nat) /\ Len(Due(w)) = Len(w)
      /\ Due(v \o w) \in Seq(Nat) /\ Len(Due(v \o w)) = Len(v) + Len(w)
  BY <1>1, DueList
<1>3. Due(v \o w) = Due(v) \o Due(w)
  <2>1. /\ Due(v) \o Due(w) \in Seq(Nat)
        /\ Len(Due(v) \o Due(w)) = Len(Due(v)) + Len(Due(w))
        /\ \A i \in 1 .. Len(Due(v)) + Len(Due(w)) :
             (Due(v) \o Due(w))[i] =
               IF i <= Len(Due(v)) THEN Due(v)[i] ELSE Due(w)[i - Len(Due(v))]
    BY <1>2, ConcatProperties
  <2>2. ASSUME NEW k \in 1 .. (Len(v) + Len(w))
        PROVE  Due(v \o w)[k] =
                 IF k <= Len(v) THEN Due(v)[k] ELSE Due(w)[k - Len(v)]
    <3>1. CASE k <= Len(v)
      <4>1. k \in 1 .. Len(v)
        BY <1>1, <3>1
      <4> QED
        BY <1>1, <3>1, <4>1 DEF Due
    <3>2. CASE ~(k <= Len(v))
      <4>1. k - Len(v) \in 1 .. Len(w) /\ k = Len(v) + (k - Len(v))
        BY <1>1, <3>2
      <4> QED
        BY <1>1, <3>2, <4>1 DEF Due
    <3> QED
      BY <3>1, <3>2
  <2>3. \A k \in 1 .. (Len(v) + Len(w)) :
          Due(v \o w)[k] = (Due(v) \o Due(w))[k]
    BY <1>2, <2>1, <2>2
  <2> QED
    BY <1>2, <2>1, <2>3, SeqEqual
<1>4. Count(Due(v) \o Due(w), o) = Count(Due(v), o) + Count(Due(w), o)
  BY <1>2, CountConcat
<1>5. Count(Due(v), o) \in Nat /\ Count(Due(w), o) \in Nat
  BY <1>2, PositionsFinite
<1> QED
  BY <1>1, <1>3, <1>4, <1>5

(* Giving back a list of references.                                       *)
LEMMA DueUnrefs ==
  ASSUME NEW list \in Seq(Nat)
  PROVE  /\ Unrefs(list) \in Seq(Duty) /\ Due(Unrefs(list)) = list
         /\ Unrefs(list) = <<>> <=> list = <<>>
         /\ \A k \in DOMAIN Unrefs(list) : Unrefs(list)[k].do = "unref"
<1>1. Len(list) \in Nat /\ DOMAIN list = 1 .. Len(list)
      /\ list = [k \in 1 .. Len(list) |-> list[k]]
  OBVIOUS
<1>2. \A k \in 1 .. Len(list) : list[k] \in Nat
  OBVIOUS
<1>3. Unrefs(list) \in [1 .. Len(list) -> Duty]
  BY <1>1, <1>2 DEF Unrefs, Step, Duty
<1>4. Unrefs(list) \in Seq(Duty) /\ Len(Unrefs(list)) = Len(list)
  BY <1>1, <1>3, IsASeq
<1>5. \A k \in DOMAIN Unrefs(list) :
        Unrefs(list)[k].do = "unref" /\ Unrefs(list)[k].on = list[k]
  BY DEF Unrefs, Step
<1>6. DOMAIN Unrefs(list) = 1 .. Len(list)
  BY <1>3
<1>7. Due(Unrefs(list)) = list
  BY <1>1, <1>5, <1>6 DEF Due
<1>8. Unrefs(list) = <<>> <=> list = <<>>
  BY <1>4
<1> QED
  BY <1>4, <1>5, <1>7, <1>8

(* Removing handles gives back nothing itself.                             *)
LEMMA DueRemoves ==
  ASSUME NEW list \in Seq(Nat), NEW o, o # NoObject
  PROVE  /\ Removes(list) \in Seq(Duty) /\ Count(Due(Removes(list)), o) = 0
         /\ DOMAIN Removes(list) = DOMAIN list
<1>1. Len(list) \in Nat /\ DOMAIN list = 1 .. Len(list)
  OBVIOUS
<1>2. \A k \in 1 .. Len(list) : list[k] \in Nat
  OBVIOUS
<1>3. Removes(list) \in [1 .. Len(list) -> Duty]
  BY <1>1, <1>2 DEF Removes, Step, Duty
<1>4. Removes(list) \in Seq(Duty)
  BY <1>1, <1>3, IsASeq
<1>5. Positions(Due(Removes(list)), o) = {}
  BY DEF Due, Removes, Step, Positions
<1> QED
  BY <1>1, <1>3, <1>4, <1>5, FS_EmptySet DEF Count

(* The first duty, done.                                                   *)
LEMMA DueTail ==
  ASSUME NEW w \in Seq(Duty), w # <<>>, NEW o
  PROVE  /\ Tail(w) \in Seq(Duty) /\ Head(w) \in Duty
         /\ Count(Due(Tail(w)), o) \in Nat
         /\ Count(Due(w), o) =
              Count(Due(Tail(w)), o) +
              (IF (IF Head(w).do = "unref" THEN Head(w).on ELSE NoObject) = o
                 THEN 1 ELSE 0)
<1>1. /\ Tail(w) \in Seq(Duty) /\ Head(w) \in Duty
      /\ w = <<Head(w)>> \o Tail(w)
  OBVIOUS
<1>2. <<Head(w)>> \in Seq(Duty)
  BY <1>1
<1>3. /\ Count(Due(<<Head(w)>> \o Tail(w)), o) =
           Count(Due(<<Head(w)>>), o) + Count(Due(Tail(w)), o)
      /\ Count(Due(<<Head(w)>>), o) \in Nat /\ Count(Due(Tail(w)), o) \in Nat
  BY <1>1, <1>2, DueConcat
<1> DEFINE h == IF Head(w).do = "unref" THEN Head(w).on ELSE NoObject
<1>4. Due(<<Head(w)>>) = <<h>>
  <2>1. Due(<<Head(w)>>) \in Seq(Nat) /\ Len(Due(<<Head(w)>>)) = 1
    BY <1>2, DueList
  <2>2. Due(<<Head(w)>>)[1] = h
    BY DEF Due
  <2>3. h \in Nat
    BY <1>1 DEF Duty, NoObject
  <2> HIDE DEF h
  <2> QED
    BY <2>1, <2>2, <2>3
<1>5. Count(<<h>>, o) = IF h = o THEN 1 ELSE 0
  BY CountOne
<1>6. Count(Due(w), o) = Count(<<h>>, o) + Count(Due(Tail(w)), o)
  BY <1>1, <1>3, <1>4
<1>7. Count(Due(w), o) =
        Count(Due(Tail(w)), o) + (IF h = o THEN 1 ELSE 0)
  BY <1>3, <1>5, <1>6
<1> QED
  BY <1>1, <1>3, <1>7

(* Only objects are given back.                                            *)
LEMMA RealConcat ==
  ASSUME NEW v \in Seq(Duty), NEW w \in Seq(Duty), Real(v), Real(w)
  PROVE  Real(v \o w)
<1>1. /\ Len(v) \in Nat /\ Len(w) \in Nat
      /\ DOMAIN v = 1 .. Len(v) /\ DOMAIN w = 1 .. Len(w)
      /\ DOMAIN (v \o w) = 1 .. (Len(v) + Len(w))
      /\ \A k \in 1 .. Len(v) : (v \o w)[k] = v[k]
      /\ \A k \in 1 .. Len(w) : (v \o w)[Len(v) + k] = w[k]
  OBVIOUS
<1> SUFFICES ASSUME NEW k \in 1 .. (Len(v) + Len(w)), (v \o w)[k].do = "unref"
             PROVE  (v \o w)[k].on # NoObject
  BY <1>1 DEF Real
<1>2. CASE k <= Len(v)
  <2>1. k \in 1 .. Len(v)
    BY <1>1, <1>2
  <2> QED
    BY <1>1, <2>1 DEF Real
<1>3. CASE ~(k <= Len(v))
  <2>1. k - Len(v) \in 1 .. Len(w) /\ k = Len(v) + (k - Len(v))
    BY <1>1, <1>3
  <2>2. (v \o w)[k] = w[k - Len(v)]
    BY <1>1, <2>1
  <2> QED
    BY <1>1, <2>1, <2>2 DEF Real
<1> QED
  BY <1>2, <1>3

(* The same for the lists of duties there are.                             *)
LEMMA RealLists ==
  /\ Real(<<>>)
  /\ \A list : Real(Removes(list))
  /\ \A list : (\A k \in DOMAIN list : list[k] # NoObject) =>
                 Real(Unrefs(list))
  /\ \A x : x # NoObject => Real(<<Step("unref", x)>>)
  /\ \A x : Real(<<Step("remove", x)>>)
BY DEF Real, Removes, Unrefs, Step

(* The same for the rest of a list.                                        *)
LEMMA RealTail ==
  ASSUME NEW w \in Seq(Duty), w # <<>>, Real(w)
  PROVE  Real(Tail(w)) /\ (Head(w).do = "unref" => Head(w).on # NoObject)
<1>1. /\ Len(w) \in Nat /\ Len(w) > 0 /\ DOMAIN w = 1 .. Len(w)
      /\ Head(w) = w[1] /\ Tail(w) \in Seq(Duty) /\ Len(Tail(w)) = Len(w) - 1
      /\ DOMAIN Tail(w) = 1 .. (Len(w) - 1)
      /\ \A k \in 1 .. (Len(w) - 1) : Tail(w)[k] = w[k + 1]
  OBVIOUS
<1>2. \A k \in 1 .. (Len(w) - 1) : k + 1 \in 1 .. Len(w)
  BY <1>1
<1>3. 1 \in 1 .. Len(w)
  BY <1>1
<1> QED
  BY <1>1, <1>2, <1>3 DEF Real

(***************************************************************************)
(* Calls.                                                                  *)
(***************************************************************************)
Settled(e) ==
  IF ~Over(e) THEN e
  ELSE IF e.failed THEN [Idle EXCEPT !.failed = TRUE, !.ids = e.ids]
  ELSE Idle

(* A thread in no call.                                                    *)
LEMMA IdleFits ==
  /\ Idle \in Call /\ CallFits(Idle) /\ \A n \in Nat : Known(Idle, n)
  /\ \A o : o # NoObject => RefsOf(Idle, o) = 0
<1>1. Idle \in Call
  BY DEF Idle, Call, Ops, OtherSteps, Shapes, NoObject
<1>2. CallFits(Idle)
  BY DEF CallFits, Idle, OpsAt, Holds, WithBuffer, BuildSteps, SurfaceSteps,
         BufferSteps, ContextSteps, Ops, NoObject
<1>3. \A n \in Nat : Known(Idle, n)
  BY RealLists DEF Known, Idle, NoObject
<1>4. ASSUME NEW o, o # NoObject
      PROVE  RefsOf(Idle, o) = 0
  <2>1. RefsOf(Idle, o) =
          Count(Idle.held, o) + Count(Owed(Idle), o) + OnSelf(Idle, o)
    BY <1>1, ReferencesCount DEF RefsOf
  <2>2. Idle.held = <<>> /\ Owed(Idle) = <<>> /\ OnSelf(Idle, o) = 0
    BY <1>4 DEF Idle, Owed, OnSelf
  <2>3. Count(<<>>, o) = 0
    BY CountEmpty
  <2> QED
    BY <2>1, <2>2, <2>3
<1> QED
  BY <1>1, <1>2, <1>3, <1>4

(* A call that is over has given back everything.                          *)
LEMMA OverHoldsNothing ==
  ASSUME NEW e \in Call, CallFits(e), Over(e)
  PROVE  e.held = <<>> /\ e.self = NoObject /\ e.owed = <<>> /\ e.at = "idle"
BY DEF Over, CallFits, Holds, BuildSteps, SurfaceSteps, BufferSteps,
       ContextSteps

(* What Goes leaves behind.                                                *)
LEMMA SettledFits ==
  ASSUME NEW e \in Call, CallFits(e), NEW n \in Nat, Known(e, n)
  PROVE  /\ Settled(e) \in Call /\ CallFits(Settled(e))
         /\ Known(Settled(e), n)
         /\ Settled(e).at = e.at /\ Settled(e).self = e.self
         /\ \A o : o # NoObject => RefsOf(Settled(e), o) = RefsOf(e, o)
<1>1. CASE ~Over(e)
  BY <1>1 DEF Settled
<1>2. CASE Over(e)
  <2>1. e.held = <<>> /\ e.self = NoObject /\ e.owed = <<>> /\ e.at = "idle"
    BY <1>2, OverHoldsNothing
  <2>2. e.ids \in Seq(Nat) /\ \A k \in DOMAIN e.ids : e.ids[k] <= n
    BY DEF Call, Known
  <2> DEFINE g == [Idle EXCEPT !.failed = TRUE, !.ids = e.ids]
  <2>3. g \in Call
    BY <2>2, IdleFits DEF Call
  <2>4. CallFits(g)
    BY DEF CallFits, Idle, OpsAt, Holds, WithBuffer, BuildSteps,
           SurfaceSteps, BufferSteps, ContextSteps, Ops, NoObject
  <2>5. Known(g, n)
    BY <2>2, RealLists DEF Known, Idle, NoObject
  <2>6. g.at = "idle" /\ g.self = NoObject /\ g.held = <<>> /\ g.owed = <<>>
        /\ Idle.at = "idle" /\ Idle.self = NoObject
    BY DEF Idle
  <2>7. \A c \in Call : c.held = <<>> /\ c.self = NoObject /\ c.owed = <<>> =>
          \A o : o # NoObject => RefsOf(c, o) = 0
    <3> SUFFICES ASSUME NEW c \in Call, c.held = <<>>, c.self = NoObject,
                        c.owed = <<>>, NEW o, o # NoObject
                 PROVE  RefsOf(c, o) = 0
      OBVIOUS
    <3>1. RefsOf(c, o) = Count(c.held, o) + Count(Owed(c), o) + OnSelf(c, o)
      BY ReferencesCount DEF RefsOf
    <3>2. Owed(c) = <<>> /\ OnSelf(c, o) = 0
      BY DEF Owed, OnSelf
    <3>3. Count(<<>>, o) = 0
      BY CountEmpty
    <3> QED
      BY <3>1, <3>2, <3>3
  <2> HIDE DEF g
  <2>8. Settled(e) = g \/ Settled(e) = Idle
    BY <1>2 DEF Settled, g
  <2>9. \A o : o # NoObject => RefsOf(g, o) = 0 /\ RefsOf(e, o) = 0
    BY <2>1, <2>3, <2>6, <2>7
  <2> QED
    BY <2>1, <2>3, <2>4, <2>5, <2>6, <2>8, <2>9, IdleFits
<1> QED
  BY <1>1, <1>2

(* The entries of a list of names.                                         *)
LEMMA NatEntries ==
  ASSUME NEW list \in Seq(Nat)
  PROVE  \A k \in DOMAIN list : list[k] \in Nat
OBVIOUS

(* A larger number of known objects.                                       *)
LEMMA KnownGrows ==
  ASSUME NEW c \in Call, NEW n \in Nat, NEW m \in Nat, n <= m, Known(c, n)
  PROVE  Known(c, m)
<1>1. c.self \in Nat /\ c.surface \in Nat /\ c.on \in Nat
      /\ c.ids \in Seq(Nat) /\ c.targets \in Seq(Nat) /\ c.held \in Seq(Nat)
  BY DEF Call
<1>2. /\ \A k \in DOMAIN c.ids : c.ids[k] \in Nat
      /\ \A k \in DOMAIN c.targets : c.targets[k] \in Nat
      /\ \A k \in DOMAIN c.held : c.held[k] \in Nat
  BY <1>1, NatEntries, Zenon
<1>3. /\ c.self <= m /\ c.surface <= m /\ c.on <= m
      /\ \A k \in DOMAIN c.ids : c.ids[k] <= m
      /\ \A k \in DOMAIN c.targets : c.targets[k] <= m
  BY <1>1, <1>2 DEF Known
<1>4. \A k \in DOMAIN c.held : c.held[k] <= m /\ c.held[k] # NoObject
  BY <1>2 DEF Known
<1> QED
  BY <1>3, <1>4 DEF Known

(* One thread goes on with its call.                                       *)
LEMMA CallStep ==
  ASSUME TypeInv, made' \in Nat, made <= made',
         NEW t \in Threads, NEW e \in Call, CallFits(e), Known(e, made'),
         Goes(t, e)
  PROVE  /\ CallsFit' /\ (call = [u \in Threads |-> call[u]])'
         /\ call'[t] = Settled(e)
         /\ \A u \in Threads \ {t} : call'[u] = call[u]
         /\ \A o : o # NoObject =>
              /\ CallRefs(call', o) =
                   CallRefs(call, o) - RefsOf(call[t], o) + RefsOf(e, o)
              /\ RefsOf(call[t], o) <= CallRefs(call, o)
              /\ RefsOf(call[t], o) \in Nat /\ RefsOf(e, o) \in Nat
              /\ CallRefs(call, o) \in Nat
<1>1. call' = [call EXCEPT ![t] = Settled(e)]
  BY DEF Goes, Settled
<1>2. /\ Settled(e) \in Call /\ CallFits(Settled(e))
      /\ Known(Settled(e), made')
      /\ \A o : o # NoObject => RefsOf(Settled(e), o) = RefsOf(e, o)
  BY SettledFits
<1>3. call = [u \in Threads |-> call[u]] /\ made \in Nat /\ Calls(call)
  BY DEF TypeInv, ObjectsFit, CallsFit, Calls
<1>4. /\ call'[t] = Settled(e)
      /\ \A u \in Threads \ {t} : call'[u] = call[u]
      /\ call' = [u \in Threads |-> call'[u]]
  BY <1>1, <1>3
<1>5. CallsFit'
  <2> SUFFICES ASSUME NEW u \in Threads
               PROVE  call'[u] \in Call /\ CallFits(call'[u])
                      /\ Known(call'[u], made')
    BY DEF CallsFit, Known, CallFits, Holds, OnSurface, Buffer
  <2>1. CASE u = t
    BY <1>2, <1>4, <2>1
  <2>2. CASE u # t
    <3>1. call[u] \in Call /\ CallFits(call[u]) /\ Known(call[u], made)
      BY DEF TypeInv, CallsFit
    <3>2. Known(call[u], made')
      BY <1>3, <3>1, KnownGrows
    <3> QED
      BY <1>4, <2>2, <3>1, <3>2
  <2> QED
    BY <2>1, <2>2
<1>6. ASSUME NEW o, o # NoObject
      PROVE  /\ CallRefs(call', o) =
                  CallRefs(call, o) - RefsOf(call[t], o) + RefsOf(e, o)
             /\ RefsOf(call[t], o) <= CallRefs(call, o)
             /\ RefsOf(call[t], o) \in Nat /\ RefsOf(e, o) \in Nat
             /\ CallRefs(call, o) \in Nat
  <2>1. /\ CallRefs([call EXCEPT ![t] = Settled(e)], o) =
             CallRefs(call, o) - RefsOf(call[t], o) + RefsOf(Settled(e), o)
        /\ RefsOf(call[t], o) <= CallRefs(call, o)
        /\ RefsOf(call[t], o) \in Nat /\ RefsOf(Settled(e), o) \in Nat
        /\ CallRefs(call, o) \in Nat
    BY <1>2, <1>3, CallChange
  <2> QED
    BY <1>1, <1>2, <1>6, <2>1
<1> QED
  BY <1>4, <1>5, <1>6

(***************************************************************************)
(* The frame of every step of a thread.                                    *)
(***************************************************************************)
(* An object of obj2 has the type it had in obj, or is newer than n.       *)
TypesKept(obj, obj2, n) ==
  \A p \in DOMAIN obj2 :
    \/ p \in DOMAIN obj /\ obj2[p].type = obj[p].type
    \/ p > n

(* The names a call uses keep their type.                                  *)
LEMMA NamedKept ==
  ASSUME NEW c \in Call, NEW n \in Nat, Known(c, n), CallFits(c),
         NEW obj, NEW obj2, TypesKept(obj, obj2, n), Named(c, obj)
  PROVE  Named(c, obj2)
<1>1. \A o, type : o \in Nat /\ o <= n /\ IsA(obj, o, type) =>
                     IsA(obj2, o, type)
  BY DEF TypesKept, IsA
<1>2. /\ c.surface \in Nat /\ c.on \in Nat /\ c.ids \in Seq(Nat)
      /\ c.targets \in Seq(Nat) /\ c.held \in Seq(Nat)
  BY DEF Call
<1>3. /\ c.surface <= n /\ c.on <= n
      /\ \A k \in DOMAIN c.ids : c.ids[k] \in Nat /\ c.ids[k] <= n
      /\ \A k \in DOMAIN c.targets : c.targets[k] \in Nat /\ c.targets[k] <= n
      /\ \A k \in DOMAIN c.held : c.held[k] \in Nat /\ c.held[k] <= n
  <2>1. /\ \A k \in DOMAIN c.ids : c.ids[k] \in Nat
        /\ \A k \in DOMAIN c.targets : c.targets[k] \in Nat
        /\ \A k \in DOMAIN c.held : c.held[k] \in Nat
    BY <1>2, NatEntries, Zenon
  <2> QED BY <2>1 DEF Known
<1>4. ASSUME c.at = "enqueue"
      PROVE  c.held[2] \in Nat /\ c.held[2] <= n
  <2>1. c.held = <<c.on, c.held[2]>>
    BY <1>4 DEF CallFits, Holds
  <2>2. 2 \in DOMAIN c.held
    BY <2>1
  <2> QED
    BY <1>3, <2>2
<1> QED
  BY <1>1, <1>2, <1>3, <1>4 DEF Named

(* The call of a thread that is over names nothing of another type.        *)
LEMMA SettledNamed ==
  ASSUME NEW e \in Call, CallFits(e), NEW obj, NoObject \notin DOMAIN obj,
         Named(e, obj), SelfFits(e, obj)
  PROVE  Named(Settled(e), obj) /\ SelfFits(Settled(e), obj)
<1>1. Named(Idle, obj) /\ SelfFits(Idle, obj)
  BY DEF Named, SelfFits, Idle, IsA
<1>2. /\ Named([Idle EXCEPT !.failed = TRUE, !.ids = e.ids], obj)
      /\ SelfFits([Idle EXCEPT !.failed = TRUE, !.ids = e.ids], obj)
  BY DEF Named, SelfFits, Idle, IsA
<1> QED
  BY <1>1, <1>2 DEF Settled

ObjectsFitNext ==
  /\ made' \in Nat /\ made <= made'
  /\ heap' \subseteq 1 .. made'
  /\ DOMAIN store'.obj \subseteq 1 .. made'
  /\ store' = [obj |-> store'.obj, open |-> store'.open,
               sane |-> store'.sane]
  /\ store'.obj = [p \in DOMAIN store'.obj |-> store'.obj[p]]
  /\ \A p \in DOMAIN store'.obj : store'.obj[p] \in Object
  /\ store'.open \subseteq Resources
  /\ store'.sane = TRUE
  /\ up' \in BOOLEAN

(* What a step of thread t that goes on with e has to respect.             *)
StepFits(t, e) ==
  /\ e \in Call /\ CallFits(e) /\ Known(e, made')
  /\ ObjectsFitNext
  /\ TypesKept(store.obj, store'.obj, made)
  /\ Named(e, store'.obj) /\ SelfFits(e, store'.obj)
  /\ \A u \in Threads \ {t} : SelfFits(call[u], store'.obj)
  /\ ~up' => heap' = {} /\ e.at = "idle"
             /\ \A u \in Threads \ {t} : call[u].at = "idle"
  /\ \A o \in Nat \ {NoObject} :
       Balanced(store'.obj, o,
                InHeap(heap', o) + LinkRefs(store'.obj, o) +
                (CallRefs(call, o) - RefsOf(call[t], o) + RefsOf(e, o)))

(* Such a step keeps the invariant.                                        *)
LEMMA StepKeeps ==
  ASSUME RefInv, NEW t \in Threads, NEW e, StepFits(t, e), Goes(t, e),
         LinksFit'
  PROVE  RefInv'
<1>1. /\ e \in Call /\ CallFits(e) /\ Known(e, made')
      /\ made' \in Nat /\ made <= made' /\ TypeInv /\ made \in Nat
  BY DEF StepFits, ObjectsFitNext, RefInv, TypeInv, ObjectsFit
<1>2. /\ CallsFit' /\ (call = [u \in Threads |-> call[u]])'
      /\ call'[t] = Settled(e)
      /\ \A u \in Threads \ {t} : call'[u] = call[u]
      /\ \A o : o # NoObject =>
              CallRefs(call', o) =
                   CallRefs(call, o) - RefsOf(call[t], o) + RefsOf(e, o)
  BY <1>1, CallStep
<1>3. TypeInv'
  <2>1. ObjectsFit'
    BY <1>2 DEF StepFits, ObjectsFitNext, ObjectsFit
  <2> QED
    BY <1>2, <2>1 DEF TypeInv
<1>4. NamesFit'
  <2> SUFFICES ASSUME NEW u \in Threads
               PROVE  Named(call'[u], store'.obj)
                      /\ SelfFits(call'[u], store'.obj)
    BY DEF NamesFit, Named, SelfFits, IsA
  <2>1. CASE u = t
    <3>1. NoObject \notin DOMAIN store'.obj
      BY DEF StepFits, ObjectsFitNext, NoObject
    <3>2. Named(e, store'.obj) /\ SelfFits(e, store'.obj)
      BY DEF StepFits
    <3>3. Named(Settled(e), store'.obj) /\ SelfFits(Settled(e), store'.obj)
      BY <1>1, <3>1, <3>2, SettledNamed
    <3> QED
      BY <1>2, <2>1, <3>3
  <2>2. CASE u # t
    <3>1. /\ call[u] \in Call /\ CallFits(call[u]) /\ Known(call[u], made)
          /\ Named(call[u], store.obj)
      BY DEF RefInv, TypeInv, CallsFit, NamesFit
    <3>2. TypesKept(store.obj, store'.obj, made)
          /\ SelfFits(call[u], store'.obj)
      BY <2>2 DEF StepFits
    <3>3. Named(call[u], store'.obj)
      BY <1>1, <3>1, <3>2, NamedKept
    <3> QED
      BY <1>2, <2>2, <3>2, <3>3
  <2> QED
    BY <2>1, <2>2
<1>5. DownFits'
  <2> SUFFICES ASSUME ~up'
               PROVE  heap' = {} /\ \A u \in Threads : call'[u].at = "idle"
    BY DEF DownFits
  <2>1. /\ heap' = {} /\ e.at = "idle"
        /\ \A u \in Threads \ {t} : call[u].at = "idle"
    BY DEF StepFits
  <2>2. Settled(e).at = "idle"
    BY <1>1, <2>1, SettledFits
  <2> QED
    BY <1>2, <2>1, <2>2
<1>6. Balance'
  <2>1. store'.sane
    BY DEF StepFits, ObjectsFitNext
  <2>2. ASSUME NEW o \in Nat \ {NoObject}
        PROVE  Balanced(store'.obj, o, HeldBy(heap', store'.obj, call', o))
    <3>1. CallRefs(call', o) =
            CallRefs(call, o) - RefsOf(call[t], o) + RefsOf(e, o)
      BY <1>2
    <3>2. Balanced(store'.obj, o,
                InHeap(heap', o) + LinkRefs(store'.obj, o) +
                (CallRefs(call, o) - RefsOf(call[t], o) + RefsOf(e, o)))
      BY DEF StepFits
    <3> QED
      BY <3>1, <3>2 DEF HeldBy
  <2>3. (store.sane)' = store'.sane
    OBVIOUS
  <2> QED
    BY <2>1, <2>2 DEF Balance, Balanced, HeldBy, InHeap, LinkRefs, CallRefs,
                      LinkFamily, CallFamily
<1> QED
  BY <1>3, <1>4, <1>5, <1>6 DEF RefInv

-----------------------------------------------------------------------------
(***************************************************************************)
(* What a reference says about its object.                                 *)
(***************************************************************************)

(* A list without o has no occurrence of it.                               *)
LEMMA CountNone ==
  ASSUME NEW list \in Seq(Nat), NEW o
  PROVE  /\ Count(list, o) \in Nat
         /\ Count(list, o) = 0 <=> \A k \in DOMAIN list : list[k] # o
<1>1. Len(list) \in Nat /\ DOMAIN list = 1 .. Len(list)
  OBVIOUS
<1>2. IsFiniteSet(Positions(list, o)) /\ Count(list, o) \in Nat
  BY <1>1, PositionsFinite
<1>3. Cardinality(Positions(list, o)) = 0 <=> Positions(list, o) = {}
  BY <1>2, FS_EmptySet
<1> QED
  BY <1>2, <1>3 DEF Count, Positions

(* What a call owes, as a list of duties.                                  *)
LEMMA OwedDue ==
  ASSUME NEW c \in Call, NEW o
  PROVE  /\ RefsOf(c, o) =
              Count(c.held, o) + Count(Due(c.owed), o) + OnSelf(c, o)
         /\ Count(c.held, o) \in Nat /\ Count(Due(c.owed), o) \in Nat
         /\ OnSelf(c, o) \in Nat /\ RefsOf(c, o) \in Nat
<1>1. Owed(c) = Due(c.owed)
  BY DEF Owed, Due
<1>2. /\ Count(References(c), o) =
              Count(c.held, o) + Count(Owed(c), o) + OnSelf(c, o)
      /\ Count(c.held, o) \in Nat /\ Count(Owed(c), o) \in Nat
      /\ OnSelf(c, o) \in Nat
  BY ReferencesCount
<1> QED
  BY <1>1, <1>2 DEF RefsOf

(* The objects of a state are a finite function.                           *)
LEMMA ObjectsStand ==
  ASSUME TypeInv
  PROVE  /\ Objects(store.obj)
         /\ store.obj = [p \in DOMAIN store.obj |-> store.obj[p]]
         /\ NoObject \notin DOMAIN store.obj
         /\ made + 1 \notin DOMAIN store.obj
         /\ Calls(call) /\ call = [u \in Threads |-> call[u]]
<1>1. made \in Nat /\ DOMAIN store.obj \subseteq 1 .. made
  BY DEF TypeInv, ObjectsFit
<1>2. IsFiniteSet(DOMAIN store.obj)
  BY <1>1, FS_Interval, FS_Subset
<1>3. Objects(store.obj)
  BY <1>2 DEF TypeInv, ObjectsFit, Objects
<1> QED
  BY <1>1, <1>3 DEF TypeInv, ObjectsFit, NoObject, CallsFit, Calls

(* The references of two calls.                                            *)
LEMMA TwoCalls ==
  ASSUME NEW cs, Calls(cs), NEW t \in Threads, NEW u \in Threads, t # u, NEW o
  PROVE  /\ RefsOf(cs[t], o) + RefsOf(cs[u], o) <= CallRefs(cs, o)
         /\ RefsOf(cs[t], o) \in Nat /\ RefsOf(cs[u], o) \in Nat
         /\ CallRefs(cs, o) \in Nat
<1> DEFINE F == CallFamily(cs)
           G == Other(F, t)
<1>1. IsFamily(F)
  BY CallFamilyFits
<1>2. /\ t \in DOMAIN F /\ u \in DOMAIN G
      /\ F[t] = References(cs[t]) /\ G[u] = References(cs[u])
  BY DEF CallFamily, Other
<1>3. CallRefs(cs, o) = Occurrences(F, o)
  BY DEF CallRefs
<1> HIDE DEF F
<1>4. IsFamily(G)
  BY <1>1, OtherFamily
<1>5. /\ Occurrences(F, o) = Occurrences(G, o) + Count(F[t], o)
      /\ Occurrences(G, o) \in Nat /\ Count(F[t], o) \in Nat
  BY <1>1, <1>2, OccurrencesSplit
<1> HIDE DEF G
<1>6. /\ Occurrences(G, o) = Occurrences(Other(G, u), o) + Count(G[u], o)
      /\ Occurrences(Other(G, u), o) \in Nat /\ Count(G[u], o) \in Nat
  BY <1>2, <1>4, OccurrencesSplit
<1> QED
  BY <1>2, <1>3, <1>5, <1>6 DEF RefsOf

(* The references on an object add up to its count.                        *)
LEMMA RefsAdd ==
  ASSUME RefInv, NEW o, o # NoObject, NEW t \in Threads
  PROVE  /\ LinkRefs(store.obj, o) \in Nat /\ CallRefs(call, o) \in Nat
         /\ RefsOf(call[t], o) \in Nat
         /\ RefsOf(call[t], o) <= CallRefs(call, o)
         /\ o \in DOMAIN store.obj =>
              /\ store.obj[o].refs \in Nat /\ store.obj[o].refs > 0
              /\ store.obj[o].refs = InHeap(heap, o) + LinkRefs(store.obj, o) +
                                     CallRefs(call, o)
         /\ o \in Nat /\ o \notin DOMAIN store.obj =>
              /\ o \notin heap /\ LinkRefs(store.obj, o) = 0
              /\ CallRefs(call, o) = 0 /\ RefsOf(call[t], o) = 0
<1>1. TypeInv
  BY DEF RefInv
<1>2. LinkRefs(store.obj, o) \in Nat
  BY <1>1, ObjectsStand, LinkFamilyFits
<1>3. /\ CallRefs(call, o) \in Nat /\ RefsOf(call[t], o) \in Nat
      /\ RefsOf(call[t], o) <= CallRefs(call, o)
  <2>1. call[t] \in Call
    BY <1>1 DEF TypeInv, CallsFit
  <2> QED
    BY <1>1, <2>1, ObjectsStand, CallChange
<1>4. InHeap(heap, o) \in {0, 1} /\ (InHeap(heap, o) = 0 <=> o \notin heap)
  BY DEF InHeap
<1>5. ASSUME o \in DOMAIN store.obj
      PROVE  /\ store.obj[o].refs \in Nat /\ store.obj[o].refs > 0
             /\ store.obj[o].refs = InHeap(heap, o) + LinkRefs(store.obj, o) +
                                     CallRefs(call, o)
  <2>1. o \in Nat \ {NoObject} /\ store.obj[o] \in Object
    BY <1>1, <1>5 DEF TypeInv, ObjectsFit
  <2>2. Balanced(store.obj, o, HeldBy(heap, store.obj, call, o))
    BY <2>1 DEF RefInv, Balance
  <2> QED
    BY <1>5, <2>1, <2>2 DEF Balanced, HeldBy, Object
<1>6. ASSUME o \in Nat, o \notin DOMAIN store.obj
      PROVE  /\ o \notin heap /\ LinkRefs(store.obj, o) = 0
             /\ CallRefs(call, o) = 0 /\ RefsOf(call[t], o) = 0
  <2>1. Balanced(store.obj, o, HeldBy(heap, store.obj, call, o))
    BY <1>6 DEF RefInv, Balance
  <2>2. InHeap(heap, o) + LinkRefs(store.obj, o) + CallRefs(call, o) = 0
    BY <1>6, <2>1 DEF Balanced, HeldBy
  <2> QED
    BY <1>2, <1>3, <1>4, <2>2
<1> QED
  BY <1>2, <1>3, <1>5, <1>6

(* The object a call constructs is that call's alone.                      *)
LEMMA SelfAlone ==
  ASSUME RefInv, NEW u \in Threads, call[u].self # NoObject
  PROVE  LET s == call[u].self
         IN /\ s \in DOMAIN store.obj /\ s \notin heap
            /\ store.obj[s].refs = 1
            /\ LinkRefs(store.obj, s) = 0
            /\ CallRefs(call, s) = 1
            /\ Count(call[u].held, s) = 0 /\ Count(Due(call[u].owed), s) = 0
            /\ \A t \in Threads \ {u} : /\ RefsOf(call[t], s) = 0
                                        /\ call[t].self # s
<1> DEFINE s == call[u].self
<1>1. /\ s \in DOMAIN store.obj /\ store.obj[s].refs = 1
      /\ call[u] \in Call /\ Calls(call) /\ s # NoObject
  BY ObjectsStand DEF RefInv, NamesFit, SelfFits, TypeInv, CallsFit
<1>2. OnSelf(call[u], s) = 1
  BY DEF OnSelf
<1> HIDE DEF s
<1>3. /\ RefsOf(call[u], s) = Count(call[u].held, s) +
                              Count(Due(call[u].owed), s) + OnSelf(call[u], s)
      /\ Count(call[u].held, s) \in Nat /\ Count(Due(call[u].owed), s) \in Nat
  BY <1>1, OwedDue
<1>4. /\ LinkRefs(store.obj, s) \in Nat /\ CallRefs(call, s) \in Nat
      /\ RefsOf(call[u], s) <= CallRefs(call, s)
      /\ 1 = InHeap(heap, s) + LinkRefs(store.obj, s) + CallRefs(call, s)
  BY <1>1, RefsAdd
<1>5. InHeap(heap, s) \in {0, 1} /\ (InHeap(heap, s) = 0 <=> s \notin heap)
  BY DEF InHeap
<1>6. /\ InHeap(heap, s) = 0 /\ LinkRefs(store.obj, s) = 0
      /\ CallRefs(call, s) = 1 /\ RefsOf(call[u], s) = 1
      /\ Count(call[u].held, s) = 0 /\ Count(Due(call[u].owed), s) = 0
  BY <1>2, <1>3, <1>4, <1>5
<1>7. ASSUME NEW t \in Threads \ {u}
      PROVE  RefsOf(call[t], s) = 0 /\ call[t].self # s
  <2>1. /\ RefsOf(call[t], s) + RefsOf(call[u], s) <= CallRefs(call, s)
        /\ RefsOf(call[t], s) \in Nat
    BY <1>1, TwoCalls
  <2>2. RefsOf(call[t], s) = 0
    BY <1>6, <2>1
  <2>3. call[t] \in Call
    BY <1>1 DEF Calls
  <2>4. /\ RefsOf(call[t], s) = Count(call[t].held, s) +
                              Count(Due(call[t].owed), s) + OnSelf(call[t], s)
        /\ Count(call[t].held, s) \in Nat
        /\ Count(Due(call[t].owed), s) \in Nat
        /\ OnSelf(call[t], s) \in Nat
    BY <2>3, OwedDue
  <2>5. OnSelf(call[t], s) = 0
    BY <2>2, <2>4
  <2> QED
    BY <2>2, <2>5 DEF OnSelf
<1> QED
  BY <1>1, <1>5, <1>6, <1>7 DEF s

(* What thread t may change: anything but another call's construction.     *)
Reachable(t, o) ==
  o \in heap \/ LinkRefs(store.obj, o) > 0 \/ RefsOf(call[t], o) > 0

(* The constructions of other threads are left alone.                      *)
LEMMA OthersKept ==
  ASSUME RefInv, NEW t \in Threads, NEW obj2,
         \A p \in DOMAIN store.obj :
           \/ Reachable(t, p)
           \/ /\ p \in DOMAIN obj2 /\ obj2[p].refs = store.obj[p].refs
              /\ obj2[p].type = store.obj[p].type
  PROVE  \A u \in Threads \ {t} : SelfFits(call[u], obj2)
<1> SUFFICES ASSUME NEW u \in Threads \ {t}, call[u].self # NoObject
             PROVE  /\ call[u].self \in DOMAIN obj2
                    /\ obj2[call[u].self].refs = 1
                    /\ obj2[call[u].self].type = Makes(call[u].at)
  BY DEF SelfFits
<1> DEFINE s == call[u].self
<1>1. /\ s \in DOMAIN store.obj /\ s \notin heap /\ store.obj[s].refs = 1
      /\ LinkRefs(store.obj, s) = 0 /\ RefsOf(call[t], s) = 0
  BY SelfAlone
<1>2. ~Reachable(t, s)
  BY <1>1 DEF Reachable
<1>3. store.obj[s].type = Makes(call[u].at)
  BY DEF RefInv, NamesFit, SelfFits
<1> QED
  BY <1>1, <1>2, <1>3

-----------------------------------------------------------------------------
(***************************************************************************)
(* Changes of the objects in memory.                                       *)
(***************************************************************************)
LinksOk(obj) ==
  \A p \in DOMAIN obj :
    /\ \A slot \in Slots :
         /\ obj[p].links[slot] # <<>> => obj[p].type = OwnerOf(slot)
         /\ \A k \in DOMAIN obj[p].links[slot] :
              /\ obj[p].links[slot][k] \in DOMAIN obj
              /\ IsA(obj, obj[p].links[slot][k], TargetOf(slot))
    /\ obj[p].type = "image" => Len(obj[p].links["buffer"]) = 1
    /\ Len(obj[p].links["render"]) <= 1

Well(obj) == /\ Objects(obj) /\ obj = [p \in DOMAIN obj |-> obj[p]]
             /\ LinksOk(obj)

(* The objects of the state are well.                                      *)
LEMMA StoreWell ==
  ASSUME RefInv
  PROVE  Well(store.obj)
BY ObjectsStand DEF RefInv, LinksFit, LinksOk, Well

(* The same objects, of the same types.                                    *)
SameTypes(obj, obj2) ==
  DOMAIN obj2 = DOMAIN obj /\ \A p \in DOMAIN obj : obj2[p].type = obj[p].type

SameLinks(obj, obj2) ==
  /\ SameTypes(obj, obj2)
  /\ obj2 = [p \in DOMAIN obj2 |-> obj2[p]]
  /\ \A p \in DOMAIN obj : obj2[p] \in Object /\ obj2[p].links = obj[p].links

(* An object's references or raw resources change.                         *)
LEMMA LinksKept ==
  ASSUME NEW obj, Well(obj), NEW obj2, SameLinks(obj, obj2)
  PROVE  Well(obj2) /\ \A o : LinkRefs(obj2, o) = LinkRefs(obj, o)
<1>1. Objects(obj2) /\ obj2 = [p \in DOMAIN obj2 |-> obj2[p]]
  BY DEF Well, Objects, SameLinks, SameTypes
<1>2. LinksOk(obj2)
  BY DEF Well, LinksOk, SameLinks, SameTypes, IsA
<1>3. LinkFamily(obj2) = LinkFamily(obj)
  BY DEF LinkFamily, SameLinks, SameTypes, Links
<1> QED
  BY <1>1, <1>2, <1>3 DEF Well, LinkRefs

(* The reference count of an object changes.                               *)
LEMMA RefsSet ==
  ASSUME NEW obj, Well(obj), NEW o \in DOMAIN obj, NEW r \in Nat
  PROVE  LET obj2 == [obj EXCEPT ![o].refs = r]
         IN /\ SameLinks(obj, obj2) /\ obj2[o].refs = r
            /\ \A p \in DOMAIN obj : /\ p # o => obj2[p].refs = obj[p].refs
                                     /\ obj2[p].raw = obj[p].raw
<1>1. /\ \A p \in DOMAIN obj : obj[p] \in Object
      /\ obj = [p \in DOMAIN obj |-> obj[p]]
  BY DEF Well, Objects
<1>2. [obj[o] EXCEPT !.refs = r] \in Object
  BY <1>1 DEF Object
<1>3. /\ [obj[o] EXCEPT !.refs = r].links = obj[o].links
      /\ [obj[o] EXCEPT !.refs = r].type = obj[o].type
      /\ [obj[o] EXCEPT !.refs = r].refs = r
      /\ [obj[o] EXCEPT !.refs = r].raw = obj[o].raw
  BY <1>1 DEF Object
<1> QED
  BY <1>1, <1>2, <1>3 DEF SameLinks, SameTypes

(* The raw resources of an object change.                                  *)
LEMMA RawSet ==
  ASSUME NEW obj, Well(obj), NEW o \in DOMAIN obj, NEW rs \in SUBSET Resources
  PROVE  LET obj2 == [obj EXCEPT ![o].raw = rs]
         IN /\ SameLinks(obj, obj2) /\ obj2[o].raw = rs
            /\ \A p \in DOMAIN obj : /\ p # o => obj2[p].raw = obj[p].raw
                                     /\ obj2[p].refs = obj[p].refs
<1>1. /\ \A p \in DOMAIN obj : obj[p] \in Object
      /\ obj = [p \in DOMAIN obj |-> obj[p]]
  BY DEF Well, Objects
<1>2. [obj[o] EXCEPT !.raw = rs] \in Object
  BY <1>1 DEF Object
<1>3. /\ [obj[o] EXCEPT !.raw = rs].links = obj[o].links
      /\ [obj[o] EXCEPT !.raw = rs].type = obj[o].type
      /\ [obj[o] EXCEPT !.raw = rs].refs = obj[o].refs
      /\ [obj[o] EXCEPT !.raw = rs].raw = rs
  BY <1>1 DEF Object
<1> QED
  BY <1>1, <1>2, <1>3 DEF SameLinks, SameTypes

(* A list that may be put in a slot of an object.                          *)
FitsSlot(obj, o, slot, list) ==
  /\ list \in Seq(Nat)
  /\ slot = "render" => Len(list) <= 1
  /\ list # <<>> => obj[o].type = OwnerOf(slot)
  /\ \A k \in DOMAIN list : /\ list[k] \in DOMAIN obj
                            /\ IsA(obj, list[k], TargetOf(slot))

(* One slot of an object changes.                                          *)
LEMMA LinksSet ==
  ASSUME NEW obj, Well(obj), NEW o \in DOMAIN obj, NEW slot \in Slots,
         slot # "buffer", NEW list, FitsSlot(obj, o, slot, list)
  PROVE  LET obj2 == [obj EXCEPT ![o].links[slot] = list]
         IN /\ Well(obj2) /\ SameTypes(obj, obj2)
            /\ \A p \in DOMAIN obj : /\ obj2[p].refs = obj[p].refs
                                     /\ obj2[p].raw = obj[p].raw
                                     /\ p # o => obj2[p] = obj[p]
            /\ obj2[o].links[slot] = list
            /\ \A s \in Slots \ {slot} : obj2[o].links[s] = obj[o].links[s]
            /\ \A x : /\ LinkRefs(obj2, x) = LinkRefs(obj, x) -
                           Count(obj[o].links[slot], x) + Count(list, x)
                      /\ Count(obj[o].links[slot], x) <= LinkRefs(obj, x)
                      /\ Count(obj[o].links[slot], x) \in Nat
                      /\ Count(list, x) \in Nat
                      /\ LinkRefs(obj, x) \in Nat
<1> DEFINE y    == [obj[o] EXCEPT !.links[slot] = list]
           obj2 == [obj EXCEPT ![o].links[slot] = list]
<1>1. /\ obj[o] \in Object /\ obj = [p \in DOMAIN obj |-> obj[p]]
      /\ Objects(obj) /\ LinksOk(obj) /\ list \in Seq(Nat)
      /\ \A p \in DOMAIN obj : obj[p] \in Object
  BY DEF Well, Objects, FitsSlot
<1>2. obj[o].links \in [Slots -> Seq(Nat)]
  BY <1>1 DEF Object
<1>3. /\ y \in Object /\ y.type = obj[o].type /\ y.refs = obj[o].refs
      /\ y.raw = obj[o].raw
      /\ y.links = [obj[o].links EXCEPT ![slot] = list]
  BY <1>1, <1>2 DEF Object
<1>4. /\ y.links[slot] = list
      /\ \A s \in Slots : s # slot => y.links[s] = obj[o].links[s]
  BY <1>2, <1>3
<1>5. obj2 = [obj EXCEPT ![o] = y]
  BY <1>1
<1> HIDE DEF y, obj2
<1>6. /\ DOMAIN obj2 = DOMAIN obj /\ obj2[o] = y
      /\ \A p \in DOMAIN obj : p # o => obj2[p] = obj[p]
      /\ obj2 = [p \in DOMAIN obj2 |-> obj2[p]]
  BY <1>1, <1>5
<1>7. SameTypes(obj, obj2) /\ Objects(obj2)
  BY <1>1, <1>3, <1>6 DEF SameTypes, Objects
<1>8. LinksOk(obj2)
  <2> SUFFICES ASSUME NEW p \in DOMAIN obj2
               PROVE
        /\ \A s \in Slots :
             /\ obj2[p].links[s] # <<>> => obj2[p].type = OwnerOf(s)
             /\ \A k \in DOMAIN obj2[p].links[s] :
                  /\ obj2[p].links[s][k] \in DOMAIN obj2
                  /\ IsA(obj2, obj2[p].links[s][k], TargetOf(s))
        /\ obj2[p].type = "image" => Len(obj2[p].links["buffer"]) = 1
        /\ Len(obj2[p].links["render"]) <= 1
    BY DEF LinksOk
  <2>1. \A q, type : IsA(obj, q, type) => IsA(obj2, q, type)
    BY <1>7 DEF IsA, SameTypes
  <2>2. \A s \in Slots :
             /\ obj[p].links[s] # <<>> => obj[p].type = OwnerOf(s)
             /\ \A k \in DOMAIN obj[p].links[s] :
                  /\ obj[p].links[s][k] \in DOMAIN obj
                  /\ IsA(obj, obj[p].links[s][k], TargetOf(s))
    BY <1>1, <1>6 DEF LinksOk
  <2>3. /\ obj[p].type = "image" => Len(obj[p].links["buffer"]) = 1
        /\ Len(obj[p].links["render"]) <= 1
    BY <1>1, <1>6 DEF LinksOk
  <2>4. CASE p # o
    BY <1>6, <2>1, <2>2, <2>3, <2>4
  <2>5. CASE p = o
    <3>1. "buffer" \in Slots /\ "render" \in Slots
      BY DEF Slots
    <3>3. Len(obj2[p].links["render"]) <= 1
      BY <1>4, <1>6, <2>3, <2>5, <3>1 DEF FitsSlot
    <3>2. ASSUME NEW s \in Slots
          PROVE  /\ obj2[p].links[s] # <<>> => obj2[p].type = OwnerOf(s)
                 /\ \A k \in DOMAIN obj2[p].links[s] :
                      /\ obj2[p].links[s][k] \in DOMAIN obj2
                      /\ IsA(obj2, obj2[p].links[s][k], TargetOf(s))
      <4>1. CASE s = slot
        BY <1>3, <1>4, <1>6, <2>1, <2>5, <4>1 DEF FitsSlot
      <4>2. CASE s # slot
        BY <1>3, <1>4, <1>6, <2>1, <2>2, <2>5, <4>2
      <4> QED
        BY <4>1, <4>2
    <3> QED
      BY <1>3, <1>4, <1>6, <2>3, <2>5, <3>1, <3>2, <3>3
  <2> QED
    BY <2>4, <2>5
<1>9. ASSUME NEW x
      PROVE  /\ LinkRefs(obj2, x) = LinkRefs(obj, x) -
                           Count(obj[o].links[slot], x) + Count(list, x)
             /\ Count(obj[o].links[slot], x) <= LinkRefs(obj, x)
             /\ Count(obj[o].links[slot], x) \in Nat
             /\ Count(list, x) \in Nat
             /\ LinkRefs(obj, x) \in Nat
  <2>1. /\ LinkRefs([obj EXCEPT ![o] = y], x) =
              LinkRefs(obj, x) - Count(Links(obj[o]), x) + Count(Links(y), x)
        /\ Count(Links(obj[o]), x) <= LinkRefs(obj, x)
        /\ Count(Links(obj[o]), x) \in Nat /\ Count(Links(y), x) \in Nat
        /\ LinkRefs(obj, x) \in Nat
    BY <1>1, <1>3, LinkChange
  <2> DEFINE A(s) == Count(obj[o].links[s], x)
             B(s) == Count(y.links[s], x)
  <2>2. /\ Count(Links(obj[o]), x) = A("job") + A("route") + A("target") +
                                     A("render") + A("surface") + A("buffer")
        /\ \A s \in Slots : A(s) \in Nat
    BY <1>1, LinksCount
  <2>3. /\ Count(Links(y), x) = B("job") + B("route") + B("target") +
                                B("render") + B("surface") + B("buffer")
        /\ \A s \in Slots : B(s) \in Nat
    BY <1>3, LinksCount
  <2>4. /\ B(slot) = Count(list, x) /\ A(slot) = Count(obj[o].links[slot], x)
        /\ \A s \in Slots : s # slot => B(s) = A(s)
    BY <1>4
  <2> HIDE DEF A, B
  <2>5. /\ Count(Links(y), x) = Count(Links(obj[o]), x) - A(slot) + B(slot)
        /\ A(slot) <= Count(Links(obj[o]), x)
        /\ A(slot) \in Nat /\ B(slot) \in Nat
    <3>1. /\ A("job") \in Nat /\ A("route") \in Nat /\ A("target") \in Nat
          /\ A("render") \in Nat /\ A("surface") \in Nat
          /\ A("buffer") \in Nat /\ B("job") \in Nat /\ B("route") \in Nat
          /\ B("target") \in Nat /\ B("render") \in Nat
          /\ B("surface") \in Nat /\ B("buffer") \in Nat
      BY <2>2, <2>3 DEF Slots
    <3>2. slot \in {"job", "route", "target", "render", "surface"}
      BY DEF Slots
    <3>3. CASE slot = "job"
      BY <2>2, <2>3, <2>4, <3>1, <3>3 DEF Slots
    <3>4. CASE slot = "route"
      BY <2>2, <2>3, <2>4, <3>1, <3>4 DEF Slots
    <3>5. CASE slot = "target"
      BY <2>2, <2>3, <2>4, <3>1, <3>5 DEF Slots
    <3>6. CASE slot = "render"
      BY <2>2, <2>3, <2>4, <3>1, <3>6 DEF Slots
    <3>7. CASE slot = "surface"
      BY <2>2, <2>3, <2>4, <3>1, <3>7 DEF Slots
    <3> QED
      BY <3>2, <3>3, <3>4, <3>5, <3>6, <3>7
  <2>6. LinkRefs(obj2, x) = LinkRefs([obj EXCEPT ![o] = y], x)
    BY <1>5
  <2> QED
    BY <2>1, <2>4, <2>5, <2>6
<1> QED
  BY <1>3, <1>4, <1>6, <1>7, <1>8, <1>9 DEF Well, obj2

(* What a slot names is referred to.                                       *)
LEMMA LinkedRefs ==
  ASSUME NEW obj, Well(obj), NEW p \in DOMAIN obj, NEW slot \in Slots,
         NEW k \in DOMAIN obj[p].links[slot]
  PROVE  LET x == obj[p].links[slot][k]
         IN /\ x \in DOMAIN obj /\ obj[x].type = TargetOf(slot)
            /\ LinkRefs(obj, x) > 0 /\ Count(obj[p].links[slot], x) > 0
            /\ obj[p].type = OwnerOf(slot)
<1> DEFINE x == obj[p].links[slot][k]
<1>1. obj[p] \in Object /\ Objects(obj) /\ obj[p].links[slot] \in Seq(Nat)
      /\ obj = [q \in DOMAIN obj |-> obj[q]]
  BY DEF Well, Objects, Object
<1>2. x \in DOMAIN obj /\ obj[x].type = TargetOf(slot)
  BY DEF Well, LinksOk, IsA
<1>3. obj[p].type = OwnerOf(slot)
  BY <1>1 DEF Well, LinksOk
<1>4. Count(obj[p].links[slot], x) \in Nat /\ Count(obj[p].links[slot], x) # 0
  BY <1>1, CountNone
<1> HIDE DEF x
<1> DEFINE A(s) == Count(obj[p].links[s], x)
<1>5. /\ Count(Links(obj[p]), x) = A("job") + A("route") + A("target") +
                                   A("render") + A("surface") + A("buffer")
      /\ \A s \in Slots : A(s) \in Nat
  BY <1>1, LinksCount
<1>6. A(slot) > 0
  BY <1>4
<1> HIDE DEF A
<1>7. /\ A("job") \in Nat /\ A("route") \in Nat /\ A("target") \in Nat
      /\ A("render") \in Nat /\ A("surface") \in Nat /\ A("buffer") \in Nat
  BY <1>5 DEF Slots
<1>8. Count(Links(obj[p]), x) > 0
  BY <1>5, <1>6, <1>7 DEF Slots
<1>9. /\ Count(Links(obj[p]), x) <= LinkRefs(obj, x)
      /\ Count(Links(obj[p]), x) \in Nat /\ LinkRefs(obj, x) \in Nat
  BY <1>1, LinkChange
<1> QED
  BY <1>2, <1>3, <1>4, <1>8, <1>9 DEF x

(* An object nothing refers to goes.                                       *)
LEMMA ObjectGone ==
  ASSUME NEW obj, Well(obj), NEW o \in DOMAIN obj, LinkRefs(obj, o) = 0
  PROVE  LET obj2 == [p \in DOMAIN obj \ {o} |-> obj[p]]
         IN /\ Well(obj2)
            /\ \A x : /\ LinkRefs(obj2, x) =
                           LinkRefs(obj, x) - Count(Links(obj[o]), x)
                      /\ Count(Links(obj[o]), x) <= LinkRefs(obj, x)
                      /\ Count(Links(obj[o]), x) \in Nat
                      /\ LinkRefs(obj, x) \in Nat
<1> DEFINE obj2 == [p \in DOMAIN obj \ {o} |-> obj[p]]
<1>1. Objects(obj) /\ LinksOk(obj) /\ obj[o] \in Object
  BY DEF Well, Objects
<1>2. \A x : /\ LinkRefs(obj2, x) = LinkRefs(obj, x) - Count(Links(obj[o]), x)
             /\ Count(Links(obj[o]), x) <= LinkRefs(obj, x)
             /\ Count(Links(obj[o]), x) \in Nat
             /\ LinkRefs(obj, x) \in Nat
  BY <1>1, LinkDrop
<1>3. /\ DOMAIN obj2 = DOMAIN obj \ {o}
      /\ \A p \in DOMAIN obj2 : obj2[p] = obj[p]
      /\ obj2 = [p \in DOMAIN obj2 |-> obj2[p]]
  OBVIOUS
<1> HIDE DEF obj2
<1>4. Objects(obj2)
  BY <1>1, <1>3, FS_Subset DEF Objects
<1>5. LinksOk(obj2)
  <2> SUFFICES ASSUME NEW p \in DOMAIN obj2
               PROVE
        /\ \A s \in Slots :
             /\ obj2[p].links[s] # <<>> => obj2[p].type = OwnerOf(s)
             /\ \A k \in DOMAIN obj2[p].links[s] :
                  /\ obj2[p].links[s][k] \in DOMAIN obj2
                  /\ IsA(obj2, obj2[p].links[s][k], TargetOf(s))
        /\ obj2[p].type = "image" => Len(obj2[p].links["buffer"]) = 1
        /\ Len(obj2[p].links["render"]) <= 1
    BY DEF LinksOk
  <2>1. p \in DOMAIN obj /\ obj2[p] = obj[p]
    BY <1>3
  <2>2. ASSUME NEW s \in Slots, NEW k \in DOMAIN obj[p].links[s]
        PROVE  /\ obj[p].links[s][k] \in DOMAIN obj2
               /\ IsA(obj2, obj[p].links[s][k], TargetOf(s))
    <3>1. /\ obj[p].links[s][k] \in DOMAIN obj
          /\ obj[obj[p].links[s][k]].type = TargetOf(s)
          /\ LinkRefs(obj, obj[p].links[s][k]) > 0
      BY <2>1, LinkedRefs
    <3> QED
      BY <1>3, <3>1 DEF IsA
  <2> QED
    BY <1>1, <2>1, <2>2 DEF LinksOk
<1> QED
  BY <1>2, <1>3, <1>4, <1>5 DEF Well, obj2

(* An object is made, with links that fit it.                              *)
LEMMA ObjectMade ==
  ASSUME NEW obj, Well(obj), NEW n, n \notin DOMAIN obj,
         NEW x \in Object,
         \A s \in Slots :
           /\ x.links[s] # <<>> => x.type = OwnerOf(s)
           /\ \A k \in DOMAIN x.links[s] :
                /\ x.links[s][k] \in DOMAIN obj
                /\ IsA(obj, x.links[s][k], TargetOf(s)),
         x.type = "image" => Len(x.links["buffer"]) = 1,
         Len(x.links["render"]) <= 1
  PROVE  LET obj2 == With(obj, n, x)
         IN /\ Well(obj2) /\ DOMAIN obj2 = DOMAIN obj \cup {n} /\ obj2[n] = x
            /\ \A p \in DOMAIN obj : obj2[p] = obj[p]
            /\ \A o : /\ LinkRefs(obj2, o) =
                           LinkRefs(obj, o) + Count(Links(x), o)
                      /\ LinkRefs(obj, o) \in Nat /\ Count(Links(x), o) \in Nat
<1> DEFINE obj2 == With(obj, n, x)
<1>1. Objects(obj) /\ LinksOk(obj) /\ obj = [p \in DOMAIN obj |-> obj[p]]
  BY DEF Well
<1>2. /\ Objects(obj2)
      /\ \A o : /\ LinkRefs(obj2, o) = LinkRefs(obj, o) + Count(Links(x), o)
                /\ LinkRefs(obj, o) \in Nat /\ Count(Links(x), o) \in Nat
  BY <1>1, LinkAdd
<1>3. /\ DOMAIN obj2 = DOMAIN obj \cup {n} /\ obj2[n] = x
      /\ \A p \in DOMAIN obj : obj2[p] = obj[p]
      /\ obj2 = [p \in DOMAIN obj2 |-> obj2[p]]
  BY DEF With
<1> HIDE DEF obj2
<1>4. \A q, type : q \in DOMAIN obj /\ IsA(obj, q, type) => IsA(obj2, q, type)
  BY <1>3 DEF IsA
<1>5. LinksOk(obj2)
  <2> SUFFICES ASSUME NEW p \in DOMAIN obj2
               PROVE
        /\ \A s \in Slots :
             /\ obj2[p].links[s] # <<>> => obj2[p].type = OwnerOf(s)
             /\ \A k \in DOMAIN obj2[p].links[s] :
                  /\ obj2[p].links[s][k] \in DOMAIN obj2
                  /\ IsA(obj2, obj2[p].links[s][k], TargetOf(s))
        /\ obj2[p].type = "image" => Len(obj2[p].links["buffer"]) = 1
        /\ Len(obj2[p].links["render"]) <= 1
    BY DEF LinksOk
  <2>1. CASE p = n
    BY <1>3, <1>4, <2>1
  <2>2. CASE p # n
    BY <1>1, <1>3, <1>4, <2>2 DEF LinksOk
  <2> QED
    BY <2>1, <2>2
<1> QED
  BY <1>2, <1>3, <1>5 DEF Well, obj2

-----------------------------------------------------------------------------
(***************************************************************************)
(* Changes of the store.                                                   *)
(***************************************************************************)
Memory(obj, open) == [obj |-> obj, open |-> open, sane |-> TRUE]

(* The store is what it consists of, and nothing was released twice.       *)
LEMMA StoreIs ==
  ASSUME RefInv
  PROVE  /\ store = Memory(store.obj, store.open)
         /\ store.sane = TRUE /\ store.open \subseteq Resources
         /\ made \in Nat /\ DOMAIN store.obj \subseteq 1 .. made
         /\ heap \subseteq 1 .. made /\ up \in BOOLEAN
BY DEF RefInv, TypeInv, ObjectsFit, Balance, Memory

(* A store that stands.                                                    *)
LEMMA StoreNext ==
  ASSUME NEW obj, Well(obj), NEW open, open \subseteq Resources,
         store' = Memory(obj, open),
         made \in Nat, made' \in Nat, made <= made', DOMAIN obj \subseteq 1 .. made',
         heap' \subseteq 1 .. made', up' \in BOOLEAN
  PROVE  /\ ObjectsFitNext /\ LinksFit' /\ store'.obj = obj
         /\ store'.open = open
<1>1. /\ store'.obj = obj /\ store'.open = open /\ store'.sane = TRUE
      /\ store' = [obj |-> store'.obj, open |-> store'.open,
                   sane |-> store'.sane]
  BY DEF Memory
<1>2. ObjectsFitNext
  BY <1>1 DEF ObjectsFitNext, Well, Objects
<1>3. LinksFit'
  BY <1>1 DEF LinksFit, LinksOk, Well, IsA
<1> QED
  BY <1>1, <1>2, <1>3

(* A call that fits the objects.                                           *)
Fit(e, n, obj) == /\ e \in Call /\ CallFits(e) /\ Known(e, n)
                  /\ Named(e, obj) /\ SelfFits(e, obj)

(* The calls of a state fit its objects.                                   *)
LEMMA CallsAreFit ==
  ASSUME RefInv, NEW t \in Threads
  PROVE  Fit(call[t], made, store.obj)
BY DEF RefInv, TypeInv, CallsFit, NamesFit, Fit

(* The balance of o once thread t has gone on with e.                      *)
BalancedNext(t, e, obj2, o) ==
  Balanced(obj2, o, InHeap(heap', o) + LinkRefs(obj2, o) +
                    (CallRefs(call, o) - RefsOf(call[t], o) + RefsOf(e, o)))

(* What a step of a thread has to show.                                    *)
LEMMA StepTaken ==
  ASSUME RefInv, NEW t \in Threads, NEW e, Goes(t, e),
         NEW obj2, NEW open2, store' = Memory(obj2, open2), Well(obj2),
         open2 \subseteq Resources, up' = up,
         made' \in Nat, made <= made', DOMAIN obj2 \subseteq 1 .. made',
         heap' \subseteq 1 .. made', TypesKept(store.obj, obj2, made),
         \A p \in DOMAIN store.obj :
           \/ Reachable(t, p)
           \/ /\ p \in DOMAIN obj2 /\ obj2[p].refs = store.obj[p].refs
              /\ obj2[p].type = store.obj[p].type,
         Fit(e, made', obj2), up \/ (heap' = {} /\ e.at = "idle"),
         \A o \in Nat \ {NoObject} : BalancedNext(t, e, obj2, o)
  PROVE  RefInv'
<1>1. made \in Nat /\ up \in BOOLEAN
  BY StoreIs
<1>2. ObjectsFitNext /\ LinksFit' /\ store'.obj = obj2
  BY <1>1, StoreNext
<1>3. \A u \in Threads \ {t} : SelfFits(call[u], obj2)
  BY OthersKept
<1>4. ~up' => heap' = {} /\ e.at = "idle"
             /\ \A u \in Threads \ {t} : call[u].at = "idle"
  BY DEF RefInv, DownFits
<1>5. StepFits(t, e)
  <2>1. /\ e \in Call /\ CallFits(e) /\ Known(e, made')
        /\ Named(e, store'.obj) /\ SelfFits(e, store'.obj)
    BY <1>2 DEF Fit
  <2>2. TypesKept(store.obj, store'.obj, made)
    BY <1>2
  <2>3. \A o \in Nat \ {NoObject} :
           Balanced(store'.obj, o,
                InHeap(heap', o) + LinkRefs(store'.obj, o) +
                (CallRefs(call, o) - RefsOf(call[t], o) + RefsOf(e, o)))
    BY <1>2 DEF BalancedNext
  <2> QED
    BY <1>2, <1>3, <1>4, <2>1, <2>2, <2>3 DEF StepFits
<1> QED
  BY <1>2, <1>5, StepKeeps

(* Objects of the same type.                                               *)
LEMMA SameTypesKept ==
  ASSUME NEW obj, NEW obj2, SameTypes(obj, obj2), NEW n, NEW e
  PROVE  /\ TypesKept(obj, obj2, n)
         /\ Named(e, obj) => Named(e, obj2)
         /\ \A o, type : IsA(obj, o, type) => IsA(obj2, o, type)
<1>1. TypesKept(obj, obj2, n)
  BY DEF SameTypes, TypesKept
<1>2. \A o, type : IsA(obj, o, type) => IsA(obj2, o, type)
  BY DEF SameTypes, IsA
<1> QED
  BY <1>1, <1>2 DEF Named

(* A step that leaves the references as they are: the raw resources and    *)
(* the call may change.                                                    *)
LEMMA StepAside ==
  ASSUME RefInv, NEW t \in Threads, NEW e, Goes(t, e),
         NEW obj2, NEW open2, store' = Memory(obj2, open2),
         SameLinks(store.obj, obj2),
         \A p \in DOMAIN store.obj : obj2[p].refs = store.obj[p].refs,
         open2 \subseteq Resources, UNCHANGED <<heap, made, up>>,
         Fit(e, made, store.obj), up \/ e.at = "idle",
         \A o \in Nat \ {NoObject} : RefsOf(e, o) = RefsOf(call[t], o)
  PROVE  RefInv'
<1>1. /\ Well(obj2) /\ SameTypes(store.obj, obj2)
      /\ \A o : LinkRefs(obj2, o) = LinkRefs(store.obj, o)
  BY StoreWell, LinksKept DEF SameLinks
<1>2. /\ made \in Nat /\ heap \subseteq 1 .. made
      /\ DOMAIN store.obj \subseteq 1 .. made /\ DOMAIN obj2 = DOMAIN store.obj
  BY <1>1, StoreIs DEF SameTypes
<1>3. /\ made' \in Nat /\ made <= made' /\ heap' = heap /\ made' = made
      /\ up' = up
  BY <1>2
<1>4. TypesKept(store.obj, obj2, made)
  BY <1>1, SameTypesKept
<1>5. Fit(e, made', obj2)
  <2>1. Named(e, obj2)
    BY <1>1, SameTypesKept DEF Fit
  <2>2. SelfFits(e, obj2)
    BY <1>1 DEF Fit, SelfFits, SameTypes
  <2> QED
    BY <1>3, <2>1, <2>2 DEF Fit
<1>6. up \/ (heap' = {} /\ e.at = "idle")
  BY <1>3 DEF RefInv, DownFits
<1>7. ASSUME NEW o \in Nat \ {NoObject}
      PROVE  BalancedNext(t, e, obj2, o)
  <2>1. /\ RefsOf(e, o) = RefsOf(call[t], o) /\ RefsOf(call[t], o) \in Nat
        /\ CallRefs(call, o) \in Nat
    BY RefsAdd
  <2>2. Balanced(store.obj, o, HeldBy(heap, store.obj, call, o))
    BY DEF RefInv, Balance
  <2>3. CallRefs(call, o) - RefsOf(call[t], o) + RefsOf(e, o) =
            CallRefs(call, o)
    BY <2>1
  <2>4. Balanced(obj2, o, InHeap(heap, o) + LinkRefs(obj2, o) +
                          CallRefs(call, o))
    BY <1>1, <1>2, <2>2 DEF Balanced, HeldBy
  <2> QED
    BY <1>3, <2>3, <2>4 DEF BalancedNext
<1>8. \A p \in DOMAIN store.obj :
           \/ Reachable(t, p)
           \/ /\ p \in DOMAIN obj2 /\ obj2[p].refs = store.obj[p].refs
              /\ obj2[p].type = store.obj[p].type
  BY <1>1 DEF SameTypes
<1> QED
  BY <1>1, <1>2, <1>3, <1>4, <1>5, <1>6, <1>7, <1>8, StepTaken

(* The same with the objects unchanged.                                    *)
LEMMA StepStill ==
  ASSUME RefInv, NEW t \in Threads, NEW e, Goes(t, e),
         UNCHANGED <<store, heap, made, up>>,
         Fit(e, made, store.obj), up \/ e.at = "idle",
         \A o \in Nat \ {NoObject} : RefsOf(e, o) = RefsOf(call[t], o)
  PROVE  RefInv'
<1>1. store' = Memory(store.obj, store.open) /\ store.open \subseteq Resources
  BY StoreIs
<1>2. SameLinks(store.obj, store.obj)
  BY StoreWell DEF SameLinks, SameTypes, Well, Objects
<1> QED
  BY <1>1, <1>2, StepAside

(* While a call is at a step the driver is up.                             *)
LEMMA AtUp ==
  ASSUME RefInv, NEW t \in Threads, NEW do, At(t, do), do # "idle"
  PROVE  up /\ call[t].at = do /\ call[t].owed = <<>>
BY StoreIs DEF RefInv, DownFits, At

-----------------------------------------------------------------------------
(***************************************************************************)
(* The calls begin.                                                        *)
(***************************************************************************)

(* A call that begins holds nothing.                                       *)
LEMMA StartsKeeps ==
  ASSUME RefInv, NEW t \in Threads, NEW c, Starts(t, c), ~Over(c),
         Fit(c, made, store.obj), c.held = <<>>, c.self = NoObject,
         \A o \in Nat \ {NoObject} : Count(Due(c.owed), o) = 0
  PROVE  RefInv'
<1>1. /\ Goes(t, c) /\ up /\ UNCHANGED <<store, heap, made, up>>
      /\ Over(call[t])
  BY DEF Starts, Goes, Free
<1>2. ASSUME NEW o \in Nat \ {NoObject}
      PROVE  RefsOf(c, o) = RefsOf(call[t], o)
  <2>1. call[t] \in Call /\ CallFits(call[t]) /\ c \in Call
    BY CallsAreFit DEF Fit
  <2>2. /\ call[t].held = <<>> /\ call[t].self = NoObject
        /\ call[t].owed = <<>>
    BY <1>1, <2>1, OverHoldsNothing
  <2>3. Due(<<>>) = <<>> /\ Count(<<>>, o) = 0
    BY CountEmpty DEF Due
  <2>4. OnSelf(c, o) = 0 /\ OnSelf(call[t], o) = 0
    BY <2>2 DEF OnSelf
  <2>5. RefsOf(c, o) = Count(c.held, o) + Count(Due(c.owed), o) + OnSelf(c, o)
    BY <2>1, OwedDue
  <2>6. RefsOf(call[t], o) = Count(call[t].held, o) +
          Count(Due(call[t].owed), o) + OnSelf(call[t], o)
    BY <2>1, OwedDue
  <2> QED
    BY <2>2, <2>3, <2>4, <2>5, <2>6
<1> QED
  BY <1>1, <1>2, StepStill

(* A call at its first step.                                               *)
Fresh(c) == /\ c.owed = <<>> /\ c.self = NoObject /\ c.ids = <<>>
            /\ c.held = <<>> /\ c.failed = FALSE

Openings == {<<"surfaces", "calloc_surface">>, <<"buffer", "calloc_buffer">>,
             <<"image", "calloc_buffer">>, <<"derive", "acquire_surface">>,
             <<"config", "calloc_config">>, <<"context", "acquire_config">>,
             <<"use", "use">>, <<"begin", "acquire">>, <<"end", "acquire">>,
             <<"handle", "acquire">>, <<"release", "acquire">>}

(* The call names objects of the right type.                               *)
NamesWell(c) ==
  /\ c.surface <= made /\ c.on <= made
  /\ IsA(store.obj, c.surface, "surface")
  /\ \A k \in DOMAIN c.targets : /\ c.targets[k] <= made
                                  /\ IsA(store.obj, c.targets[k], "surface")
  /\ c.op \in {"begin", "end"} => IsA(store.obj, c.on, "context")
  /\ c.op \in {"handle", "release"} => IsA(store.obj, c.on, "buffer")

(* Such a call fits.                                                       *)
LEMMA OpeningFits ==
  ASSUME RefInv, NEW t \in Threads, NEW c \in Call, Fresh(c),
         <<c.op, c.at>> \in Openings, NamesWell(c), Starts(t, c)
  PROVE  RefInv'
<1> DEFINE op == c.op
           do == c.at
<1>1. <<op, do>> \in Openings
  OBVIOUS
<1> HIDE DEF op, do
<1>2. op \in Ops /\ do \in OtherSteps \ {"idle"} /\ op \in OpsAt(do)
  BY <1>1 DEF Ops, OtherSteps, OpsAt, SurfaceSteps, BufferSteps,
              ContextSteps, WithBuffer, Openings
<1>3. do \notin WithBuffer /\ do \notin BuildSteps /\ do # "acquire_target"
      /\ do \notin {"layout", "begin", "end", "handle", "release",
                    "dup_handle", "drop_handle", "enqueue"}
  BY <1>1 DEF WithBuffer, BuildSteps, SurfaceSteps, BufferSteps,
              ContextSteps, Openings
<1>4. made \in Nat
  BY StoreIs
<1>5. c.op = op /\ c.at = do
  BY DEF op, do
<1>6. CallFits(c)
  <2>1. Holds(c) = <<>>
    <3>1. CASE do = "calloc_buffer"
      <4>1. op # "derive"
        BY <1>1, <3>1 DEF Openings
      <4> QED
        BY <1>5, <3>1, <4>1 DEF Holds, OnSurface
    <3>2. CASE do = "acquire_surface"
      <4>1. op # "begin"
        BY <1>1, <3>2 DEF Openings
      <4> QED
        BY <1>5, <3>2, <4>1 DEF Holds
    <3>3. CASE do \notin {"calloc_buffer", "acquire_surface"}
      <4>1. do \notin {"layout", "calloc_buffer", "data", "insert_buffer",
               "acquire_buffer", "calloc_image", "acquire_surface",
               "begin", "end", "handle", "release", "dup_handle",
               "drop_handle", "enqueue"}
        BY <3>3, <1>1 DEF Openings
      <4> QED
        BY <1>5, <4>1 DEF Holds
    <3> QED
      BY <3>1, <3>2, <3>3
  <2> QED
    BY <1>2, <1>3, <1>5, <2>1 DEF CallFits, Fresh
<1>7. Known(c, made)
  BY <1>4, RealLists DEF Known, NoObject, Fresh, NamesWell
<1>8. Named(c, store.obj)
  BY <1>3, <1>5 DEF Named, NamesWell, Fresh
<1>9. SelfFits(c, store.obj) /\ ~Over(c)
  BY <1>2, <1>5 DEF SelfFits, Over, Fresh
<1>10. Fit(c, made, store.obj) /\ c.held = <<>> /\ c.self = NoObject
  BY <1>6, <1>7, <1>8, <1>9 DEF Fit, Fresh
<1>11. \A o \in Nat \ {NoObject} : Count(Due(c.owed), o) = 0
  <2>1. Due(c.owed) = <<>>
    BY DEF Due, Fresh
  <2> QED
    BY <2>1, CountEmpty
<1> QED
  BY <1>9, <1>10, <1>11, StartsKeeps

(* The objects an application may name.                                    *)
LEMMA OfHeap ==
  ASSUME RefInv, NEW type, NEW o \in Of(type)
  PROVE  o \in Nat /\ o <= made /\ o \in heap /\ IsA(store.obj, o, type)
         /\ o \in DOMAIN store.obj /\ store.obj[o].type = type
         /\ o # NoObject
<1>1. o \in heap /\ store.obj[o].type = type /\ heap \subseteq 1 .. made
      /\ made \in Nat
  BY StoreIs DEF Of
<1>2. o \in Nat \ {NoObject}
  BY <1>1 DEF NoObject
<1>3. o \in DOMAIN store.obj
  <2>1. Balanced(store.obj, o, HeldBy(heap, store.obj, call, o))
    BY <1>2 DEF RefInv, Balance
  <2>2. LinkRefs(store.obj, o) \in Nat /\ CallRefs(call, o) \in Nat
    BY <1>2, ObjectsStand, LinkFamilyFits, CallFamilyFits DEF RefInv
  <2>3. HeldBy(heap, store.obj, call, o) > 0
    BY <1>1, <2>2 DEF HeldBy, InHeap
  <2> QED
    BY <2>1, <2>3 DEF Balanced
<1> QED
  BY <1>1, <1>2, <1>3 DEF IsA

(* vaCreate... and vaDeriveImage begin.                                    *)
LEMMA CreatesKeeps ==
  ASSUME RefInv, NEW t \in Threads, Creates(t)
  PROVE  RefInv'
<1>0. made \in Nat /\ NoObject \notin DOMAIN store.obj
  BY StoreIs, ObjectsStand DEF RefInv
<1>1. ASSUME NEW n \in 1 .. MaxSurfaces, NEW shape \in {"own", "one", "two"},
             create_surfaces(t, n, shape)
      PROVE  RefInv'
  <2> DEFINE c == [Idle EXCEPT !.op = "surfaces", !.at = "calloc_surface",
                               !.left = n, !.shape = shape]
  <2>0. n \in Int /\ shape \in Shapes
    BY ObjectsAssumption DEF Shapes
  <2>1. c \in Call
    BY <2>0, IdleFits DEF Call, Ops, OtherSteps
  <2>2. Fresh(c) /\ <<c.op, c.at>> \in Openings /\ NamesWell(c)
    BY <1>0 DEF Fresh, Openings, NamesWell, Idle, NoObject, IsA
  <2> QED
    BY <1>1, <2>1, <2>2, OpeningFits DEF create_surfaces
<1>2. ASSUME rk_CreateBuffer(t)
      PROVE  RefInv'
  <2> DEFINE c == [Idle EXCEPT !.op = "buffer", !.at = "calloc_buffer"]
  <2>1. c \in Call
    BY IdleFits DEF Call, Ops, OtherSteps
  <2>2. Fresh(c) /\ <<c.op, c.at>> \in Openings /\ NamesWell(c)
    BY <1>0 DEF Fresh, Openings, NamesWell, Idle, NoObject, IsA
  <2> QED
    BY <1>2, <2>1, <2>2, OpeningFits DEF rk_CreateBuffer
<1>3. ASSUME rk_CreateImage(t)
      PROVE  RefInv'
  <2> DEFINE c == [Idle EXCEPT !.op = "image", !.at = "calloc_buffer"]
  <2>1. c \in Call
    BY IdleFits DEF Call, Ops, OtherSteps
  <2>2. Fresh(c) /\ <<c.op, c.at>> \in Openings /\ NamesWell(c)
    BY <1>0 DEF Fresh, Openings, NamesWell, Idle, NoObject, IsA
  <2> QED
    BY <1>3, <2>1, <2>2, OpeningFits DEF rk_CreateImage
<1>4. ASSUME NEW s \in Of("surface"), rk_DeriveImage(t, s)
      PROVE  RefInv'
  <2> DEFINE c == [Idle EXCEPT !.op = "derive", !.at = "acquire_surface",
                               !.surface = s]
  <2>0. s \in Nat /\ s <= made /\ IsA(store.obj, s, "surface")
    BY OfHeap
  <2>1. c \in Call
    BY <2>0, IdleFits DEF Call, Ops, OtherSteps
  <2>2. Fresh(c) /\ <<c.op, c.at>> \in Openings
    BY DEF Fresh, Openings, Idle
  <2>3. NamesWell(c)
    BY <1>0, <2>0 DEF NamesWell, Idle, NoObject
  <2> QED
    BY <1>4, <2>1, <2>2, <2>3, OpeningFits DEF rk_DeriveImage
<1>5. ASSUME rk_CreateConfig(t)
      PROVE  RefInv'
  <2> DEFINE c == [Idle EXCEPT !.op = "config", !.at = "calloc_config"]
  <2>1. c \in Call
    BY IdleFits DEF Call, Ops, OtherSteps
  <2>2. Fresh(c) /\ <<c.op, c.at>> \in Openings /\ NamesWell(c)
    BY <1>0 DEF Fresh, Openings, NamesWell, Idle, NoObject, IsA
  <2> QED
    BY <1>5, <2>1, <2>2, OpeningFits DEF rk_CreateConfig
<1>6. ASSUME NEW config \in Of("config"), NEW kind \in {"encoder", "decoder"},
             NEW targets \in Lists("surface") \cup {<<>>},
             rk_CreateContext(t, config, targets, kind)
      PROVE  RefInv'
  <2> DEFINE c == [Idle EXCEPT !.op = "context", !.at = "acquire_config",
                     !.on = config, !.targets = targets, !.shape = kind]
  <2>1. config \in Nat /\ config <= made
    BY OfHeap
  <2>2. /\ targets \in Seq(Nat)
        /\ \A k \in DOMAIN targets : /\ targets[k] <= made
                                     /\ IsA(store.obj, targets[k], "surface")
    <3>1. CASE targets = <<>>
      BY <3>1
    <3>2. CASE targets \in Lists("surface")
      <4>1. PICK n \in 1 .. MaxSurfaces : targets \in [1 .. n -> Of("surface")]
        BY <3>2 DEF Lists
      <4>2. \A s \in Of("surface") :
              s \in Nat /\ s <= made /\ IsA(store.obj, s, "surface")
        BY OfHeap
      <4>3. n \in Nat /\ targets \in [1 .. n -> Nat]
        BY <4>1, <4>2, ObjectsAssumption
      <4>4. targets \in Seq(Nat)
        BY <4>3, IsASeq
      <4> QED
        BY <4>1, <4>2, <4>4
    <3> QED
      BY <3>1, <3>2
  <2>3. c \in Call
    BY <2>1, <2>2, IdleFits DEF Call, Ops, OtherSteps, Shapes
  <2>4. Fresh(c) /\ <<c.op, c.at>> \in Openings
    BY DEF Fresh, Openings, Idle
  <2>5. NamesWell(c)
    BY <1>0, <2>1, <2>2 DEF NamesWell, Idle, NoObject, IsA
  <2> QED
    BY <1>6, <2>3, <2>4, <2>5, OpeningFits DEF rk_CreateContext
<1> QED
  BY <1>1, <1>2, <1>3, <1>4, <1>5, <1>6 DEF Creates

(* vaDestroy... begins.                                                    *)
LEMMA DestroysKeeps ==
  ASSUME RefInv, NEW t \in Threads, Destroys(t)
  PROVE  RefInv'
<1>0. made \in Nat /\ NoObject \notin DOMAIN store.obj
      /\ heap \subseteq 1 .. made
  BY StoreIs, ObjectsStand DEF RefInv
<1>1. PICK list : /\ list \in Seq(Nat) /\ list # <<>>
                  /\ destroy(t, list)
  <2>1. ASSUME NEW list \in Lists("surface"), destroy(t, list)
        PROVE  list \in Seq(Nat) /\ list # <<>>
    <3>1. PICK n \in 1 .. MaxSurfaces : list \in [1 .. n -> Of("surface")]
      BY <2>1 DEF Lists
    <3>2. \A s \in Of("surface") : s \in Nat
      BY OfHeap
    <3>3. n \in Nat /\ n > 0 /\ list \in [1 .. n -> Nat]
      BY <3>1, <3>2, ObjectsAssumption
    <3>4. list \in Seq(Nat) /\ Len(list) = n
      BY <3>3, IsASeq
    <3> QED
      BY <3>3, <3>4
  <2>2. ASSUME NEW o \in heap, destroy(t, <<o>>)
        PROVE  <<o>> \in Seq(Nat) /\ <<o>> # <<>>
    BY <1>0
  <2> QED
    BY <2>1, <2>2 DEF Destroys
<1> DEFINE c == [Idle EXCEPT !.op = "destroy", !.owed = Removes(list)]
<1>2. /\ Removes(list) \in Seq(Duty) /\ Removes(list) # <<>>
      /\ \A o \in Nat \ {NoObject} : Count(Due(Removes(list)), o) = 0
  <2>1. \A o \in Nat \ {NoObject} : /\ Removes(list) \in Seq(Duty)
                                    /\ DOMAIN Removes(list) = DOMAIN list
                                    /\ Count(Due(Removes(list)), o) = 0
    BY <1>1, DueRemoves
  <2>2. 1 \in Nat \ {NoObject}
    BY DEF NoObject
  <2>3. Removes(list) \in Seq(Duty) /\ DOMAIN Removes(list) = DOMAIN list
    BY <2>1, <2>2
  <2>4. Len(list) > 0 /\ DOMAIN list = 1 .. Len(list) /\ Len(list) \in Nat
    BY <1>1
  <2>5. Removes(list) # <<>>
    BY <2>3, <2>4
  <2> QED
    BY <2>1, <2>3, <2>5
<1>3. c \in Call
  BY <1>2, IdleFits DEF Call, Ops
<1>4. /\ c.op = "destroy" /\ c.owed = Removes(list) /\ c.at = "idle"
      /\ c.held = <<>> /\ c.self = NoObject /\ c.ids = <<>>
      /\ c.targets = <<>> /\ c.surface = NoObject /\ c.on = NoObject
      /\ c.failed = FALSE
  BY DEF Idle
<1> HIDE DEF c
<1>5. CallFits(c)
  BY <1>4 DEF CallFits, OpsAt, Holds, WithBuffer, BuildSteps, SurfaceSteps,
              BufferSteps, ContextSteps, Ops
<1>6. Known(c, made)
  BY <1>0, <1>4, RealLists DEF Known, NoObject
<1>7. Named(c, store.obj) /\ SelfFits(c, store.obj) /\ ~Over(c)
  BY <1>0, <1>2, <1>4 DEF Named, SelfFits, Over, IsA
<1>8. Fit(c, made, store.obj)
  BY <1>3, <1>5, <1>6, <1>7 DEF Fit
<1>9. Starts(t, c)
  BY <1>1 DEF destroy, c
<1> QED
  BY <1>2, <1>4, <1>7, <1>8, <1>9, StartsKeeps

(* The calls that use what was created begin.                              *)
LEMMA UsesKeeps ==
  ASSUME RefInv, NEW t \in Threads, Uses(t)
  PROVE  RefInv'
<1>0. made \in Nat /\ NoObject \notin DOMAIN store.obj
      /\ heap \subseteq 1 .. made
  BY StoreIs, ObjectsStand DEF RefInv
<1>1. ASSUME NEW o \in heap, look_up(t, o)
      PROVE  RefInv'
  <2> DEFINE c == [Idle EXCEPT !.op = "use", !.at = "use", !.on = o]
  <2>0. o \in Nat /\ o <= made
    BY <1>0
  <2>1. c \in Call
    BY <2>0, IdleFits DEF Call, Ops, OtherSteps
  <2>2. Fresh(c) /\ <<c.op, c.at>> \in Openings
    BY DEF Fresh, Openings, Idle
  <2>3. NamesWell(c)
    BY <1>0, <2>0 DEF NamesWell, Idle, NoObject, IsA
  <2> QED
    BY <1>1, <2>1, <2>2, <2>3, OpeningFits DEF look_up
<1>2. ASSUME NEW x \in Of("context"), NEW s \in Of("surface"),
             rk_BeginPicture(t, x, s)
      PROVE  RefInv'
  <2> DEFINE c == [Idle EXCEPT !.op = "begin", !.at = "acquire", !.on = x,
                               !.surface = s]
  <2>0. /\ x \in Nat /\ x <= made /\ IsA(store.obj, x, "context")
        /\ s \in Nat /\ s <= made /\ IsA(store.obj, s, "surface")
    BY OfHeap
  <2>1. c \in Call
    BY <2>0, IdleFits DEF Call, Ops, OtherSteps
  <2>2. Fresh(c) /\ <<c.op, c.at>> \in Openings
    BY DEF Fresh, Openings, Idle
  <2>3. NamesWell(c)
    BY <1>0, <2>0 DEF NamesWell, Idle, NoObject
  <2> QED
    BY <1>2, <2>1, <2>2, <2>3, OpeningFits DEF rk_BeginPicture
<1>3. ASSUME NEW x \in Of("context"), rk_EndPicture(t, x)
      PROVE  RefInv'
  <2> DEFINE c == [Idle EXCEPT !.op = "end", !.at = "acquire", !.on = x]
  <2>0. x \in Nat /\ x <= made /\ IsA(store.obj, x, "context")
    BY OfHeap
  <2>1. c \in Call
    BY <2>0, IdleFits DEF Call, Ops, OtherSteps
  <2>2. Fresh(c) /\ <<c.op, c.at>> \in Openings
    BY DEF Fresh, Openings, Idle
  <2>3. NamesWell(c)
    BY <1>0, <2>0 DEF NamesWell, Idle, NoObject, IsA
  <2> QED
    BY <1>3, <2>1, <2>2, <2>3, OpeningFits DEF rk_EndPicture
<1>4. ASSUME NEW b \in Of("buffer"), NEW op \in {"handle", "release"},
             NEW left \in Int,
             Starts(t, [Idle EXCEPT !.op = op, !.at = "acquire", !.on = b,
                                    !.left = left])
      PROVE  RefInv'
  <2> DEFINE c == [Idle EXCEPT !.op = op, !.at = "acquire", !.on = b,
                               !.left = left]
  <2>0. b \in Nat /\ b <= made /\ IsA(store.obj, b, "buffer")
    BY OfHeap
  <2>1. c \in Call
    BY <2>0, IdleFits DEF Call, Ops, OtherSteps
  <2>2. Fresh(c) /\ <<c.op, c.at>> \in Openings
    BY DEF Fresh, Openings, Idle
  <2>3. NamesWell(c)
    BY <1>0, <2>0 DEF NamesWell, Idle, NoObject, IsA
  <2> QED
    BY <1>4, <2>1, <2>2, <2>3, OpeningFits
<1>5. ASSUME NEW b \in Of("buffer"),
             \/ rk_buffer_acquire_handle(t, b)
             \/ rk_buffer_release_handle(t, b)
             \/ rk_MapBuffer(t, b)
      PROVE  RefInv'
  <2>1. 0 \in Int /\ 1 \in Int
    OBVIOUS
  <2> QED
    BY <1>4, <1>5, <2>1 DEF rk_buffer_acquire_handle,
                            rk_buffer_release_handle, rk_MapBuffer
<1> QED
  BY <1>1, <1>2, <1>3, <1>5 DEF Uses

-----------------------------------------------------------------------------
(***************************************************************************)
(* The steps of a construction.                                            *)
(***************************************************************************)

(* Where each step of a construction leads.                                *)
Pairs ==
  {<<"dup", "sync">>, <<"sync", "import">>, <<"import", "keep_import">>,
   <<"import", "dup_chroma">>, <<"dup_chroma", "sync_chroma">>,
   <<"sync_chroma", "import_chroma">>, <<"import_chroma", "keep_import">>,
   <<"keep_import", "group">>, <<"group", "placeholder">>,
   <<"placeholder", "placeholder_fd">>, <<"placeholder_fd", "insert_surface">>,
   <<"data", "insert_buffer">>, <<"sync_objects", "mpp_create">>,
   <<"sync_objects", "acquire_target">>, <<"acquire_target", "mpp_create">>,
   <<"acquire_target", "acquire_target">>,
   <<"mpp_create", "mpp_init">>, <<"mpp_init", "enc_cfg">>,
   <<"mpp_init", "dec_cfg">>, <<"enc_cfg", "enc_control">>,
   <<"enc_control", "insert_context">>, <<"dec_cfg", "dec_control">>,
   <<"dec_control", "dec_timeouts">>, <<"dec_timeouts", "worker">>,
   <<"worker", "insert_context">>}

Starting == {"dup", "sync", "import", "dup_chroma", "sync_chroma",
             "import_chroma", "keep_import", "group", "placeholder",
             "placeholder_fd", "data", "sync_objects", "acquire_target",
             "mpp_create", "mpp_init", "enc_cfg", "enc_control", "dec_cfg",
             "dec_control", "dec_timeouts", "worker"}

(* The step after one of a construction.                                   *)
LEMMA BuildAfter ==
  ASSUME NEW c, c.at \in Starting
  PROVE  /\ <<c.at, After(c)>> \in Pairs
         /\ After(c) = "acquire_target" => c.targets # <<>>
<1>1. CASE c.at \in {"dup", "sync", "import", "dup_chroma", "sync_chroma",
                     "import_chroma", "keep_import"}
  BY <1>1 DEF After, Order, Pairs
<1>2. CASE c.at \in {"group", "placeholder", "placeholder_fd", "data",
                     "sync_objects", "acquire_target", "mpp_create"}
  BY <1>2 DEF After, Order, Pairs
<1>3. CASE c.at \in {"mpp_init", "enc_cfg", "enc_control", "dec_cfg",
                     "dec_control", "dec_timeouts", "worker"}
  BY <1>3 DEF After, Order, Pairs
<1> QED
  BY <1>1, <1>2, <1>3 DEF Starting

(* The steps of one construction belong to the same call and object.       *)
LEMMA PairsFit ==
  ASSUME NEW a, NEW b, <<a, b>> \in Pairs
  PROVE  /\ a \in BuildSteps \ WithBuffer /\ b \in BuildSteps \ WithBuffer
         /\ Makes(a) = Makes(b) /\ OpsAt(a) = OpsAt(b)
         /\ a \in BufferSteps <=> b \in BufferSteps
<1>1. /\ a \in BuildSteps \ WithBuffer /\ b \in BuildSteps \ WithBuffer
      /\ a \in BufferSteps <=> b \in BufferSteps
      /\ a \in SurfaceSteps <=> b \in SurfaceSteps
      /\ a \in ContextSteps <=> b \in ContextSteps
      /\ a \in BufferSteps => a \notin SurfaceSteps
      /\ a \in ContextSteps => a \notin SurfaceSteps \cup BufferSteps
      /\ a \in SurfaceSteps \cup BufferSteps \cup ContextSteps
  BY DEF Pairs, BuildSteps, SurfaceSteps, BufferSteps, ContextSteps,
         WithBuffer
<1>2. \A x \in {a, b} :
        x \notin {"calloc_buffer", "calloc_surface", "insert_image",
                  "acquire_config", "calloc_context", "calloc_config",
                  "insert_config", "acquire", "acquire_surface", "layout",
                  "enqueue", "dup_handle", "drop_handle", "idle"}
  BY DEF Pairs
<1>3. CASE a \in SurfaceSteps
  <2>1. Makes(a) = "surface" /\ Makes(b) = "surface"
    BY <1>1, <1>2, <1>3 DEF Makes
  <2>2. OpsAt(a) = {"surfaces"} /\ OpsAt(b) = {"surfaces"}
    BY <1>1, <1>2, <1>3 DEF OpsAt
  <2> QED
    BY <1>1, <2>1, <2>2
<1>4. CASE a \in BufferSteps
  <2>1. Makes(a) = "buffer" /\ Makes(b) = "buffer"
    BY <1>1, <1>2, <1>4 DEF Makes
  <2>2. OpsAt(a) = OpsAt(b)
    BY <1>1, <1>2, <1>4 DEF OpsAt
  <2> QED
    BY <1>1, <2>1, <2>2
<1>5. CASE a \in ContextSteps
  <2>1. Makes(a) = "context" /\ Makes(b) = "context"
    BY <1>1, <1>2, <1>5 DEF Makes
  <2>2. OpsAt(a) = {"context"} /\ OpsAt(b) = {"context"}
    BY <1>1, <1>2, <1>5 DEF OpsAt
  <2> QED
    BY <1>1, <2>1, <2>2
<1> QED
  BY <1>1, <1>3, <1>4, <1>5

(* What a construction holds.                                              *)
LEMMA BuildHolds ==
  ASSUME NEW c, c.at \in BuildSteps
  PROVE  Holds(c) = IF c.at \in BufferSteps THEN OnSurface(c) ELSE <<>>
<1>1. c.at \notin {"layout", "calloc_buffer", "acquire_buffer",
                   "calloc_image", "acquire_surface", "begin", "end",
                   "handle", "release", "dup_handle", "drop_handle",
                   "enqueue"}
  BY DEF BuildSteps, SurfaceSteps, BufferSteps, ContextSteps
<1>2. CASE c.at \in BufferSteps
  BY <1>2 DEF Holds, BufferSteps
<1>3. CASE c.at \notin BufferSteps
  <2>1. c.at \notin {"data", "insert_buffer"}
    BY <1>3 DEF BufferSteps
  <2> QED
    BY <1>1, <1>3, <2>1 DEF Holds
<1> QED
  BY <1>2, <1>3

(* e is c at another step, apart from its local resources.                 *)
Moved(c, e) ==
  /\ e \in Call
  /\ e.op = c.op /\ e.held = c.held /\ e.ids = c.ids /\ e.self = c.self
  /\ e.failed = c.failed /\ e.surface = c.surface /\ e.on = c.on
  /\ e.targets = c.targets /\ e.owed = c.owed

(* References do not depend on the step.                                   *)
LEMMA MovedRefs ==
  ASSUME NEW c \in Call, NEW e, Moved(c, e), NEW o
  PROVE  RefsOf(e, o) = RefsOf(c, o)
<1>1. References(e) = References(c)
  BY DEF References, Moved, Owed
<1> QED
  BY <1>1 DEF RefsOf

(* A construction goes on.                                                 *)
LEMMA BuildFits ==
  ASSUME NEW c, NEW n, NEW obj, Fit(c, n, obj), NEW e, Moved(c, e),
         <<c.at, e.at>> \in Pairs, e.at = "acquire_target" => c.targets # <<>>
  PROVE  Fit(e, n, obj)
<1>1. /\ c.at \in BuildSteps \ WithBuffer /\ e.at \in BuildSteps \ WithBuffer
      /\ Makes(c.at) = Makes(e.at) /\ OpsAt(c.at) = OpsAt(e.at)
      /\ c.at \in BufferSteps <=> e.at \in BufferSteps
  BY PairsFit
<1>2. Holds(e) = Holds(c)
  <2>1. OnSurface(e) = OnSurface(c)
    BY DEF OnSurface, Moved
  <2> QED
    BY <1>1, <2>1, BuildHolds
<1>3. "idle" \notin BuildSteps /\ "enqueue" \notin BuildSteps
  BY DEF BuildSteps, SurfaceSteps, BufferSteps, ContextSteps
<1>4. CallFits(e)
  BY <1>1, <1>2, <1>3 DEF Fit, CallFits, Moved
<1>5. Known(e, n)
  BY DEF Fit, Known, Moved
<1>6. Named(e, obj) /\ SelfFits(e, obj)
  BY <1>1, <1>3 DEF Fit, Named, SelfFits, Moved
<1> QED
  BY <1>4, <1>5, <1>6 DEF Fit, Moved

(* A store with other objects or other open resources.                     *)
LEMMA MemoryChanges ==
  ASSUME NEW m, m = Memory(m.obj, m.open), NEW obj, NEW s, NEW x, NEW y
  PROVE  /\ [m EXCEPT !.obj = obj] = Memory(obj, m.open)
         /\ [m EXCEPT !.obj[s].raw = x] =
              Memory([m.obj EXCEPT ![s].raw = x], m.open)
         /\ [m EXCEPT !.obj[s].refs = x] =
              Memory([m.obj EXCEPT ![s].refs = x], m.open)
         /\ [m EXCEPT !.obj[s].links[y] = x] =
              Memory([m.obj EXCEPT ![s].links[y] = x], m.open)
<1>1. m.sane = TRUE /\ m = [obj |-> m.obj, open |-> m.open, sane |-> m.sane]
  BY DEF Memory
<1>2. ASSUME NEW ob
      PROVE  [m EXCEPT !.obj = ob] = Memory(ob, m.open)
  <2>1. [m EXCEPT !.obj = ob] =
          [obj |-> ob, open |-> m.open, sane |-> m.sane]
    BY <1>1
  <2> QED
    BY <1>1, <2>1 DEF Memory
<1>5. [m EXCEPT !.obj[s].raw = x] =
        [m EXCEPT !.obj = [m.obj EXCEPT ![s].raw = x]]
  BY <1>1
<1>6. [m EXCEPT !.obj[s].refs = x] =
        [m EXCEPT !.obj = [m.obj EXCEPT ![s].refs = x]]
  BY <1>1
<1>7. [m EXCEPT !.obj[s].links[y] = x] =
        [m EXCEPT !.obj = [m.obj EXCEPT ![s].links[y] = x]]
  BY <1>1
<1> QED
  BY <1>2, <1>5, <1>6, <1>7

Took(m, open, s, x) == [m EXCEPT !.open = open, !.obj[s].raw = x]

(* The same for what is open and what an object has.                       *)
LEMMA MemoryTakes ==
  ASSUME NEW m, m = Memory(m.obj, m.open), NEW open, NEW s, NEW x
  PROVE  Took(m, open, s, x) = Memory([m.obj EXCEPT ![s].raw = x], open)
<1>1. m.sane = TRUE /\ m = [obj |-> m.obj, open |-> m.open, sane |-> m.sane]
  BY DEF Memory
<1> DEFINE ob == [m.obj EXCEPT ![s].raw = x]
           n  == [m EXCEPT !.open = open]
<1>2. Took(m, open, s, x) = [n EXCEPT !.obj = ob]
  BY <1>1 DEF Took
<1>3. n = [obj |-> m.obj, open |-> open, sane |-> m.sane]
  BY <1>1
<1> HIDE DEF n, ob
<1>4. n = [obj |-> n.obj, open |-> n.open, sane |-> n.sane]
        /\ n.open = open /\ n.sane = m.sane
  BY <1>3
<1>5. [n EXCEPT !.obj = ob] = [obj |-> ob, open |-> n.open, sane |-> n.sane]
  BY <1>4
<1> QED
  BY <1>1, <1>2, <1>4, <1>5 DEF Memory, ob

(* The same for what is open alone.                                        *)
LEMMA MemoryOpens ==
  ASSUME NEW m, m = Memory(m.obj, m.open), NEW open
  PROVE  [m EXCEPT !.open = open] = Memory(m.obj, open)
<1>1. m.sane = TRUE /\ m = [obj |-> m.obj, open |-> m.open, sane |-> m.sane]
  BY DEF Memory
<1>2. [m EXCEPT !.open = open] =
        [obj |-> m.obj, open |-> open, sane |-> m.sane]
  BY <1>1
<1> QED
  BY <1>1, <1>2 DEF Memory

(* Resources that are open are closed.                                     *)
LEMMA MemoryClosed ==
  ASSUME NEW m, m = Memory(m.obj, m.open), NEW rs, rs \subseteq m.open
  PROVE  Close(m, rs) = Memory(m.obj, m.open \ rs)
<1>1. {<<"closed_again", r[2]>> : r \in rs \ m.open} = {}
  OBVIOUS
<1>2. Close(m, rs) = [m EXCEPT !.open = m.open \ rs]
  BY <1>1 DEF Close
<1> QED
  BY <1>2, MemoryOpens

(* Whatever is closed, only what is open changes.                          *)
LEMMA MemoryClosing ==
  ASSUME NEW m, m = Memory(m.obj, m.open), NEW rs,
         m.open \subseteq Resources, rs \subseteq Resources
  PROVE  \E open2 \in SUBSET Resources :
           /\ Close(m, rs) = Memory(m.obj, open2)
           /\ m.open \ rs \subseteq open2
           /\ rs \subseteq m.open => open2 = m.open \ rs
<1> DEFINE marks == {<<"closed_again", r[2]>> : r \in rs \ m.open}
           open2 == (m.open \ rs) \cup marks
<1>1. \A r \in Resources : <<"closed_again", r[2]>> \in Resources
  BY DEF Resources, Names
<1>2. marks \subseteq Resources /\ (rs \subseteq m.open => marks = {})
  BY <1>1
<1>3. Close(m, rs) = [m EXCEPT !.open = open2]
  BY DEF Close
<1> HIDE DEF marks
<1>4. Close(m, rs) = Memory(m.obj, open2)
  BY <1>3, MemoryOpens
<1> QED
  BY <1>2, <1>4

(* The call, at the step after.                                            *)
LEMMA OnwardCall ==
  ASSUME NEW c \in Call, After(c) \in BuildSteps \cup OtherSteps,
         NEW local \in SUBSET Resources
  PROVE  LET e == [Onward(c) EXCEPT !.local = local]
         IN Moved(c, e) /\ e.at = After(c) /\ e.local = local
            /\ e.shape = c.shape
<1> DEFINE e == [Onward(c) EXCEPT !.local = local]
<1>1. e \in Call
  BY DEF Onward, Call
<1>2. /\ e.op = c.op /\ e.held = c.held /\ e.ids = c.ids /\ e.self = c.self
      /\ e.failed = c.failed /\ e.surface = c.surface /\ e.on = c.on
      /\ e.targets = c.targets /\ e.owed = c.owed
      /\ e.at = After(c) /\ e.local = local /\ e.shape = c.shape
  BY DEF Onward, Call
<1> QED
  BY <1>1, <1>2 DEF Moved

(* The local resources of a construction, after the step taken.            *)
Taken(c) == {<<r, c.self>> : r \in Takes[c.at]}
Owned(c) == {<<r, c.self>> : r \in Takes[c.at] \ Local}

(* What a step of a construction needs.                                    *)
LEMMA BuildMoves ==
  ASSUME RefInv, NEW t \in Threads, NEW do \in Starting, At(t, do),
         NEW local \in SUBSET Resources
  PROVE  LET c == call[t]
             e == [Onward(c) EXCEPT !.local = local]
         IN /\ c \in Call /\ Fit(c, made, store.obj) /\ c.at = do
            /\ up /\ Moved(c, e) /\ e.at = After(c)
            /\ <<c.at, After(c)>> \in Pairs
            /\ c.self \in DOMAIN store.obj /\ c.self \in Nat
            /\ Fit(e, made, store.obj)
            /\ \A o \in Nat \ {NoObject} : RefsOf(e, o) = RefsOf(c, o)
<1> DEFINE c == call[t]
           e == [Onward(c) EXCEPT !.local = local]
<1>1. Fit(c, made, store.obj) /\ c \in Call
  BY CallsAreFit DEF Fit
<1>2. do # "idle"
  BY DEF Starting
<1>3. up /\ c.at = do
  BY <1>2, AtUp
<1>4. /\ <<c.at, After(c)>> \in Pairs
      /\ After(c) = "acquire_target" => c.targets # <<>>
  BY <1>3, BuildAfter
<1>5. /\ c.at \in BuildSteps \ WithBuffer /\ After(c) \in BuildSteps
  BY <1>4, PairsFit
<1>6. c.self # NoObject
  BY <1>1, <1>5 DEF Fit, CallFits
<1>7. c.self \in DOMAIN store.obj /\ c.self \in Nat
  BY <1>1, <1>6 DEF Fit, SelfFits, Call
<1> HIDE DEF c
<1>8. Moved(c, e) /\ e.at = After(c)
  BY <1>1, <1>5, OnwardCall
<1> HIDE DEF e
<1>9. Fit(e, made, store.obj)
  BY <1>1, <1>4, <1>8, BuildFits
<1>10. \A o \in Nat \ {NoObject} : RefsOf(e, o) = RefsOf(c, o)
  BY <1>1, <1>8, MovedRefs
<1> QED
  BY <1>1, <1>3, <1>4, <1>7, <1>8, <1>9, <1>10 DEF c, e

(* The steps that take a resource.                                         *)
LEMMA TakesIs ==
  /\ DOMAIN Takes \subseteq Starting
  /\ \A do \in DOMAIN Takes : Takes[do] \subseteq Names
<1>1. DOMAIN Takes = {"dup", "sync", "import", "dup_chroma", "sync_chroma",
        "import_chroma", "group", "placeholder", "data", "sync_objects",
        "mpp_create", "mpp_init", "enc_cfg", "enc_control", "dec_cfg",
        "dec_timeouts", "worker"}
  BY DEF Takes
<1>2. DOMAIN Takes \subseteq Starting
  BY <1>1 DEF Starting
<1>3. ASSUME NEW do \in DOMAIN Takes
      PROVE  Takes[do] \subseteq Names
  BY <1>1, <1>3 DEF Takes, Names
<1> QED
  BY <1>2, <1>3

(* A resource is acquired.                                                 *)
LEMMA TakeKeeps ==
  ASSUME RefInv, NEW t \in Threads, take_succeeds(t)
  PROVE  RefInv'
<1> DEFINE c   == call[t]
           new == Taken(c)
           own == Owned(c)
<1>1. PICK do \in DOMAIN Takes : At(t, do)
  BY DEF take_succeeds
<1>2. /\ do \in Starting /\ c.at = do /\ Takes[c.at] \subseteq Names
  BY <1>1, TakesIs DEF At
<1>3. c \in Call /\ c.self \in Nat
  BY CallsAreFit DEF Fit, Call
<1>4. new \subseteq Resources /\ own \subseteq new
  <2>1. \A r \in Names : <<r, c.self>> \in Resources
    BY <1>3 DEF Resources
  <2> QED
    BY <1>2, <2>1 DEF Taken, Owned
<1>5. c.local \cup (new \ own) \in SUBSET Resources
  BY <1>3, <1>4 DEF Call
<1> DEFINE e == [Onward(c) EXCEPT !.local = c.local \cup (new \ own)]
<1>6. /\ Fit(e, made, store.obj) /\ up /\ c.self \in DOMAIN store.obj
      /\ \A o \in Nat \ {NoObject} : RefsOf(e, o) = RefsOf(c, o)
  BY <1>1, <1>2, <1>5, BuildMoves
<1> DEFINE rs   == store.obj[c.self].raw \cup own
           obj2 == [store.obj EXCEPT ![c.self].raw = rs]
           op2  == store.open \cup new
<1>7. /\ store = Memory(store.obj, store.open)
      /\ store.open \subseteq Resources
  BY StoreIs
<1>8. store' = Took(store, op2, c.self, rs)
  BY DEF take_succeeds, Taken, Owned, Took
<1>9. store' = Memory(obj2, op2)
  <2> HIDE DEF rs, op2
  <2> QED
    BY <1>7, <1>8, MemoryTakes
<1>10. Goes(t, e) /\ UNCHANGED <<heap, made, up>>
  <2>1. [Onward(c) EXCEPT !.local = @ \cup (new \ own)] = e
    BY <1>3 DEF Onward, Call
  <2> QED
    BY <2>1 DEF take_succeeds, Taken, Owned
<1>11. rs \in SUBSET Resources /\ Well(store.obj)
  <2>1. store.obj[c.self] \in Object
    BY <1>6, StoreWell DEF Well, Objects
  <2> QED
    BY <1>4, <2>1, StoreWell DEF Object
<1>12. /\ SameLinks(store.obj, obj2)
       /\ \A p \in DOMAIN store.obj : obj2[p].refs = store.obj[p].refs
  <2>1. c.self \in DOMAIN store.obj
    BY <1>6
  <2> HIDE DEF rs
  <2> QED
    BY <1>11, <2>1, RawSet, SMTT(30)
<1>13. op2 \subseteq Resources
  BY <1>4, <1>7
<1> HIDE DEF e, obj2, op2
<1> QED
  BY <1>6, <1>9, <1>10, <1>12, <1>13, StepAside

(* The local resources are handed over to the object.                      *)
LEMMA HandOverKeeps ==
  ASSUME RefInv, NEW t \in Threads, hand_over(t)
  PROVE  RefInv'
<1> DEFINE c == call[t]
           e == [Onward(c) EXCEPT !.local = {}]
<1>1. PICK do \in HandOvers : At(t, do)
  BY DEF hand_over
<1>2. do \in Starting
  BY DEF HandOvers, Starting
<1>3. /\ Fit(e, made, store.obj) /\ up /\ c.self \in DOMAIN store.obj
      /\ \A o \in Nat \ {NoObject} : RefsOf(e, o) = RefsOf(c, o)
      /\ c \in Call
  <2>1. {} \in SUBSET Resources
    OBVIOUS
  <2> QED
    BY <1>1, <1>2, <2>1, BuildMoves
<1> DEFINE rs   == store.obj[c.self].raw \cup c.local
           obj2 == [store.obj EXCEPT ![c.self].raw = rs]
<1>4. /\ store = Memory(store.obj, store.open)
      /\ store.open \subseteq Resources
  BY StoreIs
<1>5. store' = [store EXCEPT !.obj[c.self].raw = rs]
  BY DEF hand_over
<1>6. store' = Memory(obj2, store.open)
  BY <1>4, <1>5, MemoryChanges
<1>7. Goes(t, e) /\ UNCHANGED <<heap, made, up>>
  BY DEF hand_over
<1>8. rs \in SUBSET Resources /\ Well(store.obj)
  <2>1. store.obj[c.self] \in Object /\ c.local \subseteq Resources
    BY <1>3, StoreWell DEF Well, Objects, Call
  <2> QED
    BY <2>1, StoreWell DEF Object
<1>9. /\ SameLinks(store.obj, obj2)
      /\ \A p \in DOMAIN store.obj : obj2[p].refs = store.obj[p].refs
  <2> HIDE DEF rs, e
  <2> QED
    BY <1>3, <1>8, RawSet
<1> HIDE DEF e, obj2
<1> QED
  BY <1>3, <1>4, <1>6, <1>7, <1>9, StepAside

(* Closing resources leaves the objects as they are.                       *)
LEMMA StepCloses ==
  ASSUME RefInv, NEW t \in Threads, NEW e, Goes(t, e),
         NEW rs, rs \subseteq store.open, store' = Close(store, rs),
         UNCHANGED <<heap, made, up>>,
         Fit(e, made, store.obj), up \/ e.at = "idle",
         \A o \in Nat \ {NoObject} : RefsOf(e, o) = RefsOf(call[t], o)
  PROVE  RefInv'
<1>1. /\ store = Memory(store.obj, store.open)
      /\ store.open \subseteq Resources
  BY StoreIs
<1>2. store' = Memory(store.obj, store.open \ rs)
  BY <1>1, MemoryClosed
<1>3. SameLinks(store.obj, store.obj)
  BY StoreWell DEF SameLinks, SameTypes, Well, Objects
<1>4. store.open \ rs \subseteq Resources
  BY <1>1
<1> QED
  BY <1>2, <1>3, <1>4, StepAside

(* The decoder's configuration is released.                                *)
LEMMA DecControlKeeps ==
  ASSUME SafeInv, NEW t \in Threads, dec_control(t)
  PROVE  RefInv'
<1> DEFINE c == call[t]
           e == [Onward(c) EXCEPT !.local = {}]
<1>1. RefInv /\ c.local \subseteq store.open
  BY DEF SafeInv, RawFits
<1>2. At(t, "dec_control") /\ "dec_control" \in Starting
  BY DEF dec_control, Starting
<1>3. /\ Fit(e, made, store.obj) /\ up
      /\ \A o \in Nat \ {NoObject} : RefsOf(e, o) = RefsOf(c, o)
  <2>1. {} \in SUBSET Resources
    OBVIOUS
  <2> QED
    BY <1>1, <1>2, <2>1, BuildMoves
<1>4. /\ Goes(t, e) /\ UNCHANGED <<heap, made, up>>
      /\ store' = Close(store, c.local)
  BY DEF dec_control
<1> HIDE DEF e
<1> QED
  BY <1>1, <1>3, <1>4, StepCloses

-----------------------------------------------------------------------------
(***************************************************************************)
(* Failures.                                                               *)
(***************************************************************************)

(* One duty.                                                               *)
LEMMA DueOne ==
  ASSUME NEW x \in Nat, NEW o
  PROVE  /\ <<Step("unref", x)>> \in Seq(Duty)
         /\ <<Step("remove", x)>> \in Seq(Duty)
         /\ Count(Due(<<Step("unref", x)>>), o) = IF x = o THEN 1 ELSE 0
         /\ o # NoObject => Count(Due(<<Step("remove", x)>>), o) = 0
<1>1. Step("unref", x) \in Duty /\ Step("remove", x) \in Duty
  BY DEF Step, Duty
<1>2. /\ <<Step("unref", x)>> \in Seq(Duty)
      /\ <<Step("remove", x)>> \in Seq(Duty)
  BY <1>1
<1>3. Due(<<Step("unref", x)>>) = <<x>>
  BY DEF Due, Step
<1>4. Due(<<Step("remove", x)>>) = <<NoObject>>
  BY DEF Due, Step
<1> QED
  BY <1>2, <1>3, <1>4, CountOne

(* The object under construction is released.                              *)
LEMMA DueSelf ==
  ASSUME NEW c \in Call, NEW o, o # NoObject
  PROVE  /\ SelfGone(c) \in Seq(Duty)
         /\ Count(Due(SelfGone(c)), o) = OnSelf(c, o)
<1>1. c.self \in Nat
  BY DEF Call
<1>2. CASE c.self = NoObject
  <2>1. SelfGone(c) = <<>> /\ Due(<<>>) = <<>> /\ OnSelf(c, o) = 0
    BY <1>2 DEF SelfGone, Due, OnSelf
  <2> QED
    BY <2>1, CountEmpty
<1>3. CASE c.self # NoObject
  <2>1. SelfGone(c) = <<Step("unref", c.self)>>
    BY <1>3 DEF SelfGone
  <2>2. Count(Due(<<Step("unref", c.self)>>), o) =
          IF c.self = o THEN 1 ELSE 0
    BY <1>1, DueOne
  <2>3. SelfGone(c) \in Seq(Duty)
    BY <1>1, <2>1, DueOne
  <2> QED
    BY <2>1, <2>2, <2>3 DEF OnSelf
<1> QED
  BY <1>2, <1>3

(* The surface of a derived image is given back.                           *)
LEMMA DueSurface ==
  ASSUME NEW c \in Call, NEW o
  PROVE  /\ GiveBackSurface(c) \in Seq(Duty)
         /\ Count(Due(GiveBackSurface(c)), o) = Count(OnSurface(c), o)
         /\ OnSurface(c) \in Seq(Nat)
<1>1. c.surface \in Nat
  BY DEF Call
<1>2. CASE c.op = "derive"
  <2>1. /\ GiveBackSurface(c) = <<Step("unref", c.surface)>>
        /\ OnSurface(c) = <<c.surface>>
    BY <1>2 DEF GiveBackSurface, OnSurface
  <2>2. /\ Count(Due(<<Step("unref", c.surface)>>), o) =
             IF c.surface = o THEN 1 ELSE 0
        /\ <<Step("unref", c.surface)>> \in Seq(Duty)
    BY <1>1, DueOne
  <2>3. Count(<<c.surface>>, o) = IF c.surface = o THEN 1 ELSE 0
    BY CountOne
  <2>4. <<c.surface>> \in Seq(Nat)
    BY <1>1
  <2> QED
    BY <2>1, <2>2, <2>3, <2>4
<1>3. CASE c.op # "derive"
  <2>1. GiveBackSurface(c) = <<>> /\ Due(<<>>) = <<>> /\ OnSurface(c) = <<>>
    BY <1>3 DEF GiveBackSurface, Due, OnSurface
  <2> QED
    BY <2>1
<1> QED
  BY <1>2, <1>3

SurfaceCall == SurfaceSteps \cup {"calloc_surface"}
PlainCall   == ContextSteps \cup {"acquire_config", "calloc_context",
                                  "calloc_config", "insert_config", "use"}
Holding     == {"layout", "acquire", "acquire_surface"}
Failing     == SurfaceCall \cup ImageSteps \cup Holding \cup PlainCall

(* The steps that may fail.                                                *)
LEMMA FailingIs ==
  /\ Fallible \subseteq Failing /\ Acquires \subseteq Failing
  /\ "layout" \in Failing /\ "idle" \notin Failing
<1>1. DOMAIN TypeMade \subseteq Failing
  <2>1. DOMAIN TypeMade = {"calloc_surface", "calloc_buffer", "calloc_image",
                           "calloc_context", "calloc_config"}
    BY DEF TypeMade
  <2> QED
    BY <2>1 DEF Failing, SurfaceCall, ImageSteps, PlainCall
<1>2. DOMAIN Takes \subseteq Failing
  <2>1. DOMAIN Takes = {"dup", "sync", "import", "dup_chroma", "sync_chroma",
        "import_chroma", "group", "placeholder", "data", "sync_objects",
        "mpp_create", "mpp_init", "enc_cfg", "enc_control", "dec_cfg",
        "dec_timeouts", "worker"}
    BY DEF Takes
  <2> QED
    BY <2>1 DEF Failing, SurfaceCall, ImageSteps, PlainCall, SurfaceSteps,
                ContextSteps
<1>3. Inserts \cup {"placeholder_fd", "dec_control"} \subseteq Failing
  BY DEF Inserts, Failing, SurfaceCall, ImageSteps, PlainCall, SurfaceSteps,
         ContextSteps
<1>4. Acquires \subseteq Failing
  BY DEF Acquires, LookedAt, Kept, Failing, Holding, ImageSteps, PlainCall,
         ContextSteps
<1>5. "layout" \in Failing /\ "idle" \notin Failing
  BY DEF Failing, SurfaceCall, ImageSteps, PlainCall, SurfaceSteps,
         ContextSteps, Holding
<1> QED
  BY <1>1, <1>2, <1>3, <1>4, <1>5 DEF Fallible

(* What a failing step has and what its cleanup is.                        *)
LEMMA CleanupIs ==
  ASSUME NEW c \in Call, CallFits(c)
  PROVE  /\ c.at \in SurfaceCall =>
              c.held = <<>> /\ Cleanup(c) = SelfGone(c) \o Removes(c.ids)
         /\ c.at \in ImageSteps => Cleanup(c) = UndoImage(c)
         /\ c.at \in Holding => c.self = NoObject /\ Cleanup(c) = Unrefs(c.held)
         /\ c.at \in PlainCall => c.held = <<>> /\ Cleanup(c) = SelfGone(c)
<1>1. ASSUME c.at \in SurfaceCall
      PROVE  c.held = <<>> /\ Cleanup(c) = SelfGone(c) \o Removes(c.ids)
  <2>1. c.op = "surfaces"
    BY <1>1 DEF CallFits, OpsAt, SurfaceCall, SurfaceSteps, BufferSteps,
                ContextSteps, WithBuffer
  <2>2. c.held = <<>>
    BY <1>1 DEF CallFits, Holds, SurfaceCall, SurfaceSteps
  <2>3. /\ c.at \notin ImageSteps
        /\ c.at \notin {"layout", "acquire", "acquire_surface"}
    BY <1>1 DEF SurfaceCall, SurfaceSteps, ImageSteps
  <2> QED
    BY <2>1, <2>2, <2>3 DEF Cleanup
<1>2. ASSUME c.at \in ImageSteps
      PROVE  Cleanup(c) = UndoImage(c)
  <2>1. c.op # "surfaces"
    BY <1>2 DEF CallFits, OpsAt, ImageSteps, SurfaceSteps, BufferSteps,
                ContextSteps, WithBuffer
  <2>2. c.at \notin {"layout", "acquire", "acquire_surface"}
    BY <1>2 DEF ImageSteps
  <2> QED
    BY <1>2, <2>1, <2>2 DEF Cleanup
<1>3. ASSUME c.at \in Holding
      PROVE  c.self = NoObject /\ Cleanup(c) = Unrefs(c.held)
  <2>1. c.op # "surfaces"
    BY <1>3 DEF CallFits, OpsAt, Holding, SurfaceSteps, BufferSteps,
                ContextSteps, WithBuffer
  <2>2. c.at \notin ImageSteps
    BY <1>3 DEF ImageSteps, Holding
  <2>3. c.self = NoObject
    BY <1>3 DEF CallFits, Holding, BuildSteps, SurfaceSteps, BufferSteps,
                ContextSteps
  <2> QED
    BY <1>3, <2>1, <2>2, <2>3 DEF Cleanup, Holding
<1>4. ASSUME c.at \in PlainCall
      PROVE  c.held = <<>> /\ Cleanup(c) = SelfGone(c)
  <2>1. c.op # "surfaces"
    BY <1>4 DEF CallFits, OpsAt, PlainCall, SurfaceSteps, BufferSteps,
                ContextSteps, WithBuffer
  <2>2. /\ c.at \notin ImageSteps
        /\ c.at \notin {"layout", "acquire", "acquire_surface"}
    BY <1>4 DEF PlainCall, ContextSteps, ImageSteps
  <2>3. c.held = <<>>
    BY <1>4 DEF CallFits, Holds, PlainCall, ContextSteps
  <2> QED
    BY <2>1, <2>2, <2>3 DEF Cleanup
<1> QED
  BY <1>1, <1>2, <1>3, <1>4

(* The cleanup gives back what the call has.                               *)
LEMMA CleanupGives ==
  ASSUME NEW c \in Call, CallFits(c), c.at \in Failing, NEW o, o # NoObject
  PROVE  /\ Cleanup(c) \in Seq(Duty)
         /\ Count(Due(Cleanup(c)), o) = Count(c.held, o) + OnSelf(c, o)
<1>1. /\ SelfGone(c) \in Seq(Duty) /\ Count(Due(SelfGone(c)), o) = OnSelf(c, o)
      /\ GiveBackSurface(c) \in Seq(Duty)
      /\ Count(Due(GiveBackSurface(c)), o) = Count(OnSurface(c), o)
      /\ OnSurface(c) \in Seq(Nat)
  BY DueSelf, DueSurface
<1>2. OnSelf(c, o) \in {0, 1} /\ (c.self = NoObject => OnSelf(c, o) = 0)
      /\ c.held \in Seq(Nat) /\ c.ids \in Seq(Nat)
  BY DEF OnSelf, Call
<1>3. Count(<<>>, o) = 0 /\ Count(OnSurface(c), o) \in Nat
  BY <1>1, CountEmpty, CountNone
<1>4. CASE c.at \in SurfaceCall
  <2>1. c.held = <<>> /\ Cleanup(c) = SelfGone(c) \o Removes(c.ids)
    BY <1>4, CleanupIs
  <2>2. /\ Removes(c.ids) \in Seq(Duty) /\ Count(Due(Removes(c.ids)), o) = 0
    BY <1>2, DueRemoves
  <2>3. /\ SelfGone(c) \o Removes(c.ids) \in Seq(Duty)
        /\ Count(Due(SelfGone(c) \o Removes(c.ids)), o) =
             Count(Due(SelfGone(c)), o) + Count(Due(Removes(c.ids)), o)
    BY <1>1, <2>2, DueConcat
  <2> QED
    BY <1>1, <1>2, <1>3, <2>1, <2>2, <2>3
<1>5. CASE c.at \in Holding
  <2>1. c.self = NoObject /\ Cleanup(c) = Unrefs(c.held)
    BY <1>5, CleanupIs
  <2>2. Unrefs(c.held) \in Seq(Duty) /\ Due(Unrefs(c.held)) = c.held
    BY <1>2, DueUnrefs
  <2>3. Count(c.held, o) \in Nat
    BY <1>2, CountNone
  <2> QED
    BY <1>2, <2>1, <2>2, <2>3
<1>6. CASE c.at \in PlainCall
  <2>1. c.held = <<>> /\ Cleanup(c) = SelfGone(c)
    BY <1>6, CleanupIs
  <2> QED
    BY <1>1, <1>2, <1>3, <2>1
<1>7. CASE c.at \in ImageSteps
  <2>1. Cleanup(c) = UndoImage(c)
    BY <1>7, CleanupIs
  <2>2. CASE c.at \in {"calloc_buffer", "data", "insert_buffer"}
    <3>1. UndoImage(c) = SelfGone(c) \o GiveBackSurface(c)
      BY <2>2 DEF UndoImage
    <3>2. c.held = OnSurface(c)
      BY <2>2 DEF CallFits, Holds
    <3>3. /\ SelfGone(c) \o GiveBackSurface(c) \in Seq(Duty)
          /\ Count(Due(SelfGone(c) \o GiveBackSurface(c)), o) =
               Count(Due(SelfGone(c)), o) + Count(Due(GiveBackSurface(c)), o)
      BY <1>1, DueConcat
    <3> QED
      BY <1>1, <1>2, <1>3, <2>1, <3>1, <3>2, <3>3
  <2>3. CASE c.at \in WithBuffer
    <3> DEFINE b == Buffer(c)
               R == <<Step("remove", b)>>
    <3>1. b \in Nat
      <4>1. Len(c.ids) = 1
        BY <2>3 DEF CallFits
      <4> QED
        BY <1>2, <4>1 DEF Buffer
    <3> HIDE DEF b
    <3>2. /\ R \in Seq(Duty) /\ Count(Due(R), o) = 0
          /\ <<Step("unref", b)>> \in Seq(Duty)
          /\ Count(Due(<<Step("unref", b)>>), o) = IF b = o THEN 1 ELSE 0
      BY <3>1, DueOne
    <3>3. CASE c.at = "acquire_buffer"
      <4>1. UndoImage(c) = R \o GiveBackSurface(c)
        BY <3>3 DEF UndoImage, b
      <4>2. c.held = OnSurface(c) /\ c.self = NoObject
        BY <3>3 DEF CallFits, Holds, BuildSteps, SurfaceSteps, BufferSteps,
                    ContextSteps
      <4> HIDE DEF R
      <4>3. /\ R \o GiveBackSurface(c) \in Seq(Duty)
            /\ Count(Due(R \o GiveBackSurface(c)), o) =
                 Count(Due(R), o) + Count(Due(GiveBackSurface(c)), o)
        BY <1>1, <3>2, DueConcat
      <4> QED
        BY <1>1, <1>2, <1>3, <2>1, <3>2, <4>1, <4>2, <4>3
    <3>4. CASE c.at = "calloc_image"
      <4> DEFINE U == <<Step("unref", b)>>
      <4>1. UndoImage(c) = <<Step("unref", b), Step("remove", b)>> \o
                           GiveBackSurface(c)
        BY <3>4 DEF UndoImage, b
      <4>2. <<Step("unref", b), Step("remove", b)>> = U \o R
        OBVIOUS
      <4>3. c.held = OnSurface(c) \o <<b>> /\ c.self = NoObject
        BY <3>4 DEF CallFits, Holds, BuildSteps, SurfaceSteps, BufferSteps,
                    ContextSteps, b
      <4> HIDE DEF R, U
      <4>4. /\ U \in Seq(Duty)
            /\ Count(Due(U), o) = IF b = o THEN 1 ELSE 0
        BY <3>2 DEF U
      <4>5. /\ U \o R \in Seq(Duty)
            /\ Count(Due(U \o R), o) = Count(Due(U), o) + Count(Due(R), o)
        BY <3>2, <4>4, DueConcat
      <4>6. /\ (U \o R) \o GiveBackSurface(c) \in Seq(Duty)
            /\ Count(Due((U \o R) \o GiveBackSurface(c)), o) =
                 Count(Due(U \o R), o) + Count(Due(GiveBackSurface(c)), o)
        BY <1>1, <4>5, DueConcat
      <4>7. Count(OnSurface(c) \o <<b>>, o) =
              Count(OnSurface(c), o) + Count(<<b>>, o)
        <5>1. <<b>> \in Seq(Nat)
          BY <3>1
        <5>2. OnSurface(c) \in Seq(Nat)
          BY <1>1
        <5> QED
          BY <5>1, <5>2, CountConcat, ZenonT(30)
      <4>8. Count(<<b>>, o) = IF b = o THEN 1 ELSE 0
        BY CountOne
      <4>9. UndoImage(c) = (U \o R) \o GiveBackSurface(c)
        BY <4>1, <4>2
      <4>10. Count(Due(UndoImage(c)), o) =
               (IF b = o THEN 1 ELSE 0) + 0 + Count(OnSurface(c), o)
        BY <1>1, <3>2, <4>4, <4>5, <4>6, <4>9
      <4>11. Count(c.held, o) =
               Count(OnSurface(c), o) + (IF b = o THEN 1 ELSE 0)
        BY <4>3, <4>7, <4>8
      <4> QED
        BY <1>2, <1>3, <2>1, <4>3, <4>6, <4>9, <4>10, <4>11
    <3>5. CASE c.at = "insert_image"
      <4>1. UndoImage(c) = SelfGone(c) \o R
        BY <3>5 DEF UndoImage, b
      <4>2. c.held = <<>>
        BY <3>5 DEF CallFits, Holds
      <4> HIDE DEF R
      <4>3. /\ SelfGone(c) \o R \in Seq(Duty)
            /\ Count(Due(SelfGone(c) \o R), o) =
                 Count(Due(SelfGone(c)), o) + Count(Due(R), o)
        BY <1>1, <3>2, DueConcat
      <4> QED
        BY <1>1, <1>2, <1>3, <2>1, <3>2, <4>1, <4>2, <4>3
    <3> QED
      BY <2>3, <3>3, <3>4, <3>5 DEF WithBuffer
  <2> QED
    BY <1>7, <2>2, <2>3 DEF ImageSteps, WithBuffer
<1> QED
  BY <1>4, <1>5, <1>6, <1>7 DEF Failing

(* It gives back objects only.                                             *)
LEMMA CleanupReal ==
  ASSUME NEW c \in Call, CallFits(c), c.at \in Failing, NEW n, Known(c, n)
  PROVE  Real(Cleanup(c))
<1>1. /\ SelfGone(c) \in Seq(Duty) /\ GiveBackSurface(c) \in Seq(Duty)
  <2>1. 1 # NoObject
    BY DEF NoObject
  <2> QED
    BY <2>1, DueSelf, DueSurface
<1>2. Real(SelfGone(c))
  BY RealLists DEF SelfGone
<1>3. \A k \in DOMAIN c.held : c.held[k] # NoObject
  BY DEF Known
<1>4. c.ids \in Seq(Nat)
  BY DEF Call
<1>5. CASE c.at \in SurfaceCall
  <2>1. Cleanup(c) = SelfGone(c) \o Removes(c.ids)
    BY <1>5, CleanupIs
  <2>2. Removes(c.ids) \in Seq(Duty) /\ Real(Removes(c.ids))
    <3>1. 1 # NoObject
      BY DEF NoObject
    <3> QED
      BY <1>4, <3>1, DueRemoves, RealLists
  <2> QED
    BY <1>1, <1>2, <2>1, <2>2, RealConcat
<1>6. CASE c.at \in Holding
  <2>1. Cleanup(c) = Unrefs(c.held)
    BY <1>6, CleanupIs
  <2> QED
    BY <1>3, <2>1, RealLists
<1>7. CASE c.at \in PlainCall
  <2>1. Cleanup(c) = SelfGone(c)
    BY <1>7, CleanupIs
  <2> QED
    BY <1>2, <2>1
<1>8. CASE c.at \in ImageSteps
  <2>1. Cleanup(c) = UndoImage(c)
    BY <1>8, CleanupIs
  <2>2. ASSUME c.at # "insert_image"
        PROVE  Real(GiveBackSurface(c))
    <3>1. CASE c.op = "derive"
      <4>1. c.held = <<c.surface>> \/ c.held = <<c.surface>> \o <<Buffer(c)>>
        BY <1>8, <2>2, <3>1 DEF CallFits, Holds, OnSurface, ImageSteps
      <4>2. c.held[1] = c.surface /\ 1 \in DOMAIN c.held
        BY <4>1
      <4>3. c.surface # NoObject
        BY <1>3, <4>2
      <4>4. GiveBackSurface(c) = <<Step("unref", c.surface)>>
        BY <3>1 DEF GiveBackSurface
      <4> QED
        BY <4>3, <4>4, RealLists
    <3>2. CASE c.op # "derive"
      <4>1. GiveBackSurface(c) = <<>>
        BY <3>2 DEF GiveBackSurface
      <4> QED
        BY <4>1, RealLists
    <3> QED
      BY <3>1, <3>2
  <2>3. CASE c.at \in {"calloc_buffer", "data", "insert_buffer"}
    <3>1. UndoImage(c) = SelfGone(c) \o GiveBackSurface(c)
      BY <2>3 DEF UndoImage
    <3>2. Real(GiveBackSurface(c))
      BY <2>2, <2>3
    <3> QED
      BY <1>1, <1>2, <2>1, <3>1, <3>2, RealConcat
  <2>4. CASE c.at \in WithBuffer
    <3> DEFINE b == Buffer(c)
               R == <<Step("remove", b)>>
               U == <<Step("unref", b)>>
    <3>1. b \in Nat
      <4>1. Len(c.ids) = 1
        BY <2>4 DEF CallFits
      <4> QED
        BY <1>4, <4>1 DEF Buffer
    <3> HIDE DEF b
    <3>2. R \in Seq(Duty) /\ Real(R) /\ U \in Seq(Duty)
      BY <3>1, DueOne, RealLists
    <3>3. CASE c.at = "acquire_buffer"
      <4>1. UndoImage(c) = R \o GiveBackSurface(c)
        BY <3>3 DEF UndoImage, b
      <4>2. Real(GiveBackSurface(c))
        BY <2>2, <3>3
      <4> HIDE DEF R
      <4> QED
        BY <1>1, <2>1, <3>2, <4>1, <4>2, RealConcat
    <3>4. CASE c.at = "calloc_image"
      <4>1. UndoImage(c) = <<Step("unref", b), Step("remove", b)>> \o
                           GiveBackSurface(c)
        BY <3>4 DEF UndoImage, b
      <4>2. <<Step("unref", b), Step("remove", b)>> = U \o R
        OBVIOUS
      <4>3. Real(GiveBackSurface(c))
        BY <2>2, <3>4
      <4>4. Real(U)
        <5>1. c.held = OnSurface(c) \o <<b>>
          BY <3>4 DEF CallFits, Holds, b
        <5>2. OnSurface(c) \in Seq(Nat) /\ <<b>> \in Seq(Nat)
          BY <3>1, DueSurface
        <5>3. /\ Len(OnSurface(c)) + 1 \in DOMAIN c.held
              /\ c.held[Len(OnSurface(c)) + 1] = b
          BY <5>1, <5>2
        <5>4. b # NoObject
          BY <1>3, <5>3
        <5> QED
          BY <5>4, RealLists
      <4> HIDE DEF R, U
      <4>5. U \o R \in Seq(Duty) /\ Real(U \o R)
        BY <3>2, <4>4, RealConcat
      <4> QED
        BY <1>1, <2>1, <4>1, <4>2, <4>3, <4>5, RealConcat
    <3>5. CASE c.at = "insert_image"
      <4>1. UndoImage(c) = SelfGone(c) \o R
        BY <3>5 DEF UndoImage, b
      <4> HIDE DEF R
      <4> QED
        BY <1>1, <1>2, <2>1, <3>2, <4>1, RealConcat
    <3> QED
      BY <2>4, <3>3, <3>4, <3>5 DEF WithBuffer
  <2> QED
    BY <1>8, <2>3, <2>4 DEF ImageSteps, WithBuffer
<1> QED
  BY <1>5, <1>6, <1>7, <1>8 DEF Failing

(* A step fails: the call's local resources are closed and what it has is  *)
(* given back.                                                             *)
LEMMA FailsKeeps ==
  ASSUME SafeInv, NEW t \in Threads, NEW do \in Failing, At(t, do), Fails(t)
  PROVE  RefInv'
<1> DEFINE c == call[t]
           e == [c EXCEPT !.at = "idle", !.owed = Cleanup(c), !.local = {},
                          !.self = NoObject, !.held = <<>>, !.failed = TRUE]
           rs == {<<r, c.self>> : r \in ClosedOnFailure(c.at)}
<1>1. RefInv /\ c \in Call /\ CallFits(c) /\ Fit(c, made, store.obj)
  BY CallsAreFit DEF SafeInv, Fit
<1>2. up /\ c.at = do /\ c.owed = <<>>
  BY <1>1, AtUp, FailingIs
<1>3. rs = c.local \/ c.at = "keep_import"
  BY <1>1 DEF SafeInv, RawFits, LocalFits, OwnedBy
<1>4. c.at # "keep_import" \/ rs = {}
  BY DEF ClosedOnFailure
<1>5. rs \subseteq store.open
  BY <1>3, <1>4 DEF SafeInv, RawFits
<1>6. /\ Goes(t, e) /\ UNCHANGED <<heap, made, up>>
      /\ store' = Close(store, rs)
  BY DEF Fails
<1>7. /\ Cleanup(c) \in Seq(Duty)
      /\ \A o : o # NoObject =>
           Count(Due(Cleanup(c)), o) = Count(c.held, o) + OnSelf(c, o)
  <2>1. \A o : o # NoObject => /\ Cleanup(c) \in Seq(Duty)
               /\ Count(Due(Cleanup(c)), o) = Count(c.held, o) + OnSelf(c, o)
    BY <1>1, <1>2, CleanupGives
  <2>2. 1 # NoObject
    BY DEF NoObject
  <2> QED
    BY <2>1, <2>2
<1> HIDE DEF c
<1>8. /\ e.at = "idle" /\ e.owed = Cleanup(c) /\ e.local = {}
      /\ e.self = NoObject /\ e.held = <<>> /\ e.failed = TRUE
      /\ e.op = c.op /\ e.ids = c.ids /\ e.surface = c.surface
      /\ e.on = c.on /\ e.targets = c.targets
  BY <1>1 DEF Call
<1>9. e \in Call
  <2>1. /\ "idle" \in BuildSteps \cup OtherSteps /\ NoObject \in Nat
        /\ <<>> \in Seq(Nat) /\ {} \in SUBSET Resources
    BY DEF NoObject, OtherSteps
  <2> QED
    BY <1>1, <1>7, <2>1 DEF Call
<1> HIDE DEF e, rs
<1>10. CallFits(e)
  <2>1. e.op \in Ops
    BY <1>9 DEF Call
  <2> QED
    BY <1>8, <2>1 DEF CallFits, OpsAt, Holds, WithBuffer, BuildSteps,
              SurfaceSteps, BufferSteps, ContextSteps
<1>11. Known(e, made)
  <2>1. Real(Cleanup(c))
    BY <1>1, <1>2, CleanupReal DEF Fit, c
  <2> QED
    BY <1>1, <1>8, <2>1, StoreIs DEF Fit, Known, NoObject
<1>12. Named(e, store.obj) /\ SelfFits(e, store.obj)
  BY <1>1, <1>8 DEF Fit, Named, SelfFits
<1>13. ASSUME NEW o \in Nat \ {NoObject}
       PROVE  RefsOf(e, o) = RefsOf(c, o)
  <2>1. RefsOf(e, o) = Count(e.held, o) + Count(Due(e.owed), o) + OnSelf(e, o)
    BY <1>9, OwedDue
  <2>2. /\ RefsOf(c, o) =
               Count(c.held, o) + Count(Due(c.owed), o) + OnSelf(c, o)
        /\ Count(c.held, o) \in Nat /\ OnSelf(c, o) \in Nat
    BY <1>1, OwedDue
  <2>3. Count(e.held, o) = 0 /\ Count(Due(c.owed), o) = 0 /\ OnSelf(e, o) = 0
    <3>1. Due(<<>>) = <<>>
      BY DEF Due
    <3> QED
      BY <1>2, <1>8, <3>1, CountEmpty DEF OnSelf, c
  <2>4. Count(Due(e.owed), o) = Count(c.held, o) + OnSelf(c, o)
    BY <1>7, <1>8
  <2> QED
    BY <2>1, <2>2, <2>3, <2>4
<1>14. Fit(e, made, store.obj)
  BY <1>9, <1>10, <1>11, <1>12 DEF Fit
<1> QED
  BY <1>1, <1>2, <1>5, <1>6, <1>13, <1>14, StepCloses DEF c

-----------------------------------------------------------------------------
(***************************************************************************)
(* Steps of calls that construct nothing.                                  *)
(***************************************************************************)

(* Another step that expects the same references.                          *)
LEMMA MovedFits ==
  ASSUME NEW c, NEW n, NEW obj, Fit(c, n, obj), NEW e, Moved(c, e),
         c.at \notin BuildSteps \cup WithBuffer \cup {"idle"},
         e.at \notin BuildSteps \cup WithBuffer \cup {"enqueue"},
         e.op \in OpsAt(e.at), e.held = Holds(e)
  PROVE  Fit(e, n, obj)
<1>1. "acquire_target" \in BuildSteps
  BY DEF BuildSteps, ContextSteps
<1>2. CallFits(e)
  BY <1>1 DEF Fit, CallFits, Moved
<1>3. Known(e, n)
  BY DEF Fit, Known, Moved
<1>4. Named(e, obj) /\ SelfFits(e, obj)
  BY DEF Fit, Named, SelfFits, Moved, CallFits
<1> QED
  BY <1>2, <1>3, <1>4 DEF Fit, Moved

(* The surface is derivable.                                               *)
LEMMA DerivableKeeps ==
  ASSUME RefInv, NEW t \in Threads, derivable(t)
  PROVE  RefInv'
<1> DEFINE c == call[t]
           e == Onward(c)
<1>1. Fit(c, made, store.obj) /\ c \in Call /\ CallFits(c)
  BY CallsAreFit DEF Fit
<1>2. At(t, "layout") /\ Goes(t, e) /\ UNCHANGED <<store, heap, made, up>>
  BY DEF derivable
<1>3. up /\ c.at = "layout"
  BY <1>2, AtUp
<1>4. After(c) = "calloc_buffer"
  BY <1>3 DEF After, Order
<1>5. c.op = "derive" /\ c.held = <<c.surface>>
  BY <1>1, <1>3 DEF CallFits, Holds, OpsAt, SurfaceSteps, BufferSteps,
                    ContextSteps, WithBuffer
<1> HIDE DEF c
<1>6. e \in Call
  <2>1. "calloc_buffer" \in BuildSteps \cup OtherSteps
    BY DEF OtherSteps
  <2> QED
    BY <1>1, <1>4, <2>1 DEF Onward, Call
<1>7. Moved(c, e) /\ e.at = "calloc_buffer"
  BY <1>1, <1>4, <1>6 DEF Moved, Onward, Call
<1> HIDE DEF e
<1>8. /\ c.at \notin BuildSteps \cup WithBuffer \cup {"idle"}
      /\ e.at \notin BuildSteps \cup WithBuffer \cup {"enqueue"}
  BY <1>3, <1>7 DEF BuildSteps, SurfaceSteps, BufferSteps, ContextSteps,
                    WithBuffer
<1>9. e.op \in OpsAt(e.at)
  BY <1>5, <1>7 DEF Moved, OpsAt, SurfaceSteps, BufferSteps, ContextSteps,
                    WithBuffer
<1>10. e.held = Holds(e)
  BY <1>5, <1>7 DEF Moved, Holds, OnSurface
<1>11. Fit(e, made, store.obj)
  BY <1>1, <1>7, <1>8, <1>9, <1>10, MovedFits
<1>12. \A o \in Nat \ {NoObject} : RefsOf(e, o) = RefsOf(c, o)
  BY <1>1, <1>7, MovedRefs
<1> QED
  BY <1>2, <1>3, <1>11, <1>12, StepStill DEF c

(* The last step of a call that returns its references.                    *)
LastSteps == {"begin", "end", "handle", "release", "dup_handle",
              "drop_handle", "enqueue"}

Back(c, list) ==
  [c EXCEPT !.at = "idle", !.held = <<>>, !.owed = Unrefs(list)]

(* A call at its last step.                                                *)
LEMMA LastFits ==
  ASSUME RefInv, NEW t \in Threads, NEW do \in LastSteps, At(t, do)
  PROVE  LET c == call[t]
         IN /\ up /\ c.at = do /\ c \in Call /\ c.op # "surfaces"
            /\ c.self = NoObject /\ c.owed = <<>> /\ c.failed = FALSE
            /\ c.ids = <<>> /\ c.held = Holds(c) /\ c.op \in OpsAt(do)
            /\ c.op \in {"begin", "end", "handle", "release"}
            /\ \A o \in Nat \ {NoObject} : RefsOf(c, o) = Count(c.held, o)
<1> DEFINE c == call[t]
<1>1. Fit(c, made, store.obj) /\ c \in Call /\ CallFits(c)
  BY CallsAreFit DEF Fit
<1>2. up /\ c.at = do /\ c.owed = <<>>
  BY AtUp DEF LastSteps
<1>3. c.at \notin BuildSteps \cup WithBuffer \cup {"idle"}
  BY <1>2 DEF LastSteps, BuildSteps, SurfaceSteps, BufferSteps, ContextSteps,
              WithBuffer
<1>4. c.op \in {"begin", "end", "handle", "release"}
  BY <1>1, <1>2 DEF CallFits, LastSteps, OpsAt, SurfaceSteps, BufferSteps,
                    ContextSteps, WithBuffer
<1>5. /\ c.self = NoObject /\ c.failed = FALSE /\ c.ids = <<>>
      /\ c.held = Holds(c) /\ c.op \in OpsAt(do)
  BY <1>1, <1>2, <1>3, <1>4 DEF CallFits, Call
<1>6. ASSUME NEW o \in Nat \ {NoObject}
      PROVE  RefsOf(c, o) = Count(c.held, o)
  <2> HIDE DEF c
  <2>1. /\ RefsOf(c, o) =
               Count(c.held, o) + Count(Due(c.owed), o) + OnSelf(c, o)
        /\ Count(c.held, o) \in Nat
    BY <1>1, OwedDue
  <2>2. Due(<<>>) = <<>> /\ OnSelf(c, o) = 0
    BY <1>5 DEF Due, OnSelf
  <2> QED
    BY <1>2, <2>1, <2>2, CountEmpty DEF c
<1> QED
  BY <1>1, <1>2, <1>4, <1>5, <1>6

(* What it returns.                                                        *)
LEMMA BackFits ==
  ASSUME RefInv, NEW t \in Threads, NEW do \in LastSteps, At(t, do),
         NEW list \in Seq(Nat), \A k \in DOMAIN list : list[k] # NoObject
  PROVE  LET e == Back(call[t], list)
         IN /\ Fit(e, made, store.obj) /\ e.at = "idle"
            /\ e.self = NoObject /\ e.local = call[t].local
            /\ e.failed = FALSE /\ e.ids = <<>>
            /\ \A o \in Nat \ {NoObject} : RefsOf(e, o) = Count(list, o)
<1> DEFINE c == call[t]
           e == Back(c, list)
<1>1. /\ up /\ c.at = do /\ c \in Call /\ c.op # "surfaces"
      /\ c.self = NoObject /\ c.failed = FALSE
      /\ c.ids = <<>> /\ c.op \in {"begin", "end", "handle", "release"}
  BY LastFits
<1>2. Fit(c, made, store.obj)
  BY CallsAreFit
<1>3. Unrefs(list) \in Seq(Duty) /\ Due(Unrefs(list)) = list
  BY DueUnrefs
<1> HIDE DEF c
<1>4. e \in Call
  <2>1. "idle" \in BuildSteps \cup OtherSteps /\ <<>> \in Seq(Nat)
    BY DEF OtherSteps
  <2> QED
    BY <1>1, <1>3, <2>1 DEF Call, Back
<1>5. /\ e.at = "idle" /\ e.held = <<>> /\ e.owed = Unrefs(list)
      /\ e.op = c.op /\ e.ids = c.ids /\ e.self = c.self /\ e.local = c.local
      /\ e.failed = c.failed /\ e.surface = c.surface /\ e.on = c.on
      /\ e.targets = c.targets
  BY <1>1 DEF Call, Back
<1> HIDE DEF e
<1>6. CallFits(e)
  BY <1>1, <1>5 DEF CallFits, OpsAt, Holds, WithBuffer, BuildSteps,
              SurfaceSteps, BufferSteps, ContextSteps, Ops
<1>7. Known(e, made)
  BY <1>2, <1>5, RealLists DEF Fit, Known
<1>8. Named(e, store.obj) /\ SelfFits(e, store.obj)
  BY <1>1, <1>2, <1>5 DEF Fit, Named, SelfFits
<1>9. ASSUME NEW o \in Nat \ {NoObject}
      PROVE  RefsOf(e, o) = Count(list, o)
  <2>1. /\ RefsOf(e, o) =
               Count(e.held, o) + Count(Due(e.owed), o) + OnSelf(e, o)
        /\ Count(Due(e.owed), o) \in Nat
    BY <1>4, OwedDue
  <2>2. OnSelf(e, o) = 0 /\ Count(e.held, o) = 0
    BY <1>1, <1>5, CountEmpty DEF OnSelf
  <2> QED
    BY <1>3, <1>5, <2>1, <2>2
<1> QED
  BY <1>1, <1>4, <1>5, <1>6, <1>7, <1>8, <1>9 DEF Fit, c, e

(* A list of two.                                                          *)
LEMMA PairConcat ==
  ASSUME NEW x, NEW y
  PROVE  <<x, y>> = <<x>> \o <<y>>
<1> DEFINE S == {x, y}
           u == <<x>>
           v == <<y>>
           w == <<x, y>>
<1>1. /\ u \in Seq(S) /\ v \in Seq(S) /\ w \in Seq(S)
      /\ Len(u) = 1 /\ Len(v) = 1 /\ Len(w) = 2
      /\ u[1] = x /\ v[1] = y /\ w[1] = x /\ w[2] = y
  OBVIOUS
<1> HIDE DEF S, u, v, w
<1>2. /\ u \o v \in Seq(S) /\ Len(u \o v) = 2
      /\ \A i \in 1 .. Len(u) + Len(v) :
           (u \o v)[i] = IF i <= Len(u) THEN u[i] ELSE v[i - Len(u)]
  BY <1>1, ConcatProperties
<1>3. \A i \in 1 .. 2 : (u \o v)[i] = w[i]
  BY <1>1, <1>2
<1>4. u \o v = w
  BY <1>1, <1>2, <1>3, SeqEqual
<1> QED
  BY <1>4 DEF u, v, w

(* The order of two references does not matter.                            *)
LEMMA CountTwo ==
  ASSUME NEW x \in Nat, NEW y \in Nat, NEW o
  PROVE  Count(<<x, y>>, o) = (IF x = o THEN 1 ELSE 0) + (IF y = o THEN 1 ELSE 0)
<1> DEFINE u == <<x>>
           v == <<y>>
<1>1. u \in Seq(Nat) /\ v \in Seq(Nat)
  OBVIOUS
<1>2. <<x, y>> = u \o v
  BY PairConcat, Zenon
<1>3. /\ Count(u, o) = IF x = o THEN 1 ELSE 0
      /\ Count(v, o) = IF y = o THEN 1 ELSE 0
  BY CountOne
<1> HIDE DEF u, v
<1>4. Count(u \o v, o) = Count(u, o) + Count(v, o)
  BY <1>1, CountConcat
<1> QED
  BY <1>2, <1>3, <1>4

(* A call returns what it held.                                            *)
LEMMA ReturnStill ==
  ASSUME RefInv, NEW t \in Threads, NEW do \in LastSteps, At(t, do),
         NEW list \in Seq(Nat), Returns(t, list),
         \A k \in DOMAIN list : list[k] # NoObject,
         UNCHANGED <<store, heap, made, up>>,
         \A o \in Nat \ {NoObject} : Count(list, o) = Count(call[t].held, o)
  PROVE  RefInv'
<1> DEFINE e == Back(call[t], list)
<1>1. /\ Fit(e, made, store.obj)
      /\ \A o \in Nat \ {NoObject} : RefsOf(e, o) = Count(list, o)
  BY BackFits
<1>2. /\ up
      /\ \A o \in Nat \ {NoObject} : RefsOf(call[t], o) = Count(call[t].held, o)
  BY LastFits
<1>3. Goes(t, e)
  BY DEF Returns, Back
<1> HIDE DEF e
<1>4. \A o \in Nat \ {NoObject} : RefsOf(e, o) = RefsOf(call[t], o)
  BY <1>1, <1>2
<1> QED
  BY <1>1, <1>2, <1>3, <1>4, StepStill

(* What a call holds.                                                      *)
LEMMA HeldReal ==
  ASSUME RefInv, NEW t \in Threads
  PROVE  /\ \A x, y : call[t].held = <<x, y>> => x # NoObject /\ y # NoObject
         /\ \A x : call[t].held = <<x>> => x # NoObject
<1>1. \A k \in DOMAIN call[t].held : call[t].held[k] # NoObject
  BY CallsAreFit DEF Fit, Known
<1> QED
  BY <1>1

(* BeginPicture refuses.                                                   *)
LEMMA RefusedKeeps ==
  ASSUME RefInv, NEW t \in Threads, begin_refused(t)
  PROVE  RefInv'
<1> DEFINE c == call[t].on
           s == call[t].surface
<1>1. At(t, "begin") /\ "begin" \in LastSteps
  BY DEF begin_refused, LastSteps
<1>2. /\ call[t] \in Call /\ call[t].held = Holds(call[t])
      /\ call[t].at = "begin"
  BY <1>1, LastFits
<1>3. c \in Nat /\ s \in Nat /\ call[t].held = <<c, s>>
  BY <1>2 DEF Call, Holds
<1>4. Returns(t, <<s, c>>) /\ UNCHANGED <<store, heap, made, up>>
  BY DEF begin_refused
<1> HIDE DEF c, s
<1>5. \A o \in Nat \ {NoObject} : Count(<<s, c>>, o) = Count(call[t].held, o)
  BY <1>3, CountTwo
<1>6. <<s, c>> \in Seq(Nat)
      /\ \A k \in DOMAIN <<s, c>> : <<s, c>>[k] # NoObject
  <2>1. c # NoObject /\ s # NoObject
    BY <1>3, HeldReal
  <2> QED
    BY <1>3, <2>1
<1> QED
  BY <1>1, <1>4, <1>5, <1>6, ReturnStill

(* The second reference of a call about to enqueue a job.                  *)
LEMMA EnqueueHolds ==
  ASSUME RefInv, NEW t \in Threads, At(t, "enqueue")
  PROVE  LET c == call[t]
         IN /\ c.held = <<c.on, c.held[2]>> /\ c.on \in Nat
            /\ c.held[2] \in Nat /\ c.op = "end"
<1> DEFINE c == call[t]
<1>1. /\ c \in Call /\ c.held = Holds(c) /\ c.at = "enqueue"
      /\ c.op \in OpsAt("enqueue")
  BY LastFits DEF LastSteps
<1>2. c.held = <<c.on, c.held[2]>> /\ c.op = "end"
  BY <1>1 DEF Holds, OpsAt, SurfaceSteps, BufferSteps, ContextSteps,
              WithBuffer
<1>3. c.held \in Seq(Nat) /\ c.on \in Nat
  BY <1>1 DEF Call
<1>4. 2 \in DOMAIN c.held
  BY <1>2
<1> QED
  BY <1>2, <1>3, <1>4

(* The job is rejected.                                                    *)
LEMMA RejectKeeps ==
  ASSUME RefInv, NEW t \in Threads, reject(t)
  PROVE  RefInv'
<1> DEFINE c == call[t].on
           s == call[t].held[2]
<1>1. At(t, "enqueue") /\ "enqueue" \in LastSteps
  BY DEF reject, LastSteps
<1>2. c \in Nat /\ s \in Nat /\ call[t].held = <<c, s>>
  BY <1>1, EnqueueHolds
<1>3. Returns(t, <<s, c>>) /\ UNCHANGED <<store, heap, made, up>>
  BY DEF reject
<1> HIDE DEF c, s
<1>4. \A o \in Nat \ {NoObject} : Count(<<s, c>>, o) = Count(call[t].held, o)
  BY <1>2, CountTwo
<1>5. <<s, c>> \in Seq(Nat)
      /\ \A k \in DOMAIN <<s, c>> : <<s, c>>[k] # NoObject
  <2>1. c # NoObject /\ s # NoObject
    BY <1>2, HeldReal
  <2> QED
    BY <1>2, <2>1
<1> QED
  BY <1>1, <1>3, <1>4, <1>5, ReturnStill

(* What a call has a reference on is alive.                                *)
LEMMA HeldAlive ==
  ASSUME RefInv, NEW t \in Threads, NEW o \in Nat, o # NoObject,
         RefsOf(call[t], o) > 0
  PROVE  o \in DOMAIN store.obj /\ Reachable(t, o)
BY RefsAdd DEF Reachable

(* What the call holds on its last step.                                   *)
LEMMA LastHolds ==
  ASSUME RefInv, NEW t \in Threads, NEW do \in LastSteps, At(t, do)
  PROVE  LET c == call[t]
         IN /\ c.on \in DOMAIN store.obj /\ c.on \in Nat /\ c.on # NoObject
            /\ Reachable(t, c.on)
            /\ do \in {"begin"} => /\ c.held = <<c.on, c.surface>>
                                   /\ c.surface \in DOMAIN store.obj
                                   /\ c.surface \in Nat /\ c.surface # NoObject
                                   /\ Reachable(t, c.surface)
            /\ do \in {"end", "handle", "release", "dup_handle",
                       "drop_handle"} => c.held = <<c.on>>
            /\ do = "enqueue" => /\ c.held = <<c.on, c.held[2]>>
                                 /\ c.held[2] \in DOMAIN store.obj
                                 /\ c.held[2] \in Nat /\ c.held[2] # NoObject
                                 /\ Reachable(t, c.held[2])
<1> DEFINE c == call[t]
<1>1. /\ c.at = do /\ c \in Call /\ c.held = Holds(c)
      /\ \A o \in Nat \ {NoObject} : RefsOf(c, o) = Count(c.held, o)
  BY LastFits
<1>2. \A k \in DOMAIN c.held : c.held[k] # NoObject
  BY CallsAreFit DEF Fit, Known
<1>3. c.held \in Seq(Nat) /\ c.on \in Nat /\ c.surface \in Nat
  BY <1>1 DEF Call
<1>4. ASSUME NEW k \in DOMAIN c.held
      PROVE  /\ c.held[k] \in DOMAIN store.obj /\ c.held[k] \in Nat
             /\ c.held[k] # NoObject /\ Reachable(t, c.held[k])
  <2>1. c.held[k] \in Nat \ {NoObject}
    BY <1>2, <1>3
  <2>2. Count(c.held, c.held[k]) \in Nat /\ Count(c.held, c.held[k]) # 0
    BY <1>3, CountNone
  <2>3. RefsOf(c, c.held[k]) > 0
    BY <1>1, <2>1, <2>2
  <2> QED
    BY <2>1, <2>3, HeldAlive
<1>5. CASE do = "begin"
  <2>1. c.held = <<c.on, c.surface>>
    BY <1>1, <1>5 DEF Holds
  <2>2. 1 \in DOMAIN c.held /\ 2 \in DOMAIN c.held
        /\ c.held[1] = c.on /\ c.held[2] = c.surface
    BY <2>1
  <2> QED
    BY <1>4, <1>5, <2>1, <2>2
<1>6. CASE do \in {"end", "handle", "release", "dup_handle", "drop_handle"}
  <2>1. c.held = <<c.on>>
    BY <1>1, <1>6 DEF Holds
  <2>2. 1 \in DOMAIN c.held /\ c.held[1] = c.on
    BY <2>1
  <2> QED
    BY <1>4, <1>6, <2>1, <2>2
<1>7. CASE do = "enqueue"
  <2>1. c.held = <<c.on, c.held[2]>>
    BY <1>1, <1>7 DEF Holds
  <2>2. 1 \in DOMAIN c.held /\ 2 \in DOMAIN c.held /\ c.held[1] = c.on
    BY <2>1
  <2> QED
    BY <1>4, <1>7, <2>1, <2>2
<1> QED
  BY <1>5, <1>6, <1>7 DEF LastSteps

(* A call returns its one reference; the raw resources may change.         *)
LEMMA ReturnAside ==
  ASSUME RefInv, NEW t \in Threads,
         NEW do \in {"end", "handle", "release", "dup_handle",
                     "drop_handle"}, At(t, do),
         Returns(t, <<call[t].on>>),
         NEW obj2, NEW open2, store' = Memory(obj2, open2),
         SameLinks(store.obj, obj2),
         \A p \in DOMAIN store.obj : obj2[p].refs = store.obj[p].refs,
         open2 \subseteq Resources, UNCHANGED <<heap, made, up>>
  PROVE  RefInv'
<1> DEFINE list == <<call[t].on>>
           e    == Back(call[t], list)
<1>1. do \in LastSteps
  BY DEF LastSteps
<1>2. call[t].held = list /\ call[t].on \in Nat /\ call[t].on # NoObject
  BY <1>1, LastHolds
<1>3. list \in Seq(Nat) /\ \A k \in DOMAIN list : list[k] # NoObject
  BY <1>2
<1>4. Goes(t, e)
  BY DEF Returns, Back
<1> HIDE DEF list
<1>5. /\ Fit(e, made, store.obj)
      /\ \A o \in Nat \ {NoObject} : RefsOf(e, o) = Count(list, o)
  BY <1>1, <1>3, BackFits
<1>6. /\ up
      /\ \A o \in Nat \ {NoObject} : RefsOf(call[t], o) = Count(call[t].held, o)
  BY <1>1, LastFits
<1> HIDE DEF e
<1>7. \A o \in Nat \ {NoObject} : RefsOf(e, o) = RefsOf(call[t], o)
  BY <1>2, <1>5, <1>6
<1> QED
  BY <1>4, <1>5, <1>6, <1>7, StepAside

(* The same with the objects unchanged.                                    *)
LEMMA ReturnOne ==
  ASSUME RefInv, NEW t \in Threads,
         NEW do \in {"end", "handle", "release", "dup_handle",
                     "drop_handle"}, At(t, do),
         Returns(t, <<call[t].on>>), UNCHANGED <<store, heap, made, up>>
  PROVE  RefInv'
<1>1. store' = Memory(store.obj, store.open) /\ store.open \subseteq Resources
  BY StoreIs
<1>2. SameLinks(store.obj, store.obj)
  BY StoreWell DEF SameLinks, SameTypes, Well, Objects
<1> QED
  BY <1>1, <1>2, ReturnAside

(* The steps of a call about the handle of a buffer.                       *)
HandleSteps == {"handle", "release", "dup_handle", "drop_handle"}

(* A call goes from one step about the handle to another; the raw          *)
(* resources may change.                                                   *)
LEMMA HandleMoves ==
  ASSUME RefInv, NEW t \in Threads, NEW do \in HandleSteps, At(t, do),
         NEW e, Moved(call[t], e), e.at \in HandleSteps,
         e.op \in OpsAt(e.at), Goes(t, e),
         NEW obj2, NEW open2, store' = Memory(obj2, open2),
         SameLinks(store.obj, obj2),
         \A p \in DOMAIN store.obj : obj2[p].refs = store.obj[p].refs,
         open2 \subseteq Resources, UNCHANGED <<heap, made, up>>
  PROVE  RefInv'
<1> DEFINE c == call[t]
<1>1. do \in LastSteps
  BY DEF LastSteps, HandleSteps
<1>2. up /\ c.at = do /\ c \in Call
  BY <1>1, LastFits
<1>3. c.held = <<c.on>>
  BY <1>1, LastHolds DEF HandleSteps
<1>4. Fit(c, made, store.obj)
  BY CallsAreFit
<1> HIDE DEF c
<1>5. /\ c.at \notin BuildSteps \cup WithBuffer \cup {"idle"}
      /\ e.at \notin BuildSteps \cup WithBuffer \cup {"enqueue"}
  BY <1>2 DEF BuildSteps, SurfaceSteps, BufferSteps, ContextSteps,
              WithBuffer, HandleSteps
<1>6. e.held = Holds(e)
  BY <1>3 DEF Moved, Holds, HandleSteps, c
<1>7. Fit(e, made, store.obj)
  BY <1>4, <1>5, <1>6, MovedFits DEF c
<1>8. \A o \in Nat \ {NoObject} : RefsOf(e, o) = RefsOf(c, o)
  BY <1>2, MovedRefs DEF c
<1> QED
  BY <1>2, <1>7, <1>8, StepAside DEF c

(* The same with the objects unchanged.                                    *)
LEMMA HandleStill ==
  ASSUME RefInv, NEW t \in Threads, NEW do \in HandleSteps, At(t, do),
         NEW e, Moved(call[t], e), e.at \in HandleSteps,
         e.op \in OpsAt(e.at), Goes(t, e), UNCHANGED <<store, heap, made, up>>
  PROVE  RefInv'
<1>1. store' = Memory(store.obj, store.open) /\ store.open \subseteq Resources
  BY StoreIs
<1>2. SameLinks(store.obj, store.obj)
  BY StoreWell DEF SameLinks, SameTypes, Well, Objects
<1> QED
  BY <1>1, <1>2, HandleMoves

(* A call about the handle of a buffer.                                    *)
LEMMA HandleCall ==
  ASSUME RefInv, NEW t \in Threads, NEW do \in HandleSteps, At(t, do)
  PROVE  LET c == call[t]
         IN /\ c \in Call /\ c.at = do /\ c.op \in OpsAt(do)
            /\ c.op \in {"handle", "release"}
            /\ do \in {"handle", "dup_handle"} => c.op = "handle"
            /\ c.on \in DOMAIN store.obj /\ c.on \in Nat
<1> DEFINE c == call[t]
<1>1. do \in LastSteps
  BY DEF LastSteps, HandleSteps
<1>2. c.at = do /\ c \in Call /\ c.op \in OpsAt(do)
  BY <1>1, LastFits
<1>3. /\ c.op \in {"handle", "release"}
      /\ do \in {"handle", "dup_handle"} => c.op = "handle"
  BY <1>2 DEF OpsAt, SurfaceSteps, BufferSteps, ContextSteps, WithBuffer,
              HandleSteps
<1> QED
  BY <1>1, <1>2, <1>3, LastHolds

(* Where each step about the handle leads.                                 *)
Needing(c)      == [c EXCEPT !.at = "dup_handle"]
Seeing(c, seen) == [c EXCEPT !.at = "drop_handle", !.seen = seen]
Dropped(c)      == [c EXCEPT !.at = "dup_handle", !.seen = {}]
Duped(c)        == [c EXCEPT !.at = "handle", !.left = 0]

(* The call is the same at the step it goes to.                            *)
LEMMA HandleGoes ==
  ASSUME NEW c \in Call, c.op \in {"handle", "release"}
  PROVE  /\ c.op = "handle" =>
              /\ Moved(c, Needing(c)) /\ Needing(c).at = "dup_handle"
              /\ Needing(c).op \in OpsAt("dup_handle")
              /\ Needing(c).local = c.local
         /\ \A seen \in SUBSET Threads :
              /\ Moved(c, Seeing(c, seen))
              /\ Seeing(c, seen).at = "drop_handle"
              /\ Seeing(c, seen).op \in OpsAt("drop_handle")
              /\ Seeing(c, seen).local = c.local
              /\ Seeing(c, seen).seen = seen
         /\ c.op = "handle" =>
              /\ Moved(c, Dropped(c)) /\ Dropped(c).at = "dup_handle"
              /\ Dropped(c).op \in OpsAt("dup_handle")
              /\ Dropped(c).local = c.local
         /\ c.op = "handle" =>
              /\ Moved(c, Duped(c)) /\ Duped(c).at = "handle"
              /\ Duped(c).op \in OpsAt("handle")
              /\ Duped(c).local = c.local
<1>1. {} \in SUBSET Threads /\ 0 \in Int
  OBVIOUS
<1>2. {"handle", "dup_handle", "drop_handle"} \subseteq BuildSteps \cup OtherSteps
  BY DEF OtherSteps
<1>3. ASSUME c.op = "handle"
      PROVE  /\ Moved(c, Needing(c)) /\ Needing(c).at = "dup_handle"
             /\ Needing(c).op \in OpsAt("dup_handle")
             /\ Needing(c).local = c.local
  <2> DEFINE e == Needing(c)
  <2>1. e \in Call
    BY <1>1, <1>2 DEF Call, Needing
  <2>2. /\ e.op = c.op /\ e.held = c.held /\ e.ids = c.ids
        /\ e.self = c.self /\ e.failed = c.failed /\ e.on = c.on
        /\ e.surface = c.surface /\ e.targets = c.targets
        /\ e.owed = c.owed /\ e.local = c.local /\ e.at = "dup_handle"
    BY DEF Call, Needing
  <2>3. c.op \in OpsAt("dup_handle")
    BY <1>3 DEF OpsAt, SurfaceSteps, BufferSteps, ContextSteps, WithBuffer
  <2> QED
    BY <2>1, <2>2, <2>3 DEF Moved
<1>4. ASSUME NEW seen \in SUBSET Threads
      PROVE  /\ Moved(c, Seeing(c, seen)) /\ Seeing(c, seen).at = "drop_handle"
             /\ Seeing(c, seen).op \in OpsAt("drop_handle")
             /\ Seeing(c, seen).local = c.local
             /\ Seeing(c, seen).seen = seen
  <2> DEFINE e == Seeing(c, seen)
  <2>1. e \in Call
    BY <1>1, <1>2 DEF Call, Seeing
  <2>2. /\ e.op = c.op /\ e.held = c.held /\ e.ids = c.ids
        /\ e.self = c.self /\ e.failed = c.failed /\ e.on = c.on
        /\ e.surface = c.surface /\ e.targets = c.targets
        /\ e.owed = c.owed /\ e.local = c.local /\ e.at = "drop_handle" /\ e.seen = seen
    BY DEF Call, Seeing
  <2>3. c.op \in OpsAt("drop_handle")
    BY DEF OpsAt, SurfaceSteps, BufferSteps, ContextSteps, WithBuffer
  <2> QED
    BY <2>1, <2>2, <2>3 DEF Moved
<1>5. ASSUME c.op = "handle"
      PROVE  /\ Moved(c, Dropped(c)) /\ Dropped(c).at = "dup_handle"
             /\ Dropped(c).op \in OpsAt("dup_handle")
             /\ Dropped(c).local = c.local
  <2> DEFINE e == Dropped(c)
  <2>1. e \in Call
    BY <1>1, <1>2 DEF Call, Dropped
  <2>2. /\ e.op = c.op /\ e.held = c.held /\ e.ids = c.ids
        /\ e.self = c.self /\ e.failed = c.failed /\ e.on = c.on
        /\ e.surface = c.surface /\ e.targets = c.targets
        /\ e.owed = c.owed /\ e.local = c.local /\ e.at = "dup_handle"
    BY DEF Call, Dropped
  <2>3. c.op \in OpsAt("dup_handle")
    BY <1>5 DEF OpsAt, SurfaceSteps, BufferSteps, ContextSteps, WithBuffer
  <2> QED
    BY <2>1, <2>2, <2>3 DEF Moved
<1>6. ASSUME c.op = "handle"
      PROVE  /\ Moved(c, Duped(c)) /\ Duped(c).at = "handle"
             /\ Duped(c).op \in OpsAt("handle")
             /\ Duped(c).local = c.local
  <2> DEFINE e == Duped(c)
  <2>1. e \in Call
    BY <1>1, <1>2 DEF Call, Duped
  <2>2. /\ e.op = c.op /\ e.held = c.held /\ e.ids = c.ids
        /\ e.self = c.self /\ e.failed = c.failed /\ e.on = c.on
        /\ e.surface = c.surface /\ e.targets = c.targets
        /\ e.owed = c.owed /\ e.local = c.local /\ e.at = "handle"
    BY DEF Call, Duped
  <2>3. c.op \in OpsAt("handle")
    BY <1>6 DEF OpsAt, SurfaceSteps, BufferSteps, ContextSteps, WithBuffer
  <2> QED
    BY <2>1, <2>2, <2>3 DEF Moved
<1> QED
  BY <1>3, <1>4, <1>5, <1>6

(* What is open, and what the buffer has, once a descriptor is made, or    *)
(* the one that was seen closed.                                           *)
LEMMA HandleStore ==
  ASSUME RefInv, NEW b \in DOMAIN store.obj, NEW rs \in SUBSET Resources,
         NEW open2 \in SUBSET Resources,
         store' = Memory([store.obj EXCEPT ![b].raw = rs], open2)
  PROVE  LET obj2 == [store.obj EXCEPT ![b].raw = rs]
         IN /\ SameLinks(store.obj, obj2)
            /\ \A p \in DOMAIN store.obj : obj2[p].refs = store.obj[p].refs
<1>1. Well(store.obj)
  BY StoreWell
<1> QED
  BY <1>1, RawSet

(* The store after a dup.                                                  *)
LEMMA DupStore ==
  ASSUME RefInv, NEW t \in Threads, dup_handle(t)
  PROVE  LET b == call[t].on
         IN \E new \in {{<<"acquired_fd", b, t>>}, {}} :
              LET rs == (store.obj[b].raw \ AcquiredFds(b)) \cup new
              IN /\ rs \in SUBSET Resources
                 /\ store.open \cup new \in SUBSET Resources
                 /\ store' = Memory([store.obj EXCEPT ![b].raw = rs],
                                    store.open \cup new)
<1> DEFINE b == call[t].on
           fd == <<"acquired_fd", b, t>>
<1>1. PICK new \in {{fd}, {}} :
        store' = Took(store, store.open \cup new, b,
                      (store.obj[b].raw \ AcquiredFds(b)) \cup new)
  BY DEF dup_handle, Took
<1> DEFINE rs == (store.obj[b].raw \ AcquiredFds(b)) \cup new
           op2 == store.open \cup new
<1>2. b \in DOMAIN store.obj /\ b \in Nat
  BY HandleCall DEF HandleSteps, dup_handle
<1>3. /\ store = Memory(store.obj, store.open)
      /\ store.open \subseteq Resources
  BY StoreIs
<1>4. fd \in Resources
  BY <1>2 DEF Resources
<1>5. store.obj[b].raw \subseteq Resources
  BY <1>2, StoreWell DEF Well, Objects, Object
<1>6. rs \in SUBSET Resources /\ op2 \in SUBSET Resources
  BY <1>3, <1>4, <1>5
<1> HIDE DEF rs, op2, b, fd
<1>7. store' = Memory([store.obj EXCEPT ![b].raw = rs], op2)
  <2>1. store' = Took(store, op2, b, rs)
    BY <1>1 DEF rs, op2
  <2> QED
    BY <1>3, <2>1, MemoryTakes
<1> QED
  BY <1>6, <1>7 DEF rs, op2, b, fd

(* The store after a close.                                                *)
LEMMA DropStore ==
  ASSUME RefInv, NEW t \in Threads, drop_handle(t)
  PROVE  LET b   == call[t].on
             fds == MadeBy(call[t].seen, b)
             rs  == store.obj[b].raw \ AcquiredFds(b)
         IN /\ rs \in SUBSET Resources
            /\ \E open2 \in SUBSET Resources :
                 /\ store' = Memory([store.obj EXCEPT ![b].raw = rs], open2)
                 /\ store.open \ fds \subseteq open2
                 /\ fds \subseteq store.open => open2 = store.open \ fds
<1> DEFINE b   == call[t].on
           fds == MadeBy(call[t].seen, b)
           A   == AcquiredFds(b)
           m   == Close(store, fds)
           rs  == store.obj[b].raw \ A
<1>1. store' = [m EXCEPT !.obj[b].raw = @ \ A]
  BY DEF drop_handle
<1>2. call[t] \in Call /\ b \in DOMAIN store.obj /\ b \in Nat
  BY HandleCall DEF HandleSteps, drop_handle
<1>3. /\ store = Memory(store.obj, store.open)
      /\ store.open \subseteq Resources
  BY StoreIs
<1>4. fds \subseteq Resources
  <2>1. call[t].seen \subseteq Threads
    BY <1>2 DEF Call
  <2> QED
    BY <1>2, <2>1 DEF Resources, MadeBy
<1>5. PICK open2 \in SUBSET Resources :
        /\ m = Memory(store.obj, open2)
        /\ store.open \ fds \subseteq open2
        /\ fds \subseteq store.open => open2 = store.open \ fds
  BY <1>3, <1>4, MemoryClosing
<1>6. store.obj[b].raw \subseteq Resources
  BY <1>2, StoreWell DEF Well, Objects, Object
<1>7. rs \in SUBSET Resources
  BY <1>6
<1>8. store' = [m EXCEPT !.obj[b].raw = rs]
  <2>1. m.obj = store.obj
    BY <1>5 DEF Memory
  <2> HIDE DEF m
  <2> QED
    BY <1>1, <2>1
<1> HIDE DEF rs, b, m, fds, A
<1>9. store' = Memory([store.obj EXCEPT ![b].raw = rs], open2)
  <2>1. m.obj = store.obj /\ m.open = open2 /\ m = Memory(m.obj, m.open)
    BY <1>5 DEF Memory
  <2>2. [m EXCEPT !.obj[b].raw = rs] =
          Memory([m.obj EXCEPT ![b].raw = rs], m.open)
    BY <2>1, MemoryChanges
  <2> QED
    BY <1>8, <2>1, <2>2
<1> QED
  BY <1>5, <1>7, <1>9 DEF rs, b, fds, A

(* The calls about the handle of a buffer.                                 *)
LEMMA HandlesKeeps ==
  ASSUME RefInv, NEW t \in Threads, Handles(t)
  PROVE  RefInv'
<1> DEFINE c == call[t]
           b == c.on
<1>1. CASE has_handle(t)
  BY <1>1, ReturnOne DEF has_handle
<1>2. CASE needs_handle(t)
  <2>1. /\ At(t, "handle") /\ Goes(t, Needing(c))
        /\ UNCHANGED <<store, heap, made, up>>
    BY <1>2 DEF needs_handle, Needing
  <2>2. c \in Call /\ c.op = "handle"
    BY <2>1, HandleCall DEF HandleSteps
  <2>3. /\ Moved(c, Needing(c)) /\ Needing(c).at = "dup_handle"
        /\ Needing(c).op \in OpsAt("dup_handle")
    BY <2>2, HandleGoes
  <2> QED
    BY <2>1, <2>3, HandleStill DEF HandleSteps
<1>3. CASE sees_handle(t)
  <2> DEFINE seen == {u \in Threads :
                        <<"acquired_fd", b, u>> \in AcquiredFds(b)}
  <2>1. /\ Goes(t, Seeing(c, seen)) /\ UNCHANGED <<store, heap, made, up>>
    BY <1>3 DEF sees_handle, Seeing
  <2>2. PICK do \in {"handle", "release"} : At(t, do)
    BY <1>3 DEF sees_handle
  <2>3. c \in Call /\ c.op \in {"handle", "release"}
    BY <2>2, HandleCall DEF HandleSteps
  <2> HIDE DEF seen
  <2>4. seen \in SUBSET Threads
    BY DEF seen
  <2>5. /\ Moved(c, Seeing(c, seen)) /\ Seeing(c, seen).at = "drop_handle"
        /\ Seeing(c, seen).op \in OpsAt("drop_handle")
    BY <2>3, <2>4, HandleGoes
  <2> QED
    BY <2>1, <2>2, <2>5, HandleStill DEF HandleSteps
<1>4. CASE dup_handle(t)
  <2>1. At(t, "dup_handle") /\ Goes(t, Duped(c)) /\ UNCHANGED <<heap, made, up>>
    BY <1>4 DEF dup_handle, Duped
  <2>2. c \in Call /\ c.op = "handle" /\ b \in DOMAIN store.obj
    BY <2>1, HandleCall DEF HandleSteps
  <2>3. /\ Moved(c, Duped(c)) /\ Duped(c).at = "handle"
        /\ Duped(c).op \in OpsAt("handle")
    BY <2>2, HandleGoes
  <2>4. PICK rs \in SUBSET Resources, open2 \in SUBSET Resources :
          store' = Memory([store.obj EXCEPT ![b].raw = rs], open2)
    BY <1>4, DupStore
  <2> DEFINE obj2 == [store.obj EXCEPT ![b].raw = rs]
  <2>5. /\ SameLinks(store.obj, obj2)
        /\ \A p \in DOMAIN store.obj : obj2[p].refs = store.obj[p].refs
    BY <2>2, <2>4, HandleStore
  <2> HIDE DEF obj2
  <2> QED
    BY <2>1, <2>3, <2>4, <2>5, HandleMoves DEF HandleSteps, obj2
<1>5. CASE drop_handle(t)
  <2>1. At(t, "drop_handle") /\ UNCHANGED <<heap, made, up>>
    BY <1>5 DEF drop_handle
  <2>2. c \in Call /\ b \in DOMAIN store.obj
    BY <2>1, HandleCall DEF HandleSteps
  <2>4. PICK rs \in SUBSET Resources, open2 \in SUBSET Resources :
          store' = Memory([store.obj EXCEPT ![b].raw = rs], open2)
    BY <1>5, DropStore
  <2> DEFINE obj2 == [store.obj EXCEPT ![b].raw = rs]
  <2>5. /\ SameLinks(store.obj, obj2)
        /\ \A p \in DOMAIN store.obj : obj2[p].refs = store.obj[p].refs
    BY <2>2, <2>4, HandleStore
  <2> HIDE DEF obj2
  <2>6. CASE c.op = "handle" /\ c.left = 1
    <3>1. Goes(t, Dropped(c))
      BY <1>5, <2>6 DEF drop_handle, Dropped
    <3>2. /\ Moved(c, Dropped(c)) /\ Dropped(c).at = "dup_handle"
          /\ Dropped(c).op \in OpsAt("dup_handle")
      BY <2>2, <2>6, HandleGoes
    <3> QED
      BY <2>1, <2>4, <2>5, <3>1, <3>2, HandleMoves
         DEF HandleSteps, obj2
  <2>7. CASE ~(c.op = "handle" /\ c.left = 1)
    <3>1. Returns(t, <<b>>)
      BY <1>5, <2>7 DEF drop_handle
    <3> QED
      BY <2>1, <2>4, <2>5, <3>1, ReturnAside DEF obj2
  <2> QED
    BY <2>6, <2>7
<1> QED
  BY <1>1, <1>2, <1>3, <1>4, <1>5 DEF Handles

-----------------------------------------------------------------------------
(***************************************************************************)
(* References given back, handles removed.                                 *)
(***************************************************************************)

(* Other duties.                                                           *)
LEMMA OwedFits ==
  ASSUME NEW c, NEW n, NEW obj, Fit(c, n, obj), NEW w \in Seq(Duty), Real(w)
  PROVE  LET e == [c EXCEPT !.owed = w]
         IN /\ Fit(e, n, obj) /\ e.at = c.at /\ e.self = c.self
            /\ e.owed = w /\ e.ids = c.ids /\ e.failed = c.failed
            /\ e.local = c.local /\ e.on = c.on
            /\ \A o : /\ RefsOf(e, o) = RefsOf(c, o) - Count(Due(c.owed), o)
                                        + Count(Due(w), o)
                      /\ RefsOf(c, o) \in Nat /\ Count(Due(c.owed), o) \in Nat
                      /\ Count(Due(w), o) \in Nat
<1> DEFINE e == [c EXCEPT !.owed = w]
<1>1. /\ c \in Call /\ CallFits(c) /\ Known(c, n) /\ Named(c, obj)
      /\ SelfFits(c, obj)
  BY DEF Fit
<1>2. e \in Call
  BY <1>1 DEF Call
<1>3. /\ e.op = c.op /\ e.at = c.at /\ e.self = c.self /\ e.held = c.held
      /\ e.ids = c.ids /\ e.failed = c.failed /\ e.surface = c.surface
      /\ e.on = c.on /\ e.targets = c.targets /\ e.owed = w
      /\ e.local = c.local
  BY <1>1 DEF Call
<1> HIDE DEF e
<1>4. Holds(e) = Holds(c)
  BY <1>3 DEF Holds, OnSurface, Buffer
<1>5. CallFits(e)
  BY <1>1, <1>3, <1>4 DEF CallFits
<1>6. Known(e, n)
  BY <1>1, <1>3 DEF Known
<1>7. Named(e, obj) /\ SelfFits(e, obj)
  BY <1>1, <1>3 DEF Named, SelfFits
<1>8. ASSUME NEW o
      PROVE  /\ RefsOf(e, o) = RefsOf(c, o) - Count(Due(c.owed), o)
                                        + Count(Due(w), o)
             /\ RefsOf(c, o) \in Nat /\ Count(Due(c.owed), o) \in Nat
             /\ Count(Due(w), o) \in Nat
  <2>1. /\ RefsOf(c, o) =
             Count(c.held, o) + Count(Due(c.owed), o) + OnSelf(c, o)
        /\ Count(c.held, o) \in Nat /\ Count(Due(c.owed), o) \in Nat
        /\ OnSelf(c, o) \in Nat /\ RefsOf(c, o) \in Nat
    BY <1>1, OwedDue
  <2>2. /\ RefsOf(e, o) =
             Count(e.held, o) + Count(Due(e.owed), o) + OnSelf(e, o)
        /\ Count(Due(e.owed), o) \in Nat
    BY <1>2, OwedDue
  <2>3. e.held = c.held /\ e.owed = w /\ OnSelf(e, o) = OnSelf(c, o)
    BY <1>3 DEF OnSelf
  <2> QED
    BY <2>1, <2>2, <2>3
<1>9. Fit(e, n, obj)
  BY <1>2, <1>5, <1>6, <1>7 DEF Fit
<1> QED
  BY <1>3, <1>8, <1>9 DEF e

(* An object links only to living ones.                                    *)
LEMMA LinksAlive ==
  ASSUME NEW obj, Well(obj), NEW p \in DOMAIN obj, NEW k \in DOMAIN Links(obj[p])
  PROVE  Links(obj[p]) \in Seq(Nat) /\ Links(obj[p])[k] \in DOMAIN obj
<1> DEFINE x == Links(obj[p])[k]
<1>1. obj[p] \in Object /\ LinksOk(obj)
  BY DEF Well, Objects
<1>2. Links(obj[p]) \in Seq(Nat)
  BY <1>1, LinksList
<1>3. Count(Links(obj[p]), x) # 0
  BY <1>2, CountNone
<1>4. SUFFICES ASSUME x \notin DOMAIN obj
               PROVE  FALSE
  BY <1>2
<1>5. \A s \in Slots : obj[p].links[s] \in Seq(Nat)
  BY <1>1 DEF Object
<1>6. \A s \in Slots : \A i \in DOMAIN obj[p].links[s] : obj[p].links[s][i] # x
  BY <1>1, <1>4 DEF LinksOk
<1> HIDE DEF x
<1>7. \A s \in Slots : Count(obj[p].links[s], x) = 0
  BY <1>5, <1>6, CountNone
<1>8. /\ Count(obj[p].links["job"], x) = 0
      /\ Count(obj[p].links["route"], x) = 0
      /\ Count(obj[p].links["target"], x) = 0
      /\ Count(obj[p].links["render"], x) = 0
      /\ Count(obj[p].links["surface"], x) = 0
      /\ Count(obj[p].links["buffer"], x) = 0
  BY <1>7 DEF Slots
<1>9. Count(Links(obj[p]), x) = 0
  BY <1>1, <1>8, LinksCount
<1> QED
  BY <1>3, <1>9

(* What a call is about to give back it has a reference on.                *)
LEMMA OwedAlive ==
  ASSUME RefInv, NEW t \in Threads, Owes(t, "unref")
  PROVE  LET c == call[t]
             o == Head(c.owed).on
         IN /\ o \in Nat /\ o # NoObject /\ o \in DOMAIN store.obj
            /\ Reachable(t, o) /\ c.self # o
            /\ Tail(c.owed) \in Seq(Duty) /\ Real(Tail(c.owed))
            /\ \A x : Count(Due(c.owed), x) =
                        Count(Due(Tail(c.owed)), x) + (IF x = o THEN 1 ELSE 0)
            /\ \A x : Count(Due(Tail(c.owed)), x) \in Nat
<1> DEFINE c == call[t]
           o == Head(c.owed).on
<1>1. Fit(c, made, store.obj) /\ c \in Call /\ Known(c, made)
  BY CallsAreFit DEF Fit
<1>2. c.owed \in Seq(Duty) /\ Real(c.owed) /\ c.owed # <<>>
      /\ Head(c.owed).do = "unref"
  BY <1>1 DEF Call, Known, Owes
<1>3. Real(Tail(c.owed)) /\ o # NoObject
  BY <1>2, RealTail
<1>4. \A x : /\ Tail(c.owed) \in Seq(Duty) /\ Head(c.owed) \in Duty
             /\ Count(Due(Tail(c.owed)), x) \in Nat
             /\ Count(Due(c.owed), x) = Count(Due(Tail(c.owed)), x) +
                  (IF (IF Head(c.owed).do = "unref" THEN Head(c.owed).on
                       ELSE NoObject) = x THEN 1 ELSE 0)
  BY <1>2, DueTail
<1>5. o \in Nat /\ Tail(c.owed) \in Seq(Duty)
  BY <1>4 DEF Duty
<1>6. \A x : /\ Count(Due(c.owed), x) = Count(Due(Tail(c.owed)), x) +
                                        (IF x = o THEN 1 ELSE 0)
             /\ Count(Due(Tail(c.owed)), x) \in Nat
  BY <1>2, <1>4
<1>7. Count(Due(c.owed), o) > 0
  BY <1>6
<1>8. RefsOf(c, o) > 0
  BY <1>1, <1>7, OwedDue
<1>9. o \in DOMAIN store.obj /\ Reachable(t, o)
  BY <1>3, <1>5, <1>8, HeldAlive
<1>10. c.self # o
  <2>1. CASE c.self = NoObject
    BY <1>3, <2>1
  <2>2. CASE c.self # NoObject
    BY <1>7, <2>2, SelfAlone
  <2> QED
    BY <2>1, <2>2
<1> QED
  BY <1>3, <1>5, <1>6, <1>9, <1>10

(* A store whose object o has gone with its resources.                     *)
LEMMA MemoryLoses ==
  ASSUME NEW m, m = Memory(m.obj, m.open), NEW o, m.obj[o].raw \subseteq m.open
  PROVE  Destroy(m, o) = Memory([p \in DOMAIN m.obj \ {o} |-> m.obj[p]],
                                m.open \ m.obj[o].raw)
<1> DEFINE obj2 == [p \in DOMAIN m.obj \ {o} |-> m.obj[p]]
           m2   == [m EXCEPT !.obj = obj2]
<1>1. m2 = Memory(obj2, m.open)
  BY MemoryChanges
<1>2. Destroy(m, o) = Close(m2, m.obj[o].raw)
  BY DEF Destroy
<1>3. m2.obj = obj2 /\ m2.open = m.open /\ m2 = Memory(m2.obj, m2.open)
  BY <1>1 DEF Memory
<1> HIDE DEF m2, obj2
<1>4. Close(m2, m.obj[o].raw) = Memory(m2.obj, m2.open \ m.obj[o].raw)
  BY <1>3, MemoryClosed
<1> QED
  BY <1>2, <1>3, <1>4 DEF obj2

(* The last reference on o.                                                *)
LEMMA LastReference ==
  ASSUME RefInv, NEW t \in Threads, NEW o \in DOMAIN store.obj, o # NoObject,
         store.obj[o].refs <= 1, RefsOf(call[t], o) > 0
  PROVE  /\ o \notin heap /\ LinkRefs(store.obj, o) = 0
         /\ CallRefs(call, o) = 1 /\ RefsOf(call[t], o) = 1
<1>1. /\ LinkRefs(store.obj, o) \in Nat /\ CallRefs(call, o) \in Nat
      /\ RefsOf(call[t], o) \in Nat /\ RefsOf(call[t], o) <= CallRefs(call, o)
      /\ store.obj[o].refs \in Nat
      /\ store.obj[o].refs = InHeap(heap, o) + LinkRefs(store.obj, o) +
                             CallRefs(call, o)
  BY RefsAdd
<1>2. InHeap(heap, o) \in Nat /\ (o \in heap => InHeap(heap, o) = 1)
  BY DEF InHeap
<1> QED
  BY <1>1, <1>2

(* rk_object_unref.                                                        *)
LEMMA UnrefKeeps ==
  ASSUME SafeInv, NEW t \in Threads, unref(t)
  PROVE  RefInv'
<1> DEFINE c   == call[t]
           o   == Head(c.owed).on
           obj == store.obj
           w   == Unrefs(Inherited(store, o)) \o Tail(c.owed)
           e   == [c EXCEPT !.owed = w]
<1>0. RefInv
  BY DEF SafeInv
<1>1. /\ Owes(t, "unref") /\ store' = Unref(store, o) /\ Goes(t, e)
      /\ UNCHANGED <<heap, made, up>>
  BY DEF unref
<1>2. /\ o \in Nat /\ o # NoObject /\ o \in DOMAIN obj /\ Reachable(t, o)
      /\ c.self # o /\ Tail(c.owed) \in Seq(Duty) /\ Real(Tail(c.owed))
      /\ \A x : Count(Due(c.owed), x) =
                  Count(Due(Tail(c.owed)), x) + (IF x = o THEN 1 ELSE 0)
      /\ \A x : Count(Due(Tail(c.owed)), x) \in Nat
  BY <1>0, <1>1, OwedAlive
<1>3. /\ Fit(c, made, obj) /\ c \in Call /\ Well(obj) /\ CallFits(c)
      /\ Known(c, made) /\ Named(c, obj) /\ SelfFits(c, obj)
  BY <1>0, CallsAreFit, StoreWell DEF Fit
<1>4. /\ store = Memory(obj, store.open) /\ store.open \subseteq Resources
      /\ made \in Nat /\ DOMAIN obj \subseteq 1 .. made
      /\ heap \subseteq 1 .. made /\ up \in BOOLEAN
  BY <1>0, StoreIs
<1>5. /\ made' \in Nat /\ made <= made' /\ heap' = heap /\ made' = made
      /\ up' = up
  BY <1>1, <1>4
<1>6. up \/ (heap' = {} /\ c.at = "idle")
  BY <1>0, <1>5 DEF RefInv, DownFits
<1>7. RefsOf(c, o) > 0
  <2>1. Count(Due(c.owed), o) > 0
    BY <1>2
  <2>2. /\ RefsOf(c, o) =
             Count(c.held, o) + Count(Due(c.owed), o) + OnSelf(c, o)
        /\ Count(c.held, o) \in Nat /\ Count(Due(c.owed), o) \in Nat
        /\ OnSelf(c, o) \in Nat
    BY <1>3, OwedDue
  <2> HIDE DEF c, o
  <2> QED
    BY <2>1, <2>2
<1>8. obj[o] \in Object /\ obj[o].refs \in Nat
  BY <1>2, <1>3 DEF Well, Objects, Object
<1>9. /\ Inherited(store, o) \in Seq(Nat)
      /\ \A k \in DOMAIN Inherited(store, o) : Inherited(store, o)[k] # NoObject
  <2>1. CASE obj[o].refs <= 1
    <3>1. Inherited(store, o) = Links(obj[o])
      BY <1>2, <2>1 DEF Inherited, Alive
    <3>2. \A k \in DOMAIN Links(obj[o]) : Links(obj[o])[k] \in DOMAIN obj
      BY <1>2, <1>3, LinksAlive
    <3>3. NoObject \notin DOMAIN obj
      BY <1>4 DEF NoObject
    <3> QED
      BY <1>8, <3>1, <3>2, <3>3, LinksList
  <2>2. CASE ~(obj[o].refs <= 1)
    <3>1. Inherited(store, o) = <<>>
      BY <2>2 DEF Inherited
    <3>2. <<>> \in Seq(Nat) /\ DOMAIN <<>> = {}
      OBVIOUS
    <3> QED
      BY <3>1, <3>2
  <2> QED
    BY <2>1, <2>2
<1> DEFINE list == Inherited(store, o)
           u    == Unrefs(list)
<1>10. u \in Seq(Duty) /\ Due(u) = list /\ Real(u)
  <2> HIDE DEF list
  <2> QED
    BY <1>9, DueUnrefs, RealLists DEF list
<1>11. /\ w \in Seq(Duty) /\ Real(w)
       /\ \A x : /\ Count(Due(w), x) = Count(list, x) + Count(Due(Tail(c.owed)), x)
                 /\ Count(list, x) \in Nat
  <2> DEFINE z == Tail(c.owed)
  <2>1. z \in Seq(Duty) /\ Real(z)
    BY <1>2
  <2> HIDE DEF u, z, list
  <2>2. Real(u \o z)
    BY <1>10, <2>1, RealConcat
  <2>3. \A x : /\ u \o z \in Seq(Duty)
               /\ Count(Due(u \o z), x) = Count(list, x) + Count(Due(z), x)
               /\ Count(list, x) \in Nat
    BY <1>10, <2>1, DueConcat
  <2> QED
    BY <2>2, <2>3 DEF u, z, list
<1> HIDE DEF w, list, u
<1>12. /\ Fit(e, made, obj) /\ e.at = c.at /\ e.self = c.self
       /\ \A x : /\ RefsOf(e, x) = RefsOf(c, x) - Count(Due(c.owed), x)
                                   + Count(Due(w), x)
                 /\ RefsOf(c, x) \in Nat /\ Count(Due(c.owed), x) \in Nat
                 /\ Count(Due(w), x) \in Nat
  BY <1>3, <1>11, OwedFits
<1> HIDE DEF e
<1>13. ASSUME NEW x
       PROVE  RefsOf(e, x) = RefsOf(c, x) - (IF x = o THEN 1 ELSE 0)
                                         + Count(list, x)
  BY <1>2, <1>11, <1>12
<1>14. CASE obj[o].refs > 1
  <2> DEFINE r    == obj[o].refs - 1
             obj2 == [obj EXCEPT ![o].refs = r]
  <2>1. r \in Nat
    BY <1>8, <1>14
  <2>2. store' = [store EXCEPT !.obj[o].refs = r]
    BY <1>1, <1>2, <1>14 DEF Unref, Alive
  <2>3. list = <<>>
    BY <1>8, <1>14 DEF list, Inherited
  <2> HIDE DEF r
  <2>4. store' = Memory(obj2, store.open)
    BY <1>4, <2>2, MemoryChanges
  <2>5. /\ SameLinks(obj, obj2) /\ obj2[o].refs = r
        /\ \A p \in DOMAIN obj : p # o => obj2[p].refs = obj[p].refs
    <3>1. /\ SameLinks(obj, obj2) /\ obj2[o].refs = r
          /\ \A p \in DOMAIN obj : /\ p # o => obj2[p].refs = obj[p].refs
                                   /\ obj2[p].raw = obj[p].raw
      <4>1. Well(obj) /\ o \in DOMAIN obj
        BY <1>2, <1>3
      <4> HIDE DEF obj, o
      <4> QED BY <2>1, <4>1, RefsSet
    <3> HIDE DEF obj2
    <3> QED BY <3>1
  <2> HIDE DEF obj2
  <2>6. /\ Well(obj2) /\ SameTypes(obj, obj2)
        /\ \A x : LinkRefs(obj2, x) = LinkRefs(obj, x)
    BY <1>3, <2>5, LinksKept DEF SameLinks
  <2>7. /\ DOMAIN obj2 = DOMAIN obj
        /\ \A p \in DOMAIN obj : obj2[p].type = obj[p].type
    BY <2>6 DEF SameTypes
  <2>8. Fit(e, made', obj2)
    <3>1. Named(e, obj2)
      BY <1>12, <2>6, SameTypesKept DEF Fit
    <3>2. SelfFits(e, obj2)
      BY <1>2, <1>12, <2>5, <2>7 DEF Fit, SelfFits
    <3> QED
      BY <1>5, <1>12, <3>1, <3>2 DEF Fit
  <2>9. ASSUME NEW x \in Nat \ {NoObject}
        PROVE  BalancedNext(t, e, obj2, x)
    <3>1. RefsOf(e, x) = RefsOf(c, x) - (IF x = o THEN 1 ELSE 0)
      <4>1. Count(list, x) = 0
        BY <2>3, CountEmpty
      <4> QED
        BY <1>12, <1>13, <4>1
    <3>2. /\ LinkRefs(obj, x) \in Nat /\ CallRefs(call, x) \in Nat
          /\ RefsOf(c, x) \in Nat
      BY <1>0, RefsAdd
    <3>3. CallRefs(call, x) - RefsOf(c, x) + RefsOf(e, x) =
            CallRefs(call, x) - (IF x = o THEN 1 ELSE 0)
      BY <3>1, <3>2
    <3>4. InHeap(heap, x) \in Nat
      BY DEF InHeap
    <3>5. Balanced(obj, x, InHeap(heap, x) + LinkRefs(obj, x) +
                           CallRefs(call, x))
      BY <1>0 DEF RefInv, Balance, HeldBy
    <3>6. CASE x = o
      <4>1. obj[o].refs =
                InHeap(heap, o) + LinkRefs(obj, o) + CallRefs(call, o)
        BY <1>2, <3>5, <3>6 DEF Balanced
      <4>2. obj2[o].refs = InHeap(heap, o) + LinkRefs(obj2, o) +
                           (CallRefs(call, o) - 1) /\ obj2[o].refs > 0
        BY <1>8, <1>14, <2>5, <2>6, <3>2, <3>4, <3>6, <4>1 DEF r
      <4> QED
        BY <1>2, <1>5, <2>7, <3>3, <3>6, <4>2 DEF BalancedNext, Balanced
    <3>7. CASE x # o
      <4>1. CallRefs(call, x) - RefsOf(c, x) + RefsOf(e, x) = CallRefs(call, x)
        BY <3>2, <3>3, <3>7
      <4> QED
        BY <1>5, <2>5, <2>6, <2>7, <3>5, <3>7, <4>1 DEF BalancedNext, Balanced
    <3> QED
      BY <3>6, <3>7
  <2>10. \A p \in DOMAIN obj :
           \/ Reachable(t, p)
           \/ /\ p \in DOMAIN obj2 /\ obj2[p].refs = obj[p].refs
              /\ obj2[p].type = obj[p].type
    BY <1>2, <2>5, <2>7
  <2>11. TypesKept(obj, obj2, made)
    BY <2>6, SameTypesKept
  <2> QED
    BY <1>0, <1>1, <1>4, <1>5, <1>6, <1>12, <2>4, <2>6, <2>7, <2>8, <2>9,
       <2>10, <2>11, StepTaken
<1>15. CASE ~(obj[o].refs > 1)
  <2> DEFINE obj2  == [p \in DOMAIN obj \ {o} |-> obj[p]]
             open2 == store.open \ obj[o].raw
  <2>1. obj[o].refs <= 1
    BY <1>8, <1>15
  <2>2. store' = Destroy(store, o) /\ list = Links(obj[o])
    BY <1>1, <1>2, <1>15, <2>1 DEF Unref, Alive, list, Inherited
  <2>3. obj[o].raw \subseteq store.open
    BY <1>2 DEF SafeInv, RawFits
  <2>4. store' = Memory(obj2, open2) /\ open2 \subseteq Resources
    BY <1>4, <2>2, <2>3, MemoryLoses
  <2>5. /\ o \notin heap /\ LinkRefs(obj, o) = 0
        /\ CallRefs(call, o) = 1 /\ RefsOf(c, o) = 1
    BY <1>0, <1>2, <1>7, <2>1, LastReference
  <2>6. /\ Well(obj2)
        /\ \A x : /\ LinkRefs(obj2, x) = LinkRefs(obj, x) - Count(list, x)
                  /\ Count(list, x) <= LinkRefs(obj, x)
                  /\ Count(list, x) \in Nat /\ LinkRefs(obj, x) \in Nat
    BY <1>2, <1>3, <2>2, <2>5, ObjectGone
  <2>7. /\ DOMAIN obj2 = DOMAIN obj \ {o}
        /\ \A p \in DOMAIN obj2 : obj2[p] = obj[p]
    OBVIOUS
  <2> HIDE DEF obj2, open2
  <2>8. TypesKept(obj, obj2, made)
    BY <2>7 DEF TypesKept
  <2>9. Fit(e, made', obj2)
    <3>1. Named(e, obj2)
      BY <1>4, <1>12, <2>8, NamedKept DEF Fit
    <3>2. SelfFits(e, obj2)
      BY <1>2, <1>12, <2>7 DEF Fit, SelfFits
    <3> QED
      BY <1>5, <1>12, <3>1, <3>2 DEF Fit
  <2>10. ASSUME NEW x \in Nat \ {NoObject}
         PROVE  BalancedNext(t, e, obj2, x)
    <3>2. /\ LinkRefs(obj, x) \in Nat /\ CallRefs(call, x) \in Nat
          /\ RefsOf(c, x) \in Nat /\ Count(list, x) \in Nat
          /\ Count(list, x) <= LinkRefs(obj, x)
      BY <1>0, <2>6, RefsAdd
    <3>4. InHeap(heap, x) \in Nat
      BY DEF InHeap
    <3>5. Balanced(obj, x, InHeap(heap, x) + LinkRefs(obj, x) +
                           CallRefs(call, x))
      BY <1>0 DEF RefInv, Balance, HeldBy
    <3>6. CASE x = o
      <4>1. InHeap(heap, o) = 0
        BY <2>5 DEF InHeap
      <4>2. Count(list, o) = 0
        BY <2>5, <2>6
      <4>3. RefsOf(e, o) = 0
        BY <1>13, <2>5, <4>2
      <4>4. InHeap(heap, o) + LinkRefs(obj2, o) +
              (CallRefs(call, o) - RefsOf(c, o) + RefsOf(e, o)) = 0
        BY <2>5, <2>6, <4>1, <4>2, <4>3
      <4> QED
        BY <1>5, <2>7, <3>6, <4>4 DEF BalancedNext, Balanced
    <3>7. CASE x # o
      <4>1. RefsOf(e, x) = RefsOf(c, x) + Count(list, x)
        BY <1>13, <3>2, <3>7
      <4>2. InHeap(heap, x) + LinkRefs(obj2, x) +
              (CallRefs(call, x) - RefsOf(c, x) + RefsOf(e, x)) =
            InHeap(heap, x) + LinkRefs(obj, x) + CallRefs(call, x)
        BY <2>6, <3>2, <3>4, <4>1
      <4> QED
        BY <1>5, <2>7, <3>5, <3>7, <4>2 DEF BalancedNext, Balanced
    <3> QED
      BY <3>6, <3>7
  <2>11. \A p \in DOMAIN obj :
           \/ Reachable(t, p)
           \/ /\ p \in DOMAIN obj2 /\ obj2[p].refs = obj[p].refs
              /\ obj2[p].type = obj[p].type
    BY <1>2, <2>7
  <2>12. DOMAIN obj2 \subseteq 1 .. made'
    BY <1>4, <1>5, <2>7
  <2> QED
    BY <1>0, <1>1, <1>4, <1>5, <1>6, <1>12, <2>4, <2>6, <2>8, <2>9, <2>10,
       <2>11, <2>12, StepTaken
<1> QED
  BY <1>14, <1>15

(* Handles are added or removed; the objects stay as they are.             *)
LEMMA StepHeap ==
  ASSUME RefInv, NEW t \in Threads, NEW e, Goes(t, e),
         UNCHANGED <<store, made>>, heap' \subseteq 1 .. made, up' \in BOOLEAN,
         Fit(e, made, store.obj),
         ~up' => /\ heap' = {} /\ e.at = "idle"
                 /\ \A u \in Threads \ {t} : call[u].at = "idle",
         \A o \in Nat \ {NoObject} :
           InHeap(heap', o) + RefsOf(e, o) =
               InHeap(heap, o) + RefsOf(call[t], o)
  PROVE  RefInv'
<1> DEFINE obj == store.obj
<1>1. /\ store = Memory(obj, store.open) /\ store.open \subseteq Resources
      /\ made \in Nat /\ DOMAIN obj \subseteq 1 .. made /\ Well(obj)
  BY StoreIs, StoreWell
<1>2. store' = Memory(obj, store.open) /\ made' = made /\ made' \in Nat
      /\ made <= made'
  BY <1>1
<1>3. ObjectsFitNext /\ LinksFit' /\ store'.obj = obj
  BY <1>1, <1>2, StoreNext
<1>4. TypesKept(obj, store'.obj, made)
  BY <1>3 DEF TypesKept
<1>5. \A u \in Threads \ {t} : SelfFits(call[u], store'.obj)
  BY <1>3, CallsAreFit DEF Fit
<1>6. ASSUME NEW o \in Nat \ {NoObject}
      PROVE  Balanced(store'.obj, o,
                InHeap(heap', o) + LinkRefs(store'.obj, o) +
                (CallRefs(call, o) - RefsOf(call[t], o) + RefsOf(e, o)))
  <2>1. /\ LinkRefs(obj, o) \in Nat /\ CallRefs(call, o) \in Nat
        /\ RefsOf(call[t], o) \in Nat
    BY RefsAdd
  <2>2. RefsOf(e, o) \in Nat
    BY OwedDue DEF Fit
  <2>3. InHeap(heap, o) \in Nat /\ InHeap(heap', o) \in Nat
    BY DEF InHeap
  <2>4. InHeap(heap', o) + RefsOf(e, o) = InHeap(heap, o) + RefsOf(call[t], o)
    OBVIOUS
  <2>5. InHeap(heap', o) + LinkRefs(obj, o) +
          (CallRefs(call, o) - RefsOf(call[t], o) + RefsOf(e, o)) =
        InHeap(heap, o) + LinkRefs(obj, o) + CallRefs(call, o)
    BY <2>1, <2>2, <2>3, <2>4
  <2>6. Balanced(obj, o, InHeap(heap, o) + LinkRefs(obj, o) + CallRefs(call, o))
    BY DEF RefInv, Balance, HeldBy
  <2> QED
    BY <1>3, <2>5, <2>6
<1>7. StepFits(t, e)
  <2>1. /\ e \in Call /\ CallFits(e) /\ Known(e, made')
        /\ Named(e, store'.obj) /\ SelfFits(e, store'.obj)
    BY <1>2, <1>3 DEF Fit
  <2> QED
    BY <1>3, <1>4, <1>5, <1>6, <2>1 DEF StepFits
<1> QED
  BY <1>3, <1>7, StepKeeps

(* The handle taken out together with that of o.                           *)
Gone(o) ==
  LET b == Linked(o, "buffer")[1]
  IN IF o \notin heap THEN <<>>
     ELSE IF store.obj[o].type = "image" /\ b \in heap THEN <<b, o>>
     ELSE <<o>>

(* Each handle is taken out once.                                          *)
LEMMA GoneIs ==
  ASSUME RefInv, NEW o \in Nat
  PROVE  /\ Gone(o) \in Seq(Nat) /\ ToSet(Gone(o)) \subseteq heap
         /\ \A k \in DOMAIN Gone(o) : Gone(o)[k] # NoObject
         /\ \A x : Count(Gone(o), x) = IF x \in ToSet(Gone(o)) THEN 1 ELSE 0
         /\ o \notin heap \ ToSet(Gone(o))
<1> DEFINE b == Linked(o, "buffer")[1]
<1>1. heap \subseteq 1 .. made /\ made \in Nat
  BY StoreIs
<1>2. CASE o \notin heap
  <2>1. Gone(o) = <<>>
    BY <1>2 DEF Gone
  <2>2. ToSet(<<>>) = {} /\ <<>> \in Seq(Nat) /\ DOMAIN <<>> = {}
    BY DEF ToSet
  <2>3. \A x : Count(<<>>, x) = 0
    BY CountEmpty
  <2> QED
    BY <1>2, <2>1, <2>2, <2>3
<1>3. CASE o \in heap /\ ~(store.obj[o].type = "image" /\ b \in heap)
  <2>1. Gone(o) = <<o>>
    BY <1>3 DEF Gone
  <2>2. ToSet(<<o>>) = {o} /\ <<o>> \in Seq(Nat) /\ DOMAIN <<o>> = {1}
        /\ <<o>>[1] = o
    BY DEF ToSet
  <2>3. \A x : Count(<<o>>, x) = IF o = x THEN 1 ELSE 0
    BY CountOne
  <2> QED
    BY <1>1, <1>3, <2>1, <2>2, <2>3 DEF NoObject
<1>4. CASE o \in heap /\ store.obj[o].type = "image" /\ b \in heap
  <2>1. Gone(o) = <<b, o>>
    BY <1>4 DEF Gone
  <2>2. o \in DOMAIN store.obj /\ o # NoObject /\ b # NoObject /\ b \in Nat
    <3>1. \A x \in heap : x # NoObject /\ x \in Nat
      BY <1>1 DEF NoObject
    <3>2. o \in Of("image")
      BY <1>4 DEF Of
    <3> QED
      BY <1>4, <3>1, <3>2, OfHeap
  <2>3. b # o
    <3>1. Well(store.obj)
      BY StoreWell
    <3>2. Len(store.obj[o].links["buffer"]) = 1
      BY <1>4, <2>2, <3>1 DEF Well, LinksOk
    <3>3. store.obj[o].links["buffer"] \in Seq(Nat)
      <4>1. store.obj[o] \in Object
        BY <2>2, <3>1 DEF Well, Objects
      <4>2. store.obj[o].links \in [Slots -> Seq(Nat)]
        BY <4>1 DEF Object
      <4>3. "buffer" \in Slots
        BY DEF Slots
      <4> QED
        BY <4>2, <4>3
    <3>4. 1 \in DOMAIN store.obj[o].links["buffer"]
      BY <3>2, <3>3
    <3>5. store.obj[b].type = TargetOf("buffer")
      BY <2>2, <3>1, <3>4, LinkedRefs DEF Slots, Linked
    <3> QED
      BY <1>4, <3>5 DEF TargetOf
  <2> HIDE DEF b
  <2>4. ToSet(<<b, o>>) = {b, o} /\ <<b, o>> \in Seq(Nat)
        /\ DOMAIN <<b, o>> = {1, 2} /\ <<b, o>>[1] = b /\ <<b, o>>[2] = o
    BY <2>2 DEF ToSet
  <2>5. \A x : Count(<<b, o>>, x) = (IF b = x THEN 1 ELSE 0) +
                                   (IF o = x THEN 1 ELSE 0)
    BY <2>2, CountTwo
  <2>6. \A x : Count(<<b, o>>, x) = IF x \in {b, o} THEN 1 ELSE 0
    BY <2>3, <2>5
  <2>7. b \in heap /\ o \in heap
    BY <1>4 DEF b
  <2> QED
    BY <2>1, <2>2, <2>4, <2>6, <2>7
<1> QED
  BY <1>2, <1>3, <1>4

(* rk_object_heap_remove: the heap's reference becomes the call's.         *)
LEMMA RemoveKeeps ==
  ASSUME RefInv, NEW t \in Threads, remove(t)
  PROVE  RefInv'
<1> DEFINE c == call[t]
           o == Head(c.owed).on
           list == Gone(o)
           z == Tail(c.owed)
           u == Unrefs(list)
           w == u \o z
           e == [c EXCEPT !.owed = w]
<1>1. /\ Owes(t, "remove") /\ heap' = heap \ ToSet(list) /\ Goes(t, e)
      /\ UNCHANGED <<store, made, up>>
  BY DEF remove, Gone
<1>2. /\ Fit(c, made, store.obj) /\ c \in Call /\ Known(c, made)
  BY CallsAreFit DEF Fit
<1>3. /\ c.owed \in Seq(Duty) /\ Real(c.owed) /\ c.owed # <<>>
      /\ Head(c.owed).do = "remove"
  BY <1>1, <1>2 DEF Call, Known, Owes
<1>4. Real(z)
  BY <1>3, RealTail
<1>5. /\ z \in Seq(Duty) /\ Head(c.owed) \in Duty
      /\ \A x : x # NoObject => /\ Count(Due(z), x) \in Nat
                                /\ Count(Due(c.owed), x) = Count(Due(z), x)
  <2>1. \A x : /\ Tail(c.owed) \in Seq(Duty) /\ Head(c.owed) \in Duty
               /\ Count(Due(Tail(c.owed)), x) \in Nat
               /\ Count(Due(c.owed), x) = Count(Due(Tail(c.owed)), x) +
                    (IF (IF Head(c.owed).do = "unref" THEN Head(c.owed).on
                         ELSE NoObject) = x THEN 1 ELSE 0)
    BY <1>3, DueTail
  <2> QED
    BY <1>3, <2>1
<1>6. o \in Nat
  BY <1>5 DEF Duty
<1> HIDE DEF o
<1>7. /\ list \in Seq(Nat) /\ ToSet(list) \subseteq heap
      /\ \A k \in DOMAIN list : list[k] # NoObject
      /\ \A x : Count(list, x) = IF x \in ToSet(list) THEN 1 ELSE 0
  BY <1>6, GoneIs
<1> HIDE DEF list
<1>8. u \in Seq(Duty) /\ Due(u) = list /\ Real(u)
  BY <1>7, DueUnrefs, RealLists
<1> HIDE DEF u, z
<1>9. /\ w \in Seq(Duty) /\ Real(w)
      /\ \A x : /\ Count(Due(w), x) = Count(list, x) + Count(Due(z), x)
                /\ Count(list, x) \in Nat
  <2>1. Real(u \o z)
    BY <1>4, <1>5, <1>8, RealConcat
  <2>2. \A x : /\ u \o z \in Seq(Duty)
               /\ Count(Due(u \o z), x) = Count(list, x) + Count(Due(z), x)
               /\ Count(list, x) \in Nat
    BY <1>5, <1>8, DueConcat
  <2> QED
    BY <2>1, <2>2
<1> HIDE DEF w
<1>10. /\ Fit(e, made, store.obj) /\ e.at = c.at
       /\ \A x : /\ RefsOf(e, x) = RefsOf(c, x) - Count(Due(c.owed), x)
                                   + Count(Due(w), x)
                 /\ RefsOf(c, x) \in Nat /\ Count(Due(c.owed), x) \in Nat
                 /\ Count(Due(w), x) \in Nat
  BY <1>2, <1>9, OwedFits
<1> HIDE DEF e
<1>11. ASSUME NEW x \in Nat \ {NoObject}
       PROVE  InHeap(heap', x) + RefsOf(e, x) = InHeap(heap, x) + RefsOf(c, x)
  <2>1. RefsOf(e, x) = RefsOf(c, x) + Count(list, x) /\ RefsOf(c, x) \in Nat
    BY <1>5, <1>9, <1>10
  <2>2. InHeap(heap', x) + Count(list, x) = InHeap(heap, x)
    BY <1>1, <1>7 DEF InHeap
  <2>3. InHeap(heap', x) \in Nat /\ Count(list, x) \in Nat
    BY <1>9 DEF InHeap
  <2> QED
    BY <2>1, <2>2, <2>3
<1>12. /\ heap' \subseteq 1 .. made /\ up' \in BOOLEAN
       /\ UNCHANGED <<store, made>>
  BY <1>1, StoreIs
<1>13. ~up' => /\ heap' = {} /\ e.at = "idle"
               /\ \A v \in Threads \ {t} : call[v].at = "idle"
  BY <1>1, <1>10 DEF RefInv, DownFits
<1> QED
  BY <1>1, <1>10, <1>11, <1>12, <1>13, StepHeap DEF c

-----------------------------------------------------------------------------
(***************************************************************************)
(* Handles given out.                                                      *)
(***************************************************************************)

(* The call once its object has a handle.                                  *)
Inserted(c) ==
  LET left == IF c.at = "insert_surface" THEN c.left - 1 ELSE c.left
  IN Onward([c EXCEPT !.self = NoObject, !.left = left,
                      !.ids = Append(@, c.self)])

(* Its fields, and where it goes on.                                       *)
LEMMA InsertedIs ==
  ASSUME NEW c \in Call, c.at \in Inserts
  PROVE  LET e == Inserted(c)
         IN /\ e \in Call /\ e.self = NoObject /\ e.owed = c.owed
            /\ e.ids = Append(c.ids, c.self) /\ e.held = c.held /\ e.op = c.op
            /\ e.failed = c.failed /\ e.surface = c.surface /\ e.on = c.on
            /\ e.targets = c.targets /\ e.local = c.local /\ e.shape = c.shape
            /\ \/ e.at = "idle"
               \/ c.at = "insert_surface" /\ e.at = "calloc_surface"
               \/ /\ c.at = "insert_buffer" /\ c.op # "buffer"
                  /\ e.at = "acquire_buffer"
            /\ c.at = "insert_buffer" /\ e.at = "idle" => c.op = "buffer"
<1> DEFINE left == IF c.at = "insert_surface" THEN c.left - 1 ELSE c.left
           d == [c EXCEPT !.self = NoObject, !.left = left,
                          !.ids = Append(@, c.self)]
<1>1. left \in Int /\ NoObject \in Nat /\ Append(c.ids, c.self) \in Seq(Nat)
  BY DEF Call, NoObject
<1> HIDE DEF left
<1>2. d \in Call
  BY <1>1 DEF Call
<1>3. /\ d.self = NoObject /\ d.owed = c.owed /\ d.at = c.at
      /\ d.ids = Append(c.ids, c.self) /\ d.held = c.held /\ d.op = c.op
      /\ d.failed = c.failed /\ d.surface = c.surface /\ d.on = c.on
      /\ d.targets = c.targets /\ d.local = c.local /\ d.shape = c.shape
  BY DEF Call
<1> HIDE DEF d
<1>4. /\ \/ After(d) = "idle"
         \/ c.at = "insert_surface" /\ After(d) = "calloc_surface"
         \/ /\ c.at = "insert_buffer" /\ c.op # "buffer"
            /\ After(d) = "acquire_buffer"
      /\ c.at = "insert_buffer" /\ After(d) = "idle" => c.op = "buffer"
  <2>1. CASE c.at = "insert_surface"
    BY <1>3, <2>1 DEF After
  <2>2. CASE c.at = "insert_buffer"
    BY <1>3, <2>2 DEF After
  <2>3. CASE c.at \in {"insert_image", "insert_context", "insert_config"}
    <3>1. After(d) = Order[c.at]
      BY <1>3, <2>3 DEF After
    <3> QED
      BY <2>3, <3>1 DEF Order
  <2> QED
    BY <2>1, <2>2, <2>3 DEF Inserts
<1>5. After(d) \in BuildSteps \cup OtherSteps
  BY <1>4 DEF OtherSteps
<1> DEFINE e == Onward(d)
<1>6. e \in Call
  BY <1>2, <1>5 DEF Onward, Call
<1>7. /\ e.self = NoObject /\ e.owed = c.owed /\ e.at = After(d)
      /\ e.ids = Append(c.ids, c.self) /\ e.held = c.held /\ e.op = c.op
      /\ e.failed = c.failed /\ e.surface = c.surface /\ e.on = c.on
      /\ e.targets = c.targets /\ e.local = c.local /\ e.shape = c.shape
  BY <1>2, <1>3 DEF Onward, Call
<1>8. Inserted(c) = e
  BY DEF Inserted, d, left
<1> QED
  BY <1>4, <1>6, <1>7, <1>8

(* A call at the step that gives its object a handle.                      *)
LEMMA Inserting ==
  ASSUME RefInv, NEW t \in Threads, NEW do \in Inserts, At(t, do)
  PROVE  LET c == call[t]
         IN /\ up /\ c.at = do /\ c.owed = <<>> /\ c.failed = FALSE
            /\ c.self # NoObject /\ c.self \in Nat /\ c.self <= made
            /\ c.self \in DOMAIN store.obj /\ c.self \notin heap
            /\ store.obj[c.self].type = Makes(do)
            /\ do # "insert_buffer" => c.held = <<>>
            /\ do = "insert_buffer" => /\ c.held = OnSurface(c)
                                       /\ c.op \in {"buffer", "image", "derive"}
                                       /\ c.ids = <<>>
            /\ do = "insert_surface" => c.op = "surfaces"
<1> DEFINE c == call[t]
<1>1. do \in BuildSteps /\ do # "idle"
  BY DEF Inserts, BuildSteps, SurfaceSteps, BufferSteps, ContextSteps
<1>2. up /\ c.at = do /\ c.owed = <<>>
  BY <1>1, AtUp
<1>3. /\ Fit(c, made, store.obj) /\ c \in Call /\ CallFits(c)
      /\ Known(c, made) /\ SelfFits(c, store.obj)
  BY CallsAreFit DEF Fit
<1>4. c.self # NoObject /\ c.self \in Nat /\ c.self <= made
  BY <1>1, <1>2, <1>3 DEF CallFits, Known, Call
<1>5. /\ c.self \in DOMAIN store.obj /\ c.self \notin heap
      /\ store.obj[c.self].type = Makes(do)
  BY <1>2, <1>3, <1>4, SelfAlone DEF SelfFits
<1>6. c.failed = FALSE
  <2>1. c.failed \in BOOLEAN
    BY <1>3 DEF Call
  <2>2. c.failed => c.at = "idle"
    BY <1>3 DEF CallFits
  <2> QED
    BY <1>1, <1>2, <2>1, <2>2
<1>7. c.held = IF do \in BufferSteps THEN OnSurface(c) ELSE <<>>
  BY <1>1, <1>2, <1>3, BuildHolds DEF CallFits
<1>8. do # "insert_buffer" => c.held = <<>>
  BY <1>7 DEF BufferSteps, Inserts
<1>9. do = "insert_buffer" => /\ c.held = OnSurface(c)
                              /\ c.op \in {"buffer", "image", "derive"}
                              /\ c.ids = <<>>
  <2> SUFFICES ASSUME do = "insert_buffer"
               PROVE  /\ c.held = OnSurface(c)
                      /\ c.op \in {"buffer", "image", "derive"}
                      /\ c.ids = <<>>
    OBVIOUS
  <2>1. c.held = OnSurface(c)
    BY <1>7 DEF BufferSteps
  <2>2. c.op \in {"buffer", "image", "derive"}
    BY <1>2, <1>3 DEF CallFits, OpsAt, SurfaceSteps, BufferSteps,
                      ContextSteps, WithBuffer
  <2>3. c.at \notin WithBuffer /\ c.op # "surfaces"
    BY <1>2, <2>2 DEF WithBuffer
  <2> QED
    BY <1>3, <1>6, <2>1, <2>2, <2>3 DEF CallFits
<1>10. do = "insert_surface" => c.op = "surfaces"
  BY <1>2, <1>3 DEF CallFits, OpsAt, SurfaceSteps, BufferSteps, ContextSteps,
                    WithBuffer
<1> QED
  BY <1>2, <1>4, <1>5, <1>6, <1>8, <1>9, <1>10

(* The object's first reference becomes the heap's.                        *)
LEMMA InsertKeeps ==
  ASSUME RefInv, NEW t \in Threads, insert_succeeds(t)
  PROVE  RefInv'
<1> DEFINE c == call[t]
           e == Inserted(c)
<1>1. PICK do \in Inserts : At(t, do)
  BY DEF insert_succeeds
<1>2. /\ heap' = heap \cup {c.self} /\ Goes(t, e)
      /\ UNCHANGED <<store, made, up>>
  BY DEF insert_succeeds, Inserted
<1>3. /\ up /\ c.at = do /\ c.owed = <<>> /\ c.failed = FALSE
      /\ c.self # NoObject /\ c.self \in Nat /\ c.self <= made
      /\ c.self \in DOMAIN store.obj /\ c.self \notin heap
      /\ store.obj[c.self].type = Makes(do)
      /\ do # "insert_buffer" => c.held = <<>>
      /\ do = "insert_buffer" => /\ c.held = OnSurface(c)
                                 /\ c.op \in {"buffer", "image", "derive"}
                                 /\ c.ids = <<>>
      /\ do = "insert_surface" => c.op = "surfaces"
  BY <1>1, Inserting
<1>4. /\ Fit(c, made, store.obj) /\ c \in Call /\ CallFits(c)
      /\ Known(c, made) /\ Named(c, store.obj)
  BY CallsAreFit DEF Fit
<1> HIDE DEF c
<1>5. /\ e \in Call /\ e.self = NoObject /\ e.owed = c.owed
      /\ e.ids = Append(c.ids, c.self) /\ e.held = c.held /\ e.op = c.op
      /\ e.failed = c.failed /\ e.surface = c.surface /\ e.on = c.on
      /\ e.targets = c.targets
      /\ \/ e.at = "idle"
         \/ c.at = "insert_surface" /\ e.at = "calloc_surface"
         \/ /\ c.at = "insert_buffer" /\ c.op # "buffer"
            /\ e.at = "acquire_buffer"
      /\ c.at = "insert_buffer" /\ e.at = "idle" => c.op = "buffer"
  BY <1>1, <1>3, <1>4, InsertedIs
<1> HIDE DEF e
<1>6. /\ heap' \subseteq 1 .. made /\ up' \in BOOLEAN /\ up'
      /\ UNCHANGED <<store, made>>
  <2>1. heap \subseteq 1 .. made /\ made \in Nat /\ up \in BOOLEAN
    BY StoreIs
  <2>2. c.self \in 1 .. made
    BY <1>3, <2>1 DEF NoObject
  <2> QED
    BY <1>2, <1>3, <2>1, <2>2
<1>7. ASSUME NEW x \in Nat \ {NoObject}
      PROVE  /\ RefsOf(c, x) = Count(c.held, x) + OnSelf(c, x)
             /\ Count(c.held, x) \in Nat /\ OnSelf(c, x) \in Nat
             /\ InHeap(heap', x) = InHeap(heap, x) + OnSelf(c, x)
             /\ InHeap(heap, x) \in Nat
  <2>1. /\ RefsOf(c, x) =
               Count(c.held, x) + Count(Due(c.owed), x) + OnSelf(c, x)
        /\ Count(c.held, x) \in Nat /\ OnSelf(c, x) \in Nat
    BY <1>4, OwedDue
  <2>2. Count(Due(c.owed), x) = 0
    <3>1. Due(<<>>) = <<>>
      BY DEF Due
    <3> QED
      BY <1>3, <3>1, CountEmpty
  <2>3. /\ InHeap(heap', x) = InHeap(heap, x) + OnSelf(c, x)
        /\ InHeap(heap, x) \in Nat
    BY <1>2, <1>3 DEF InHeap, OnSelf, c
  <2> QED
    BY <2>1, <2>2, <2>3
<1>8. CASE e.at = "idle"
  <2>1. Over(e) /\ ~e.failed
    BY <1>3, <1>5, <1>8 DEF Over
  <2>2. Over(Idle) /\ ~Idle.failed
    BY DEF Over, Idle
  <2>3. Goes(t, Idle)
    BY <1>2, <2>1, <2>2 DEF Goes
  <2>4. Fit(Idle, made, store.obj)
    <3>1. NoObject \notin DOMAIN store.obj
      BY ObjectsStand DEF RefInv
    <3>2. Named(Idle, store.obj) /\ SelfFits(Idle, store.obj)
      BY <3>1 DEF Named, SelfFits, IsA, Idle
    <3> QED
      BY <3>2, IdleFits, StoreIs DEF Fit
  <2>5. ASSUME NEW x \in Nat \ {NoObject}
        PROVE  InHeap(heap', x) + RefsOf(Idle, x) =
                   InHeap(heap, x) + RefsOf(c, x)
    <3>1. c.held = <<>>
      BY <1>3, <1>5, <1>8 DEF OnSurface
    <3>2. Count(c.held, x) = 0 /\ RefsOf(Idle, x) = 0
      BY <3>1, CountEmpty, IdleFits
    <3> QED
      BY <1>7, <3>2
  <2> QED
    BY <1>6, <2>3, <2>4, <2>5, StepHeap DEF c
<1>9. CASE e.at # "idle"
  <2>1. \/ do = "insert_surface" /\ e.at = "calloc_surface"
        \/ do = "insert_buffer" /\ e.at = "acquire_buffer" /\ c.op # "buffer"
    BY <1>3, <1>5, <1>9
  <2>2. CallFits(e)
    <3>1. CASE e.at = "calloc_surface"
      <4>1. e.op = "surfaces" /\ e.held = <<>> /\ e.failed = FALSE
        BY <1>3, <1>5, <2>1, <3>1
      <4> QED
        BY <1>5, <3>1, <4>1 DEF CallFits, OpsAt, Holds, WithBuffer, BuildSteps,
              SurfaceSteps, BufferSteps, ContextSteps
    <3>2. CASE e.at = "acquire_buffer"
      <4>1. /\ e.op \in {"image", "derive"} /\ e.held = OnSurface(e)
            /\ e.failed = FALSE
        BY <1>3, <1>5, <2>1, <3>2 DEF OnSurface
      <4>2. Len(e.ids) = 1
        BY <1>3, <1>5, <2>1, <3>2
      <4> QED
        BY <1>5, <3>2, <4>1, <4>2 DEF CallFits, OpsAt, Holds, WithBuffer,
              BuildSteps, SurfaceSteps, BufferSteps, ContextSteps
    <3> QED
      BY <2>1, <3>1, <3>2
  <2>3. \A k \in DOMAIN e.ids : \/ k \in DOMAIN c.ids /\ e.ids[k] = c.ids[k]
                               \/ e.ids[k] = c.self
    <3>1. c.ids \in Seq(Nat)
      BY <1>4 DEF Call
    <3> QED
      BY <1>3, <1>5, <3>1, AppendProperties
  <2>4. Known(e, made)
    BY <1>3, <1>4, <1>5, <2>3, StoreIs DEF Known, NoObject
  <2>5. Named(e, store.obj) /\ SelfFits(e, store.obj)
    <3>1. SelfFits(e, store.obj)
      BY <1>5 DEF SelfFits
    <3>2. c.op \in {"image", "derive"} => \A k \in DOMAIN e.ids : k = 1 =>
            IsA(store.obj, e.ids[k], "buffer")
      <4> SUFFICES ASSUME c.op \in {"image", "derive"}, NEW k \in DOMAIN e.ids,
                          k = 1
                   PROVE  IsA(store.obj, e.ids[k], "buffer")
        OBVIOUS
      <4>1. do = "insert_buffer"
        BY <1>3, <2>1
      <4>2. e.ids[k] = c.self
        BY <1>3, <2>3, <4>1
      <4>3. Makes(do) = "buffer"
        BY <4>1 DEF Makes, BufferSteps, SurfaceSteps, ContextSteps
      <4> QED
        BY <1>3, <4>2, <4>3 DEF IsA
    <3> QED
      BY <1>4, <1>5, <2>1, <3>1, <3>2 DEF Named
  <2>6. Fit(e, made, store.obj)
    BY <1>5, <2>2, <2>4, <2>5 DEF Fit
  <2>7. ASSUME NEW x \in Nat \ {NoObject}
        PROVE  InHeap(heap', x) + RefsOf(e, x) = InHeap(heap, x) + RefsOf(c, x)
    <3>1. RefsOf(e, x) =
              Count(e.held, x) + Count(Due(e.owed), x) + OnSelf(e, x)
      BY <1>5, OwedDue
    <3>2. Count(Due(e.owed), x) = 0
      <4>1. Due(<<>>) = <<>>
        BY DEF Due
      <4> QED
        BY <1>3, <1>5, <4>1, CountEmpty
    <3>3. OnSelf(e, x) = 0 /\ e.held = c.held
      BY <1>5 DEF OnSelf
    <3> QED
      BY <1>7, <3>1, <3>2, <3>3
  <2> QED
    BY <1>2, <1>6, <2>6, <2>7, StepHeap DEF c
<1> QED
  BY <1>8, <1>9

-----------------------------------------------------------------------------
(***************************************************************************)
(* References taken.                                                       *)
(***************************************************************************)

(* What the heap holds is alive.                                           *)
LEMMA HeapAlive ==
  ASSUME RefInv, NEW o \in heap
  PROVE  /\ o \in DOMAIN store.obj /\ o \in Nat /\ o # NoObject /\ o <= made
         /\ \A t \in Threads : Reachable(t, o) /\ call[t].self # o
<1>1. o \in Of(store.obj[o].type)
  BY DEF Of
<1>2. o \in DOMAIN store.obj /\ o \in Nat /\ o # NoObject /\ o <= made
  BY <1>1, OfHeap
<1>3. ASSUME NEW t \in Threads
      PROVE  call[t].self # o
  BY <1>2, SelfAlone
<1> QED
  BY <1>2, <1>3 DEF Reachable

(* A lookup counts one more reference.                                     *)
LEMMA MemoryRefs ==
  ASSUME RefInv, NEW o \in DOMAIN store.obj
  PROVE  LET obj2 == [store.obj EXCEPT ![o].refs = store.obj[o].refs + 1]
         IN /\ Ref(store, o) = Memory(obj2, store.open)
            /\ SameLinks(store.obj, obj2)
            /\ obj2[o].refs = store.obj[o].refs + 1
            /\ \A p \in DOMAIN store.obj :
                 /\ p # o => obj2[p].refs = store.obj[p].refs
                 /\ obj2[p].raw = store.obj[p].raw
<1> DEFINE r == store.obj[o].refs + 1
<1>1. Well(store.obj) /\ store = Memory(store.obj, store.open)
  BY StoreWell, StoreIs
<1>2. r \in Nat
  BY <1>1 DEF Well, Objects, Object
<1>3. Ref(store, o) = [store EXCEPT !.obj[o].refs = r]
  BY DEF Ref, Alive
<1> HIDE DEF r
<1>4. Ref(store, o) = Memory([store.obj EXCEPT ![o].refs = r], store.open)
  BY <1>1, <1>3, MemoryChanges
<1>5. LET obj2 == [store.obj EXCEPT ![o].refs = r]
      IN /\ SameLinks(store.obj, obj2) /\ obj2[o].refs = r
         /\ \A p \in DOMAIN store.obj :
              /\ p # o => obj2[p].refs = store.obj[p].refs
              /\ obj2[p].raw = store.obj[p].raw
  BY <1>1, <1>2, RefsSet
<1> QED
  BY <1>4, <1>5 DEF r

(* A call takes a reference on what the heap holds.                        *)
LEMMA StepRef ==
  ASSUME RefInv, NEW t \in Threads, NEW e, Goes(t, e), NEW o \in heap,
         store' = Ref(store, o), UNCHANGED <<heap, made, up>>,
         Fit(e, made, store.obj), e.self = call[t].self, up,
         \A x \in Nat \ {NoObject} :
           RefsOf(e, x) = RefsOf(call[t], x) + (IF x = o THEN 1 ELSE 0)
  PROVE  RefInv'
<1> DEFINE obj  == store.obj
           obj2 == [obj EXCEPT ![o].refs = obj[o].refs + 1]
<1>1. /\ o \in DOMAIN obj /\ o \in Nat /\ o # NoObject
      /\ Reachable(t, o) /\ e.self # o
  BY HeapAlive
<1>2. /\ store' = Memory(obj2, store.open) /\ SameLinks(obj, obj2)
      /\ obj2[o].refs = obj[o].refs + 1
      /\ \A p \in DOMAIN obj : p # o => obj2[p].refs = obj[p].refs
  BY <1>1, MemoryRefs
<1>3. /\ store.open \subseteq Resources /\ made \in Nat
      /\ DOMAIN obj \subseteq 1 .. made /\ heap \subseteq 1 .. made
      /\ Well(obj)
  BY StoreIs, StoreWell
<1> HIDE DEF obj2
<1>4. /\ Well(obj2) /\ SameTypes(obj, obj2)
      /\ \A x : LinkRefs(obj2, x) = LinkRefs(obj, x)
  BY <1>2, <1>3, LinksKept DEF SameLinks
<1>5. /\ DOMAIN obj2 = DOMAIN obj
      /\ \A p \in DOMAIN obj : obj2[p].type = obj[p].type
  BY <1>4 DEF SameTypes
<1>6. /\ made' \in Nat /\ made <= made' /\ heap' = heap /\ made' = made
      /\ up' = up
  BY <1>3
<1>7. Fit(e, made', obj2)
  <2>1. Named(e, obj2)
    BY <1>4, SameTypesKept DEF Fit
  <2>2. SelfFits(e, obj2)
    BY <1>1, <1>2, <1>5 DEF Fit, SelfFits
  <2> QED
    BY <1>6, <2>1, <2>2 DEF Fit
<1>8. ASSUME NEW x \in Nat \ {NoObject}
      PROVE  BalancedNext(t, e, obj2, x)
  <2>1. /\ LinkRefs(obj, x) \in Nat /\ CallRefs(call, x) \in Nat
        /\ RefsOf(call[t], x) \in Nat
    BY RefsAdd
  <2>2. CallRefs(call, x) - RefsOf(call[t], x) + RefsOf(e, x) =
          CallRefs(call, x) + (IF x = o THEN 1 ELSE 0)
    BY <2>1
  <2>3. InHeap(heap, x) \in Nat
    BY DEF InHeap
  <2>4. Balanced(obj, x, InHeap(heap, x) + LinkRefs(obj, x) + CallRefs(call, x))
    BY DEF RefInv, Balance, HeldBy
  <2>5. CASE x = o
    <3>1. obj[o].refs = InHeap(heap, o) + LinkRefs(obj, o) + CallRefs(call, o)
      BY <1>1, <2>4, <2>5 DEF Balanced
    <3>2. obj2[o].refs = InHeap(heap, o) + LinkRefs(obj2, o) +
                         (CallRefs(call, o) + 1) /\ obj2[o].refs > 0
      BY <1>2, <1>4, <2>1, <2>3, <2>5, <3>1
    <3> QED
      BY <1>1, <1>5, <1>6, <2>2, <2>5, <3>2 DEF BalancedNext, Balanced
  <2>6. CASE x # o
    <3>1. CallRefs(call, x) - RefsOf(call[t], x) + RefsOf(e, x) =
            CallRefs(call, x)
      BY <2>1, <2>2, <2>6
    <3> QED
      BY <1>2, <1>4, <1>5, <1>6, <2>4, <2>6, <3>1 DEF BalancedNext, Balanced
  <2> QED
    BY <2>5, <2>6
<1>9. \A p \in DOMAIN obj :
         \/ Reachable(t, p)
         \/ /\ p \in DOMAIN obj2 /\ obj2[p].refs = obj[p].refs
            /\ obj2[p].type = obj[p].type
  BY <1>1, <1>2, <1>5
<1>10. TypesKept(obj, obj2, made)
  BY <1>4, SameTypesKept
<1> QED
  BY <1>2, <1>3, <1>4, <1>5, <1>6, <1>7, <1>8, <1>9, <1>10, StepTaken

(* An object that is only looked at is given back next.                    *)
LEMMA LookAtKeeps ==
  ASSUME RefInv, NEW t \in Threads, look_at_succeeds(t)
  PROVE  RefInv'
<1> DEFINE c == call[t]
           o == Wanted(c)
           d == Onward(c)
           w == Unrefs(<<o>>)
           e == [d EXCEPT !.owed = w]
<1>1. PICK do \in LookedAt : At(t, do)
  BY DEF look_at_succeeds
<1>2. /\ o \in heap /\ store' = Ref(store, o) /\ Goes(t, e)
      /\ UNCHANGED <<heap, made, up>>
  BY DEF look_at_succeeds
<1>3. up /\ c.at = do /\ c.owed = <<>>
  BY <1>1, AtUp DEF LookedAt
<1>4. Fit(c, made, store.obj) /\ c \in Call /\ CallFits(c)
  BY CallsAreFit DEF Fit
<1>5. o \in Nat /\ o # NoObject
  BY <1>2, HeapAlive
<1> HIDE DEF c, o
<1>6. /\ c.at = "use" => After(c) = "idle"
      /\ c.at = "acquire_config" => After(c) = "calloc_context"
  BY DEF After, Order
<1>7. /\ c.at \in {"use", "acquire_config"}
      /\ After(c) \in {"idle", "calloc_context"}
  BY <1>1, <1>3, <1>6 DEF LookedAt
<1>8. d \in Call
  <2>1. After(c) \in BuildSteps \cup OtherSteps
    BY <1>7 DEF OtherSteps
  <2> QED
    BY <1>4, <2>1 DEF Onward, Call
<1>9. Moved(c, d) /\ d.at = After(c)
  BY <1>4, <1>8 DEF Moved, Onward, Call
<1> HIDE DEF d
<1>10. /\ c.at \notin BuildSteps \cup WithBuffer \cup {"idle"}
       /\ d.at \notin BuildSteps \cup WithBuffer \cup {"enqueue"}
  BY <1>7, <1>9 DEF BuildSteps, SurfaceSteps, BufferSteps, ContextSteps,
                    WithBuffer
<1>11. d.op \in OpsAt(d.at)
  <2>1. c.op \in Ops
    BY <1>4 DEF Call
  <2>2. c.at = "acquire_config" => c.op = "context"
    BY <1>4 DEF CallFits, OpsAt, SurfaceSteps, BufferSteps, ContextSteps,
                WithBuffer
  <2> QED
    BY <1>6, <1>7, <1>9, <2>1, <2>2 DEF Moved, OpsAt, SurfaceSteps,
                                        BufferSteps,
                    ContextSteps, WithBuffer
<1>12. d.held = Holds(d)
  BY <1>4, <1>7, <1>9 DEF Moved, Holds, CallFits
<1>13. Fit(d, made, store.obj)
  BY <1>4, <1>9, <1>10, <1>11, <1>12, MovedFits
<1>14. /\ w \in Seq(Duty) /\ Real(w) /\ Due(w) = <<o>>
  <2>1. <<o>> \in Seq(Nat) /\ \A k \in DOMAIN <<o>> : <<o>>[k] # NoObject
    BY <1>5
  <2> QED
    BY <2>1, DueUnrefs, RealLists
<1> HIDE DEF w
<1>15. /\ Fit(e, made, store.obj) /\ e.self = d.self
       /\ \A x : /\ RefsOf(e, x) = RefsOf(d, x) - Count(Due(d.owed), x)
                                   + Count(Due(w), x)
                 /\ RefsOf(d, x) \in Nat
  <2>1. w \in Seq(Duty) /\ Real(w)
    BY <1>14
  <2>2. /\ Fit(e, made, store.obj) /\ e.at = d.at /\ e.self = d.self
        /\ e.owed = w /\ e.ids = d.ids /\ e.failed = d.failed
        /\ e.local = d.local /\ e.on = d.on
        /\ \A x : /\ RefsOf(e, x) = RefsOf(d, x) - Count(Due(d.owed), x)
                                    + Count(Due(w), x)
                  /\ RefsOf(d, x) \in Nat /\ Count(Due(d.owed), x) \in Nat
                  /\ Count(Due(w), x) \in Nat
    BY <1>13, <2>1, OwedFits, Zenon
  <2> HIDE DEF e
  <2> QED BY <2>2, Zenon
<1> HIDE DEF e
<1>16. ASSUME NEW x \in Nat \ {NoObject}
       PROVE  RefsOf(e, x) = RefsOf(c, x) + (IF x = o THEN 1 ELSE 0)
  <2>1. RefsOf(d, x) = RefsOf(c, x)
    BY <1>4, <1>9, MovedRefs
  <2>2. Count(Due(d.owed), x) = 0
    <3>1. Due(<<>>) = <<>>
      BY DEF Due
    <3> QED
      BY <1>3, <1>9, <3>1, CountEmpty DEF Moved
  <2>3. Count(Due(w), x) = IF o = x THEN 1 ELSE 0
    BY <1>14, CountOne
  <2> QED
    BY <1>15, <2>1, <2>2, <2>3
<1>17. e.self = c.self
  BY <1>9, <1>15 DEF Moved
<1> QED
  BY <1>2, <1>3, <1>15, <1>16, <1>17, StepRef DEF c

(* The step a call goes on with, and what it holds there.                  *)
LEMMA AcquireHolds ==
  ASSUME NEW c \in Call, CallFits(c), c.at \in Kept
  PROVE  /\ After(c) \in {"acquire_surface", "begin", "layout", "calloc_image",
                          "end", "handle", "release"}
         /\ c.op \in OpsAt(After(c))
         /\ c.at = "acquire_buffer" <=> After(c) = "calloc_image"
         /\ LET e == [Onward(c) EXCEPT !.held = Append(@, Wanted(c))]
            IN /\ e.op = c.op /\ e.at = After(c) /\ e.owed = c.owed
               /\ e.self = c.self /\ e.ids = c.ids /\ e.failed = c.failed
               /\ e.surface = c.surface /\ e.on = c.on /\ e.local = c.local
               /\ e.targets = c.targets /\ e.held = Append(c.held, Wanted(c))
               /\ e.held = Holds(e)
<1> DEFINE o == Wanted(c)
           e == [Onward(c) EXCEPT !.held = Append(@, o)]
<1>1. /\ e.op = c.op /\ e.at = After(c) /\ e.owed = c.owed
      /\ e.self = c.self /\ e.ids = c.ids /\ e.failed = c.failed
      /\ e.surface = c.surface /\ e.on = c.on /\ e.local = c.local
      /\ e.targets = c.targets /\ e.held = Append(c.held, o)
  BY DEF Onward, Call
<1>2. c.held = Holds(c) /\ c.op \in OpsAt(c.at)
  BY DEF CallFits
<1> HIDE DEF o, e
<1>3. CASE c.at = "acquire"
  <2>1. c.op \in {"begin", "end", "handle", "release"}
    BY <1>2, <1>3 DEF OpsAt, SurfaceSteps, BufferSteps, ContextSteps,
                      WithBuffer
  <2>2. After(c) = IF c.op = "begin" THEN "acquire_surface" ELSE c.op
    BY <1>3 DEF After
  <2>3. c.held = <<>> /\ o = c.on
    BY <1>2, <1>3 DEF Holds, o, Wanted
  <2>4. e.held = <<c.on>>
    BY <1>1, <2>3
  <2>5. c.op \in OpsAt(After(c))
    BY <2>1, <2>2 DEF OpsAt, SurfaceSteps, BufferSteps, ContextSteps,
                      WithBuffer
  <2>6. Holds(e) = <<c.on>>
    BY <1>1, <2>1, <2>2 DEF Holds
  <2> QED
    BY <1>1, <1>3, <2>1, <2>2, <2>4, <2>5, <2>6 DEF e, o
<1>4. CASE c.at = "acquire_surface"
  <2>1. c.op \in {"begin", "derive"}
    BY <1>2, <1>4 DEF OpsAt, SurfaceSteps, BufferSteps, ContextSteps,
                      WithBuffer
  <2>2. After(c) = IF c.op = "begin" THEN "begin" ELSE "layout"
    BY <1>4 DEF After
  <2>3. o = c.surface
    BY <1>4 DEF o, Wanted
  <2>4. c.held = IF c.op = "begin" THEN <<c.on>> ELSE <<>>
    BY <1>2, <1>4 DEF Holds
  <2>5. c.op \in OpsAt(After(c))
    BY <2>1, <2>2 DEF OpsAt, SurfaceSteps, BufferSteps, ContextSteps,
                      WithBuffer
  <2>6. e.held = IF c.op = "begin" THEN <<c.on, c.surface>> ELSE <<c.surface>>
    BY <1>1, <2>3, <2>4
  <2>7. Holds(e) = IF c.op = "begin" THEN <<c.on, c.surface>> ELSE <<c.surface>>
    BY <1>1, <2>1, <2>2 DEF Holds
  <2> QED
    BY <1>1, <1>4, <2>1, <2>2, <2>5, <2>6, <2>7 DEF e, o
<1>5. CASE c.at = "acquire_buffer"
  <2>1. c.op \in {"image", "derive"}
    BY <1>2, <1>5 DEF OpsAt, SurfaceSteps, BufferSteps, ContextSteps,
                      WithBuffer
  <2>2. After(c) = "calloc_image"
    BY <1>5 DEF After, Order
  <2>3. o = Buffer(c) /\ c.held = OnSurface(c)
    BY <1>2, <1>5 DEF o, Wanted, Holds
  <2>4. c.op \in OpsAt(After(c))
    BY <2>1, <2>2 DEF OpsAt, SurfaceSteps, BufferSteps, ContextSteps,
                      WithBuffer
  <2>5. Holds(e) = OnSurface(e) \o <<Buffer(e)>>
    BY <1>1, <2>2 DEF Holds
  <2>6. OnSurface(e) = OnSurface(c) /\ Buffer(e) = Buffer(c)
    BY <1>1 DEF OnSurface, Buffer
  <2>7. Append(c.held, Buffer(c)) = c.held \o <<Buffer(c)>>
    <3>1. /\ c.held \in Seq(Nat \cup {Buffer(c)})
          /\ Buffer(c) \in Nat \cup {Buffer(c)}
      BY DEF Call
    <3> QED
      BY <3>1, AppendIsConcat
  <2> QED
    BY <1>1, <1>5, <2>2, <2>3, <2>4, <2>5, <2>6, <2>7 DEF e, o
<1> QED
  BY <1>3, <1>4, <1>5 DEF Kept

(* A call takes a reference and keeps it.                                  *)
LEMMA AcquireKeeps ==
  ASSUME RefInv, NEW t \in Threads, acquire_succeeds(t)
  PROVE  RefInv'
<1> DEFINE c == call[t]
           o == Wanted(c)
           e == [Onward(c) EXCEPT !.held = Append(@, o)]
<1>1. PICK do \in Kept : At(t, do)
  BY DEF acquire_succeeds
<1>2. /\ o \in heap /\ store' = Ref(store, o) /\ Goes(t, e)
      /\ UNCHANGED <<heap, made, up>>
  BY DEF acquire_succeeds
<1>3. up /\ c.at = do /\ c.owed = <<>>
  BY <1>1, AtUp DEF Kept
<1>4. /\ Fit(c, made, store.obj) /\ c \in Call /\ CallFits(c)
      /\ Known(c, made) /\ Named(c, store.obj)
  BY CallsAreFit DEF Fit
<1>5. o \in Nat /\ o # NoObject /\ o <= made
  BY <1>2, HeapAlive
<1> HIDE DEF c
<1>6. /\ After(c) \in {"acquire_surface", "begin", "layout", "calloc_image",
                       "end", "handle", "release"}
      /\ c.op \in OpsAt(After(c))
      /\ c.at = "acquire_buffer" <=> After(c) = "calloc_image"
      /\ e.op = c.op /\ e.at = After(c) /\ e.owed = c.owed
      /\ e.self = c.self /\ e.ids = c.ids /\ e.failed = c.failed
      /\ e.surface = c.surface /\ e.on = c.on
      /\ e.targets = c.targets /\ e.held = Append(c.held, o)
      /\ e.held = Holds(e)
  BY <1>1, <1>3, <1>4, AcquireHolds
<1> HIDE DEF o
<1>7. c.held \in Seq(Nat)
  BY <1>4 DEF Call
<1>8. e \in Call
  <2>1. /\ After(c) \in BuildSteps \cup OtherSteps
        /\ Append(c.held, o) \in Seq(Nat)
    BY <1>5, <1>6, <1>7 DEF OtherSteps
  <2> QED
    BY <1>4, <2>1 DEF Onward, Call
<1> HIDE DEF e
<1>9. CallFits(e)
  <2>1. /\ c.at \notin BuildSteps /\ e.at \notin BuildSteps
        /\ c.at # "idle" /\ e.at # "acquire_target"
        /\ c.at \in WithBuffer <=> c.at = "acquire_buffer"
        /\ e.at \in WithBuffer <=> e.at = "calloc_image"
    BY <1>1, <1>3, <1>6 DEF Kept, BuildSteps, SurfaceSteps, BufferSteps,
                            ContextSteps, WithBuffer
  <2> QED
    BY <1>4, <1>6, <2>1 DEF CallFits
<1>10. Known(e, made)
  <2>1. \A k \in DOMAIN e.held : \/ k \in DOMAIN c.held /\ e.held[k] = c.held[k]
                                 \/ e.held[k] = o
    <3> DEFINE s == c.held
    <3>1. e.held = Append(s, o) /\ s \in Seq(Nat) /\ o \in Nat
      BY <1>5, <1>6, <1>7
    <3> HIDE DEF s
    <3>2. /\ Append(s, o) \in Seq(Nat) /\ Len(Append(s, o)) = Len(s) + 1
          /\ \A i \in 1 .. Len(s) : Append(s, o)[i] = s[i]
          /\ Append(s, o)[Len(s) + 1] = o
      BY <3>1, AppendProperties
    <3> QED
      BY <3>1, <3>2 DEF s
  <2> QED
    BY <1>4, <1>5, <1>6, <2>1 DEF Known
<1>11. Named(e, store.obj) /\ SelfFits(e, store.obj)
  <2>1. c.at \notin BuildSteps /\ c.at # "enqueue" /\ e.at # "enqueue"
    BY <1>1, <1>3, <1>6 DEF Kept, BuildSteps, SurfaceSteps, BufferSteps,
                            ContextSteps
  <2>2. c.self = NoObject
    BY <1>4, <2>1 DEF CallFits
  <2> QED
    BY <1>4, <1>6, <2>1, <2>2 DEF Named, SelfFits
<1>12. Fit(e, made, store.obj)
  BY <1>8, <1>9, <1>10, <1>11 DEF Fit
<1>13. ASSUME NEW x \in Nat \ {NoObject}
       PROVE  RefsOf(e, x) = RefsOf(c, x) + (IF x = o THEN 1 ELSE 0)
  <2>1. RefsOf(e, x) = Count(e.held, x) + Count(Due(e.owed), x) + OnSelf(e, x)
    BY <1>8, OwedDue
  <2>2. /\ RefsOf(c, x) =
               Count(c.held, x) + Count(Due(c.owed), x) + OnSelf(c, x)
        /\ Count(c.held, x) \in Nat /\ Count(Due(c.owed), x) \in Nat
        /\ OnSelf(c, x) \in Nat
    BY <1>4, OwedDue
  <2>3. Count(e.held, x) = Count(c.held, x) + (IF x = o THEN 1 ELSE 0)
    <3>1. Append(c.held, o) = c.held \o <<o>> /\ <<o>> \in Seq(Nat)
      BY <1>5, <1>7, AppendIsConcat
    <3>2. Count(c.held \o <<o>>, x) = Count(c.held, x) + Count(<<o>>, x)
      BY <1>7, <3>1, CountConcat
    <3>3. Count(<<o>>, x) = IF o = x THEN 1 ELSE 0
      BY CountOne
    <3> QED
      BY <1>6, <3>1, <3>2, <3>3
  <2>4. OnSelf(e, x) = OnSelf(c, x) /\ e.owed = c.owed
    BY <1>6 DEF OnSelf
  <2> QED
    BY <2>1, <2>2, <2>3, <2>4
<1> QED
  BY <1>2, <1>3, <1>6, <1>12, <1>13, StepRef DEF c

(* A call at the step that takes the next target.                          *)
LEMMA TargetNext ==
  ASSUME NEW c, NEW n, NEW obj, Fit(c, n, obj), c.at = "acquire_target"
  PROVE  LET e == Onward([c EXCEPT !.targets = Tail(@)])
         IN /\ e \in Call /\ CallFits(e) /\ Known(e, n) /\ Named(e, obj)
            /\ e.self = c.self /\ Makes(e.at) = "context" /\ e.owed = c.owed
            /\ e.at \in {"mpp_create", "acquire_target"} /\ e.local = c.local
            /\ e.ids = c.ids /\ e.failed = c.failed /\ e.held = c.held
            /\ e.op = c.op /\ e.on = c.on
            /\ c.targets # <<>> /\ IsA(obj, Head(c.targets), "surface")
            /\ \A x : RefsOf(e, x) = RefsOf(c, x)
<1> DEFINE d == [c EXCEPT !.targets = Tail(@)]
           e == Onward(d)
<1>1. c \in Call /\ CallFits(c) /\ Known(c, n) /\ Named(c, obj)
  BY DEF Fit
<1>2. c.targets # <<>> /\ c.targets \in Seq(Nat)
  BY <1>1 DEF CallFits, Call
<1>3. /\ Tail(c.targets) \in Seq(Nat)
      /\ Len(Tail(c.targets)) = Len(c.targets) - 1
      /\ \A k \in DOMAIN Tail(c.targets) :
           k + 1 \in DOMAIN c.targets /\ Tail(c.targets)[k] = c.targets[k + 1]
      /\ Head(c.targets) = c.targets[1] /\ 1 \in DOMAIN c.targets
  BY <1>2
<1>4. d \in Call
  BY <1>1, <1>3 DEF Call
<1>5. /\ d.op = c.op /\ d.at = c.at /\ d.owed = c.owed /\ d.self = c.self
      /\ d.ids = c.ids /\ d.failed = c.failed /\ d.surface = c.surface
      /\ d.on = c.on /\ d.local = c.local /\ d.held = c.held
      /\ d.targets = Tail(c.targets)
  BY <1>1 DEF Call
<1> HIDE DEF d
<1>6. After(d) = IF d.targets = <<>> THEN "mpp_create" ELSE "acquire_target"
  BY <1>5 DEF After
<1>7. e \in Call
  <2>1. After(d) \in BuildSteps \cup OtherSteps
    BY <1>6 DEF BuildSteps, ContextSteps
  <2> QED
    BY <1>4, <2>1 DEF Onward, Call
<1>8. /\ e.op = c.op /\ e.at = After(d) /\ e.owed = c.owed /\ e.self = c.self
      /\ e.ids = c.ids /\ e.failed = c.failed /\ e.surface = c.surface
      /\ e.on = c.on /\ e.local = c.local /\ e.held = c.held
      /\ e.targets = Tail(c.targets)
  BY <1>4, <1>5 DEF Onward, Call
<1> HIDE DEF e
<1>9. e.at \in {"mpp_create", "acquire_target"}
  BY <1>6, <1>8
<1>10. CallFits(e)
  <2>1. /\ c.at \in BuildSteps \ WithBuffer /\ e.at \in BuildSteps \ WithBuffer
        /\ c.at # "idle" /\ e.at # "idle" /\ c.at \notin BufferSteps
        /\ e.at \notin BufferSteps
    BY <1>9 DEF BuildSteps, SurfaceSteps, BufferSteps, ContextSteps, WithBuffer
  <2>2. OpsAt(c.at) = {"context"} /\ OpsAt(e.at) = {"context"}
    BY <1>9 DEF OpsAt, SurfaceSteps, BufferSteps, ContextSteps, WithBuffer
  <2>3. Holds(c) = <<>> /\ Holds(e) = <<>>
    BY <2>1, BuildHolds
  <2>4. e.at = "acquire_target" => e.targets # <<>>
    BY <1>5, <1>6, <1>8
  <2> QED
    BY <1>1, <1>8, <2>1, <2>2, <2>3, <2>4 DEF CallFits
<1>11. Known(e, n)
  BY <1>1, <1>3, <1>8 DEF Known
<1>12. Named(e, obj)
  BY <1>1, <1>3, <1>8, <1>9 DEF Named
<1>13. Makes(e.at) = "context"
  BY <1>9 DEF Makes, SurfaceSteps, BufferSteps, ContextSteps
<1>14. IsA(obj, Head(c.targets), "surface")
  BY <1>1, <1>3 DEF Named
<1>15. ASSUME NEW x
       PROVE  RefsOf(e, x) = RefsOf(c, x)
  <2>1. RefsOf(e, x) = Count(e.held, x) + Count(Due(e.owed), x) + OnSelf(e, x)
    BY <1>7, OwedDue
  <2>2. RefsOf(c, x) = Count(c.held, x) + Count(Due(c.owed), x) + OnSelf(c, x)
    BY <1>1, OwedDue
  <2> QED
    BY <1>8, <2>1, <2>2 DEF OnSelf
<1> QED
  BY <1>2, <1>7, <1>8, <1>9, <1>10, <1>11, <1>12, <1>13, <1>14, <1>15 DEF e, d

(* A new context takes a reference on a target.                            *)
LEMMA TargetKeeps ==
  ASSUME RefInv, NEW t \in Threads, acquire_target_succeeds(t)
  PROVE  RefInv'
<1> DEFINE c    == call[t]
           o    == Wanted(c)
           s    == c.self
           obj  == store.obj
           obj1 == [obj EXCEPT ![o].refs = obj[o].refs + 1]
           m    == Ref(store, o)
           list == Append(obj1[s].links["target"], o)
           obj2 == [obj1 EXCEPT ![s].links["target"] = list]
           e    == Onward([c EXCEPT !.targets = Tail(@)])
<1>1. /\ At(t, "acquire_target") /\ o \in heap /\ Goes(t, e)
      /\ store' = [m EXCEPT !.obj[s].links["target"] =
                              Append(m.obj[s].links["target"], o)]
      /\ UNCHANGED <<heap, made, up>>
  BY DEF acquire_target_succeeds
<1>2. up /\ c.at = "acquire_target" /\ c.owed = <<>>
  BY <1>1, AtUp
<1>3. /\ Fit(c, made, obj) /\ c \in Call /\ CallFits(c) /\ Known(c, made)
      /\ SelfFits(c, obj) /\ Well(obj)
  BY CallsAreFit, StoreWell DEF Fit
<1>4. /\ o \in DOMAIN obj /\ o \in Nat /\ o # NoObject
      /\ Reachable(t, o) /\ s # o
  BY <1>1, HeapAlive
<1>5. o = Head(c.targets)
  BY <1>2 DEF Wanted
<1>6. /\ e \in Call /\ CallFits(e) /\ Known(e, made) /\ Named(e, obj)
      /\ e.self = s /\ Makes(e.at) = "context"
      /\ e.at \in {"mpp_create", "acquire_target"}
      /\ IsA(obj, o, "surface")
      /\ \A x : RefsOf(e, x) = RefsOf(c, x)
  BY <1>2, <1>3, <1>5, TargetNext
<1>7. s # NoObject /\ s \in DOMAIN obj /\ obj[s].refs = 1
      /\ obj[s].type = "context"
  <2>1. c.at \in BuildSteps
    BY <1>2 DEF BuildSteps, ContextSteps
  <2>2. Makes(c.at) = "context"
    BY <1>2 DEF Makes, SurfaceSteps, BufferSteps, ContextSteps
  <2> QED
    BY <1>3, <2>1, <2>2 DEF CallFits, SelfFits
<1>8. /\ m = Memory(obj1, store.open) /\ SameLinks(obj, obj1)
      /\ obj1[o].refs = obj[o].refs + 1
      /\ \A p \in DOMAIN obj : p # o => obj1[p].refs = obj[p].refs
  BY <1>4, MemoryRefs
<1> HIDE DEF m, obj1, o, s, e, c
<1>9. /\ Well(obj1) /\ SameTypes(obj, obj1)
      /\ \A x : LinkRefs(obj1, x) = LinkRefs(obj, x)
  BY <1>3, <1>8, LinksKept DEF SameLinks
<1>10. /\ DOMAIN obj1 = DOMAIN obj
       /\ \A p \in DOMAIN obj : obj1[p].type = obj[p].type
  BY <1>9 DEF SameTypes
<1>11. obj1[s].links["target"] \in Seq(Nat) /\ list \in Seq(Nat)
  <2>1. obj1[s] \in Object
    BY <1>7, <1>9, <1>10 DEF Well, Objects
  <2>2. obj1[s].links \in [Slots -> Seq(Nat)] /\ "target" \in Slots
    BY <2>1 DEF Object, Slots
  <2> QED
    BY <1>4, <2>2
<1>12. FitsSlot(obj1, s, "target", list)
  <2> DEFINE q == obj1[s].links["target"]
  <2>1. obj1[s].type = OwnerOf("target")
    BY <1>7, <1>10 DEF OwnerOf
  <2>2. \A k \in DOMAIN q : q[k] \in DOMAIN obj1 /\ IsA(obj1, q[k], TargetOf("target"))
    BY <1>7, <1>9, <1>10 DEF Well, LinksOk, Slots
  <2>3. o \in DOMAIN obj1 /\ IsA(obj1, o, TargetOf("target"))
    BY <1>4, <1>6, <1>10 DEF IsA, TargetOf
  <2>4. q \in Seq(Nat) /\ list = Append(q, o) /\ o \in Nat
    BY <1>4, <1>11
  <2> HIDE DEF q, list
  <2>5. /\ Append(q, o) \in Seq(Nat) /\ Len(Append(q, o)) = Len(q) + 1
        /\ \A i \in 1 .. Len(q) : Append(q, o)[i] = q[i]
        /\ Append(q, o)[Len(q) + 1] = o
    BY <2>4, AppendProperties
  <2>6. \A k \in DOMAIN list : (k \in DOMAIN q /\ list[k] = q[k]) \/ list[k] = o
    BY <2>4, <2>5
  <2> QED
    BY <1>11, <2>1, <2>2, <2>3, <2>6 DEF FitsSlot
<1>13. ASSUME NEW x
       PROVE  Count(list, x) = Count(obj1[s].links["target"], x) +
                               (IF x = o THEN 1 ELSE 0)
  <2> DEFINE q == obj1[s].links["target"]
  <2>1. q \in Seq(Nat) /\ list = Append(q, o) /\ <<o>> \in Seq(Nat)
    BY <1>4, <1>11
  <2> HIDE DEF q, list
  <2>2. list = q \o <<o>>
    BY <1>4, <2>1, AppendIsConcat
  <2>3. Count(q \o <<o>>, x) = Count(q, x) + Count(<<o>>, x)
    BY <2>1, CountConcat
  <2>4. Count(<<o>>, x) = IF o = x THEN 1 ELSE 0
    BY CountOne
  <2> QED
    BY <2>2, <2>3, <2>4 DEF q
<1>14. store' = Memory(obj2, store.open)
  <2>1. m.obj = obj1 /\ m.open = store.open /\ m = Memory(m.obj, m.open)
    BY <1>8 DEF Memory
  <2> HIDE DEF list
  <2>2. store' = [m EXCEPT !.obj[s].links["target"] = list]
    BY <1>1, <2>1 DEF list
  <2>3. [m EXCEPT !.obj[s].links["target"] = list] =
          Memory([m.obj EXCEPT ![s].links["target"] = list], m.open)
    BY <2>1, MemoryChanges
  <2> QED
    BY <2>1, <2>2, <2>3
<1> HIDE DEF list
<1>15. /\ Well(obj2) /\ SameTypes(obj1, obj2)
       /\ \A p \in DOMAIN obj1 : obj2[p].refs = obj1[p].refs
       /\ \A x : /\ LinkRefs(obj2, x) = LinkRefs(obj1, x) -
                      Count(obj1[s].links["target"], x) + Count(list, x)
                 /\ Count(obj1[s].links["target"], x) \in Nat
                 /\ LinkRefs(obj1, x) \in Nat
  <2>1. "target" \in Slots /\ "target" # "buffer" /\ s \in DOMAIN obj1
    BY <1>7, <1>10 DEF Slots
  <2>2. LET obj3 == [obj1 EXCEPT ![s].links["target"] = list]
        IN /\ Well(obj3) /\ SameTypes(obj1, obj3)
           /\ \A p \in DOMAIN obj1 : /\ obj3[p].refs = obj1[p].refs
                                     /\ obj3[p].raw = obj1[p].raw
                                     /\ p # s => obj3[p] = obj1[p]
           /\ obj3[s].links["target"] = list
           /\ \A q \in Slots \ {"target"} : obj3[s].links[q] = obj1[s].links[q]
           /\ \A x : /\ LinkRefs(obj3, x) = LinkRefs(obj1, x) -
                          Count(obj1[s].links["target"], x) + Count(list, x)
                     /\ Count(obj1[s].links["target"], x) <= LinkRefs(obj1, x)
                     /\ Count(obj1[s].links["target"], x) \in Nat
                     /\ Count(list, x) \in Nat
                     /\ LinkRefs(obj1, x) \in Nat
    BY <1>9, <1>12, <2>1, LinksSet
  <2> QED
    BY <2>2
<1> HIDE DEF obj2
<1>16. /\ DOMAIN obj2 = DOMAIN obj
       /\ \A p \in DOMAIN obj : /\ obj2[p].type = obj[p].type
                                /\ p # o => obj2[p].refs = obj[p].refs
       /\ obj2[o].refs = obj[o].refs + 1 /\ SameTypes(obj, obj2)
  BY <1>4, <1>8, <1>10, <1>15 DEF SameTypes
<1>17. \A x : LinkRefs(obj2, x) = LinkRefs(obj, x) + (IF x = o THEN 1 ELSE 0)
  BY <1>9, <1>13, <1>15
<1>18. /\ store.open \subseteq Resources /\ made \in Nat
       /\ DOMAIN obj \subseteq 1 .. made /\ heap \subseteq 1 .. made
  BY StoreIs
<1>19. /\ made' \in Nat /\ made <= made' /\ heap' = heap /\ made' = made
       /\ up' = up
  BY <1>1, <1>18
<1>20. Fit(e, made', obj2)
  <2>1. Named(e, obj2)
    BY <1>6, <1>16, SameTypesKept
  <2>2. SelfFits(e, obj2)
    BY <1>4, <1>6, <1>7, <1>16 DEF SelfFits
  <2> QED
    BY <1>6, <1>19, <2>1, <2>2 DEF Fit
<1>21. ASSUME NEW x \in Nat \ {NoObject}
       PROVE  BalancedNext(t, e, obj2, x)
  <2>1. /\ LinkRefs(obj, x) \in Nat /\ CallRefs(call, x) \in Nat
        /\ RefsOf(c, x) \in Nat
    BY RefsAdd DEF c
  <2>2. CallRefs(call, x) - RefsOf(c, x) + RefsOf(e, x) = CallRefs(call, x)
    BY <1>6, <2>1
  <2>3. InHeap(heap, x) \in Nat
    BY DEF InHeap
  <2>4. Balanced(obj, x, InHeap(heap, x) + LinkRefs(obj, x) + CallRefs(call, x))
    BY DEF RefInv, Balance, HeldBy
  <2>5. CASE x = o
    <3>1. obj[o].refs = InHeap(heap, o) + LinkRefs(obj, o) + CallRefs(call, o)
      BY <1>4, <2>4, <2>5 DEF Balanced
    <3>2. obj2[o].refs =
              InHeap(heap, o) + LinkRefs(obj2, o) + CallRefs(call, o)
          /\ obj2[o].refs > 0
      BY <1>16, <1>17, <2>1, <2>3, <2>5, <3>1
    <3> QED
      BY <1>4, <1>16, <1>19, <2>2, <2>5, <3>2 DEF BalancedNext, Balanced, c
  <2>6. CASE x # o
    <3>1. LinkRefs(obj2, x) = LinkRefs(obj, x)
      BY <1>17, <2>1, <2>6
    <3> QED
      BY <1>16, <1>19, <2>2, <2>4, <2>6, <3>1 DEF BalancedNext, Balanced, c
  <2> QED
    BY <2>5, <2>6
<1>22. \A p \in DOMAIN obj :
         \/ Reachable(t, p)
         \/ /\ p \in DOMAIN obj2 /\ obj2[p].refs = obj[p].refs
            /\ obj2[p].type = obj[p].type
  BY <1>4, <1>16
<1>23. TypesKept(obj, obj2, made)
  BY <1>16, SameTypesKept
<1> QED
  BY <1>1, <1>2, <1>14, <1>15, <1>16, <1>18, <1>19, <1>20, <1>21, <1>22, <1>23,
     StepTaken

-----------------------------------------------------------------------------
(***************************************************************************)
(* Pictures.                                                               *)
(***************************************************************************)

(* The objects and the store after the links of o have changed.            *)
Changed(o, slot, list) == [store.obj EXCEPT ![o].links[slot] = list]

(* Nothing but these links has changed.                                    *)
LEMMA RelinkedIs ==
  ASSUME RefInv, NEW o \in DOMAIN store.obj, NEW slot \in Slots,
         slot # "buffer", NEW list, FitsSlot(store.obj, o, slot, list)
  PROVE  LET obj  == store.obj
             obj2 == Changed(o, slot, list)
         IN /\ Relinked(o, slot, list) = Memory(obj2, store.open)
            /\ Well(obj2) /\ SameTypes(obj, obj2) /\ DOMAIN obj2 = DOMAIN obj
            /\ \A p \in DOMAIN obj : /\ obj2[p].refs = obj[p].refs
                                     /\ obj2[p].raw = obj[p].raw
            /\ \A x : /\ LinkRefs(obj2, x) = LinkRefs(obj, x) -
                           Count(Linked(o, slot), x) + Count(list, x)
                      /\ Count(Linked(o, slot), x) <= LinkRefs(obj, x)
                      /\ Count(Linked(o, slot), x) \in Nat
                      /\ Count(list, x) \in Nat
                      /\ LinkRefs(obj, x) \in Nat
<1> DEFINE obj  == store.obj
           obj2 == [obj EXCEPT ![o].links[slot] = list]
<1>1. Well(obj) /\ store = Memory(obj, store.open)
  BY StoreWell, StoreIs
<1>2. Relinked(o, slot, list) = Memory(obj2, store.open)
  <2>1. Relinked(o, slot, list) = [store EXCEPT !.obj[o].links[slot] = list]
    BY DEF Relinked
  <2>2. [store EXCEPT !.obj[o].links[slot] = list] =
          Memory([store.obj EXCEPT ![o].links[slot] = list], store.open)
    BY <1>1, MemoryChanges
  <2> QED
    BY <2>1, <2>2
<1>3. LET obj3 == [obj EXCEPT ![o].links[slot] = list]
      IN /\ Well(obj3) /\ SameTypes(obj, obj3)
         /\ \A p \in DOMAIN obj : /\ obj3[p].refs = obj[p].refs
                                  /\ obj3[p].raw = obj[p].raw
                                  /\ p # o => obj3[p] = obj[p]
         /\ obj3[o].links[slot] = list
         /\ \A q \in Slots \ {slot} : obj3[o].links[q] = obj[o].links[q]
         /\ \A x : /\ LinkRefs(obj3, x) = LinkRefs(obj, x) -
                        Count(obj[o].links[slot], x) + Count(list, x)
                   /\ Count(obj[o].links[slot], x) <= LinkRefs(obj, x)
                   /\ Count(obj[o].links[slot], x) \in Nat
                   /\ Count(list, x) \in Nat
                   /\ LinkRefs(obj, x) \in Nat
  BY <1>1, LinksSet
<1> QED
  BY <1>2, <1>3 DEF Linked, SameTypes, Changed

(* A call exchanges references with an object.                             *)
LEMMA StepLinks ==
  ASSUME RefInv, NEW t \in Threads, NEW e, Goes(t, e),
         NEW o \in DOMAIN store.obj, NEW slot \in Slots, slot # "buffer",
         NEW list, FitsSlot(store.obj, o, slot, list),
         store' = Relinked(o, slot, list), UNCHANGED <<heap, made, up>>,
         Fit(e, made, store.obj), up,
         \A x \in Nat \ {NoObject} :
           RefsOf(e, x) + Count(list, x) =
             RefsOf(call[t], x) + Count(Linked(o, slot), x)
  PROVE  RefInv'
<1> DEFINE obj  == store.obj
           obj2 == Changed(o, slot, list)
<1>1. /\ store' = Memory(obj2, store.open)
      /\ Well(obj2) /\ SameTypes(obj, obj2) /\ DOMAIN obj2 = DOMAIN obj
      /\ \A p \in DOMAIN obj : obj2[p].refs = obj[p].refs
      /\ \A x : /\ LinkRefs(obj2, x) = LinkRefs(obj, x) -
                     Count(Linked(o, slot), x) + Count(list, x)
                /\ Count(Linked(o, slot), x) \in Nat /\ Count(list, x) \in Nat
                /\ LinkRefs(obj, x) \in Nat
  BY RelinkedIs
<1> HIDE DEF obj2
<1>2. /\ store.open \subseteq Resources /\ made \in Nat
      /\ DOMAIN obj \subseteq 1 .. made /\ heap \subseteq 1 .. made
  BY StoreIs
<1>3. /\ made' \in Nat /\ made <= made' /\ heap' = heap /\ made' = made
      /\ up' = up
  BY <1>2
<1>4. Fit(e, made', obj2)
  <2>1. Named(e, obj2)
    BY <1>1, SameTypesKept DEF Fit
  <2>2. SelfFits(e, obj2)
    BY <1>1 DEF Fit, SelfFits, SameTypes
  <2> QED
    BY <1>3, <2>1, <2>2 DEF Fit
<1>5. ASSUME NEW x \in Nat \ {NoObject}
      PROVE  BalancedNext(t, e, obj2, x)
  <2>1. /\ LinkRefs(obj, x) \in Nat /\ CallRefs(call, x) \in Nat
        /\ RefsOf(call[t], x) \in Nat
    BY RefsAdd
  <2>2. RefsOf(e, x) \in Nat
    BY OwedDue DEF Fit
  <2>3. InHeap(heap, x) \in Nat
    BY DEF InHeap
  <2>4. InHeap(heap, x) + LinkRefs(obj2, x) +
          (CallRefs(call, x) - RefsOf(call[t], x) + RefsOf(e, x)) =
        InHeap(heap, x) + LinkRefs(obj, x) + CallRefs(call, x)
    <3>1. RefsOf(e, x) + Count(list, x) =
            RefsOf(call[t], x) + Count(Linked(o, slot), x)
      OBVIOUS
    <3>2. /\ LinkRefs(obj2, x) = LinkRefs(obj, x) -
                     Count(Linked(o, slot), x) + Count(list, x)
          /\ Count(Linked(o, slot), x) \in Nat /\ Count(list, x) \in Nat
      BY <1>1
    <3> QED
      BY <2>1, <2>2, <2>3, <3>1, <3>2
  <2>5. Balanced(obj, x, InHeap(heap, x) + LinkRefs(obj, x) + CallRefs(call, x))
    BY DEF RefInv, Balance, HeldBy
  <2> QED
    BY <1>1, <1>3, <2>4, <2>5 DEF BalancedNext, Balanced
<1>6. \A p \in DOMAIN obj :
         \/ Reachable(t, p)
         \/ /\ p \in DOMAIN obj2 /\ obj2[p].refs = obj[p].refs
            /\ obj2[p].type = obj[p].type
  BY <1>1 DEF SameTypes
<1>7. TypesKept(obj, obj2, made)
  BY <1>1, SameTypesKept
<1> QED
  BY <1>1, <1>2, <1>3, <1>4, <1>5, <1>6, <1>7, StepTaken

(* What a slot of a living object holds.                                   *)
LEMMA LinkedIs ==
  ASSUME RefInv, NEW o \in DOMAIN store.obj, NEW slot \in Slots
  PROVE  /\ Linked(o, slot) \in Seq(Nat)
         /\ slot = "render" => Len(Linked(o, slot)) <= 1
         /\ FitsSlot(store.obj, o, slot, Linked(o, slot))
         /\ \A k \in DOMAIN Linked(o, slot) :
              /\ Linked(o, slot)[k] \in DOMAIN store.obj
              /\ Linked(o, slot)[k] # NoObject
              /\ Linked(o, slot)[k] \in Nat
              /\ LinkRefs(store.obj, Linked(o, slot)[k]) > 0
              /\ store.obj[Linked(o, slot)[k]].type = TargetOf(slot)
<1>1. Well(store.obj)
  BY StoreWell
<1>2. store.obj[o].links \in [Slots -> Seq(Nat)]
  BY <1>1 DEF Well, Objects, Object
<1>3. Linked(o, slot) \in Seq(Nat)
  BY <1>2 DEF Linked
<1>4. LinksOk(store.obj)
  BY <1>1 DEF Well
<1>5. slot = "render" => Len(Linked(o, slot)) <= 1
  BY <1>4 DEF LinksOk, Linked
<1>6. FitsSlot(store.obj, o, slot, Linked(o, slot))
  BY <1>3, <1>4, <1>5 DEF LinksOk, Linked, FitsSlot
<1>7. NoObject \notin DOMAIN store.obj /\ DOMAIN store.obj \subseteq Nat
  BY StoreIs DEF NoObject
<1>8. ASSUME NEW k \in DOMAIN Linked(o, slot)
      PROVE  /\ Linked(o, slot)[k] \in DOMAIN store.obj
             /\ LinkRefs(store.obj, Linked(o, slot)[k]) > 0
             /\ store.obj[Linked(o, slot)[k]].type = TargetOf(slot)
  BY <1>1, LinkedRefs DEF Linked
<1> QED
  BY <1>3, <1>5, <1>6, <1>7, <1>8

(* A list and one more.                                                    *)
LEMMA CountMore ==
  ASSUME NEW q \in Seq(Nat), NEW o \in Nat
  PROVE  /\ q \o <<o>> \in Seq(Nat) /\ Append(q, o) = q \o <<o>>
         /\ \A x : /\ Count(q \o <<o>>, x) =
                        Count(q, x) + (IF x = o THEN 1 ELSE 0)
                   /\ Count(q, x) \in Nat
         /\ \A k \in DOMAIN (q \o <<o>>) :
              \/ k \in DOMAIN q /\ (q \o <<o>>)[k] = q[k]
              \/ (q \o <<o>>)[k] = o
<1>1. Append(q, o) = q \o <<o>> /\ <<o>> \in Seq(Nat)
  BY AppendIsConcat
<1>2. /\ Append(q, o) \in Seq(Nat) /\ Len(Append(q, o)) = Len(q) + 1
      /\ \A i \in 1 .. Len(q) : Append(q, o)[i] = q[i]
      /\ Append(q, o)[Len(q) + 1] = o
  BY AppendProperties
<1>3. ASSUME NEW x
      PROVE  /\ Count(q \o <<o>>, x) = Count(q, x) + (IF x = o THEN 1 ELSE 0)
             /\ Count(q, x) \in Nat
  <2>1. Count(q \o <<o>>, x) = Count(q, x) + Count(<<o>>, x)
    BY <1>1, CountConcat
  <2>2. Count(<<o>>, x) = IF o = x THEN 1 ELSE 0
    BY CountOne
  <2> QED
    BY <2>1, <2>2, CountNone
<1>4. \A k \in DOMAIN Append(q, o) :
        \/ k \in DOMAIN q /\ Append(q, o)[k] = q[k]
        \/ Append(q, o)[k] = o
  BY <1>2
<1> QED
  BY <1>1, <1>2, <1>3, <1>4

(* The context of a picture call.                                          *)
LEMMA PictureOn ==
  ASSUME RefInv, NEW t \in Threads, NEW do \in {"begin", "end", "enqueue"},
         At(t, do)
  PROVE  LET c == call[t]
         IN /\ c.on \in DOMAIN store.obj /\ c.on \in Nat /\ c.on # NoObject
            /\ store.obj[c.on].type = "context" /\ up /\ do \in LastSteps
            /\ c.op \in {"begin", "end"} /\ c \in Call
<1> DEFINE c == call[t]
<1>1. do \in LastSteps
  BY DEF LastSteps
<1>2. c.on \in DOMAIN store.obj /\ c.on \in Nat /\ c.on # NoObject
  BY <1>1, LastHolds
<1>3. up /\ c.op \in OpsAt(do) /\ c \in Call
  BY <1>1, LastFits
<1>4. c.op \in {"begin", "end"}
  BY <1>3 DEF OpsAt, SurfaceSteps, BufferSteps, ContextSteps, WithBuffer
<1>5. IsA(store.obj, c.on, "context")
  BY <1>4, CallsAreFit DEF Fit, Named
<1> QED
  BY <1>1, <1>2, <1>3, <1>4, <1>5 DEF IsA

(* A call returns with what it found in a slot and the context.            *)
LEMMA ReturnLinks ==
  ASSUME RefInv, NEW t \in Threads, NEW do \in {"begin", "end", "enqueue"},
         At(t, do), NEW slot \in Slots, slot # "buffer",
         NEW list, FitsSlot(store.obj, call[t].on, slot, list),
         store' = Relinked(call[t].on, slot, list),
         UNCHANGED <<heap, made, up>>,
         NEW back \in Seq(Nat), \A k \in DOMAIN back : back[k] # NoObject,
         Returns(t, back),
         \A x \in Nat \ {NoObject} :
           Count(back, x) + Count(list, x) =
             Count(call[t].held, x) + Count(Linked(call[t].on, slot), x)
  PROVE  RefInv'
<1> DEFINE e == Back(call[t], back)
<1>1. /\ call[t].on \in DOMAIN store.obj /\ up /\ do \in LastSteps
  BY PictureOn
<1>2. /\ Fit(e, made, store.obj)
      /\ \A x \in Nat \ {NoObject} : RefsOf(e, x) = Count(back, x)
  BY <1>1, BackFits
<1>3. \A x \in Nat \ {NoObject} : RefsOf(call[t], x) = Count(call[t].held, x)
  BY <1>1, LastFits
<1>4. Goes(t, e)
  BY DEF Returns, Back
<1> HIDE DEF e
<1>5. \A x \in Nat \ {NoObject} :
        RefsOf(e, x) + Count(list, x) =
          RefsOf(call[t], x) + Count(Linked(call[t].on, slot), x)
  BY <1>2, <1>3
<1> QED
  BY <1>1, <1>2, <1>4, <1>5, StepLinks

(* BeginPicture: the context has the surface.                              *)
LEMMA AcceptedKeeps ==
  ASSUME RefInv, NEW t \in Threads, begin_accepted(t)
  PROVE  RefInv'
<1> DEFINE c    == call[t].on
           s    == call[t].surface
           q    == Linked(c, "render")
           back == q \o <<c>>
<1>1. /\ At(t, "begin") /\ store' = Relinked(c, "render", <<s>>)
      /\ Returns(t, back) /\ UNCHANGED <<heap, made, up>>
  BY DEF begin_accepted
<1>2. /\ c \in DOMAIN store.obj /\ c \in Nat /\ c # NoObject
      /\ store.obj[c].type = "context"
  BY <1>1, PictureOn
<1>3. /\ call[t].held = <<c, s>> /\ s \in DOMAIN store.obj /\ s \in Nat
      /\ s # NoObject
  BY <1>1, LastHolds DEF LastSteps
<1>4. IsA(store.obj, s, "surface")
  BY CallsAreFit DEF Fit, Named
<1>5. "render" \in Slots
  BY DEF Slots
<1>6. q \in Seq(Nat) /\ \A k \in DOMAIN q : q[k] # NoObject
  BY <1>2, <1>5, LinkedIs
<1> HIDE DEF c, s
<1>7. FitsSlot(store.obj, c, "render", <<s>>)
  <2>1. /\ <<s>> \in Seq(Nat) /\ Len(<<s>>) = 1 /\ DOMAIN <<s>> = {1}
        /\ <<s>>[1] = s
    BY <1>3
  <2>2. OwnerOf("render") = "context" /\ TargetOf("render") = "surface"
    BY DEF OwnerOf, TargetOf
  <2> QED
    BY <1>2, <1>3, <1>4, <2>1, <2>2 DEF FitsSlot
<1> HIDE DEF q
<1>8. /\ back \in Seq(Nat)
      /\ \A x : /\ Count(back, x) = Count(q, x) + (IF x = c THEN 1 ELSE 0)
                /\ Count(q, x) \in Nat
      /\ \A k \in DOMAIN back : \/ k \in DOMAIN q /\ back[k] = q[k]
                                \/ back[k] = c
  BY <1>2, <1>6, CountMore
<1> HIDE DEF back
<1>9. \A k \in DOMAIN back : back[k] # NoObject
  BY <1>2, <1>6, <1>8
<1>10. ASSUME NEW x \in Nat \ {NoObject}
       PROVE  Count(back, x) + Count(<<s>>, x) =
                  Count(call[t].held, x) + Count(q, x)
  <2>1. Count(<<s>>, x) = IF s = x THEN 1 ELSE 0
    BY CountOne
  <2>2. Count(<<c, s>>, x) = (IF c = x THEN 1 ELSE 0) + (IF s = x THEN 1 ELSE 0)
    BY <1>2, <1>3, CountTwo
  <2> QED
    BY <1>3, <1>8, <2>1, <2>2
<1> QED
  BY <1>1, <1>5, <1>7, <1>8, <1>9, <1>10, ReturnLinks DEF c, q

(* EndPicture, when no job is made of the picture.                         *)
LEMMA EndKeeps ==
  ASSUME RefInv, NEW t \in Threads, end_picture(t)
  PROVE  RefInv'
<1> DEFINE c    == call[t].on
           q    == Linked(c, "render")
           back == q \o <<c>>
<1>1. /\ At(t, "end") /\ store' = Relinked(c, "render", <<>>)
      /\ Returns(t, back) /\ UNCHANGED <<heap, made, up>>
  BY DEF end_picture
<1>2. /\ c \in DOMAIN store.obj /\ c \in Nat /\ c # NoObject
      /\ store.obj[c].type = "context"
  BY <1>1, PictureOn
<1>3. call[t].held = <<c>>
  BY <1>1, LastHolds DEF LastSteps
<1>5. "render" \in Slots
  BY DEF Slots
<1>6. q \in Seq(Nat) /\ \A k \in DOMAIN q : q[k] # NoObject
  BY <1>2, <1>5, LinkedIs
<1> HIDE DEF c
<1>7. FitsSlot(store.obj, c, "render", <<>>)
  <2>1. <<>> \in Seq(Nat) /\ Len(<<>>) = 0 /\ DOMAIN <<>> = {}
    OBVIOUS
  <2> QED
    BY <2>1 DEF FitsSlot
<1> HIDE DEF q
<1>8. /\ back \in Seq(Nat)
      /\ \A x : /\ Count(back, x) = Count(q, x) + (IF x = c THEN 1 ELSE 0)
                /\ Count(q, x) \in Nat
      /\ \A k \in DOMAIN back : \/ k \in DOMAIN q /\ back[k] = q[k]
                                \/ back[k] = c
  BY <1>2, <1>6, CountMore
<1> HIDE DEF back
<1>9. \A k \in DOMAIN back : back[k] # NoObject
  BY <1>2, <1>6, <1>8
<1>10. ASSUME NEW x \in Nat \ {NoObject}
       PROVE  Count(back, x) + Count(<<>>, x) =
                  Count(call[t].held, x) + Count(q, x)
  <2>1. Count(<<>>, x) = 0
    BY CountEmpty
  <2>2. Count(<<c>>, x) = IF c = x THEN 1 ELSE 0
    BY CountOne
  <2> QED
    BY <1>3, <1>8, <2>1, <2>2
<1> QED
  BY <1>1, <1>5, <1>7, <1>8, <1>9, <1>10, ReturnLinks DEF c, q

(* rk_mpp_dec_enqueue_job: the job has the surface.                        *)
LEMMA EnqueueKeeps ==
  ASSUME RefInv, NEW t \in Threads, enqueue(t)
  PROVE  RefInv'
<1> DEFINE c    == call[t].on
           s    == call[t].held[2]
           q    == Linked(c, "job")
           list == Append(q, s)
           back == <<c>>
<1>1. /\ At(t, "enqueue") /\ store' = Relinked(c, "job", list)
      /\ Returns(t, back) /\ UNCHANGED <<heap, made, up>>
  BY DEF enqueue
<1>2. /\ c \in DOMAIN store.obj /\ c \in Nat /\ c # NoObject
      /\ store.obj[c].type = "context"
  BY <1>1, PictureOn
<1>3. /\ call[t].held = <<c, s>> /\ s \in DOMAIN store.obj /\ s \in Nat
      /\ s # NoObject
  BY <1>1, LastHolds DEF LastSteps
<1>4. IsA(store.obj, s, "surface")
  <2>1. call[t].at = "enqueue"
    BY <1>1 DEF At
  <2> QED
    BY <2>1, CallsAreFit DEF Fit, Named
<1>5. "job" \in Slots /\ "job" # "buffer" /\ "job" # "render"
  BY DEF Slots
<1>6. q \in Seq(Nat) /\ FitsSlot(store.obj, c, "job", q)
  BY <1>2, <1>5, LinkedIs
<1> HIDE DEF c, s, q
<1>7. /\ list = q \o <<s>> /\ list \in Seq(Nat)
      /\ \A x : /\ Count(list, x) = Count(q, x) + (IF x = s THEN 1 ELSE 0)
                /\ Count(q, x) \in Nat
      /\ \A k \in DOMAIN list : \/ k \in DOMAIN q /\ list[k] = q[k]
                                \/ list[k] = s
  <2>1. /\ q \o <<s>> \in Seq(Nat) /\ Append(q, s) = q \o <<s>>
        /\ \A x : /\ Count(q \o <<s>>, x) =
                       Count(q, x) + (IF x = s THEN 1 ELSE 0)
                  /\ Count(q, x) \in Nat
        /\ \A k \in DOMAIN (q \o <<s>>) :
             \/ k \in DOMAIN q /\ (q \o <<s>>)[k] = q[k]
             \/ (q \o <<s>>)[k] = s
    BY <1>3, <1>6, CountMore
  <2>2. list = q \o <<s>>
    BY <2>1
  <2> HIDE DEF list
  <2> QED
    BY <2>1, <2>2
<1> HIDE DEF list
<1>8. FitsSlot(store.obj, c, "job", list)
  <2>1. OwnerOf("job") = "context" /\ TargetOf("job") = "surface"
    BY DEF OwnerOf, TargetOf
  <2>2. \A k \in DOMAIN q : q[k] \in DOMAIN store.obj
                            /\ IsA(store.obj, q[k], TargetOf("job"))
    BY <1>6 DEF FitsSlot
  <2>3. \A k \in DOMAIN list : list[k] \in DOMAIN store.obj
                               /\ IsA(store.obj, list[k], TargetOf("job"))
    BY <1>3, <1>4, <1>7, <2>1, <2>2
  <2> QED
    BY <1>2, <1>5, <1>7, <2>1, <2>3 DEF FitsSlot
<1>9. back \in Seq(Nat) /\ \A k \in DOMAIN back : back[k] # NoObject
  BY <1>2
<1>10. ASSUME NEW x \in Nat \ {NoObject}
       PROVE  Count(back, x) + Count(list, x) =
                  Count(call[t].held, x) + Count(q, x)
  <2>1. Count(back, x) = IF c = x THEN 1 ELSE 0
    BY CountOne
  <2>2. Count(call[t].held, x) =
          (IF c = x THEN 1 ELSE 0) + (IF s = x THEN 1 ELSE 0)
    BY <1>2, <1>3, CountTwo
  <2>3. /\ Count(list, x) = Count(q, x) + (IF x = s THEN 1 ELSE 0)
        /\ Count(q, x) \in Nat
    BY <1>7
  <2> HIDE DEF back
  <2> QED
    BY <2>1, <2>2, <2>3
<1> HIDE DEF back
<1> QED
  BY <1>1, <1>5, <1>8, <1>9, <1>10, ReturnLinks DEF c, q

(* A store with one reference more.                                        *)
LEMMA MemoryRefsOf ==
  ASSUME NEW m, m = Memory(m.obj, m.open), Well(m.obj), NEW o \in DOMAIN m.obj
  PROVE  LET obj2 == [m.obj EXCEPT ![o].refs = m.obj[o].refs + 1]
         IN /\ Ref(m, o) = Memory(obj2, m.open)
            /\ SameLinks(m.obj, obj2) /\ obj2[o].refs = m.obj[o].refs + 1
            /\ \A p \in DOMAIN m.obj : /\ p # o => obj2[p].refs = m.obj[p].refs
                                       /\ obj2[p].raw = m.obj[p].raw
<1> DEFINE r == m.obj[o].refs + 1
<1>1. r \in Nat
  BY DEF Well, Objects, Object
<1>2. Ref(m, o) = [m EXCEPT !.obj[o].refs = r]
  BY DEF Ref, Alive
<1> HIDE DEF r
<1>3. Ref(m, o) = Memory([m.obj EXCEPT ![o].refs = r], m.open)
  BY <1>2, MemoryChanges
<1>4. LET obj2 == [m.obj EXCEPT ![o].refs = r]
      IN /\ SameLinks(m.obj, obj2) /\ obj2[o].refs = r
         /\ \A p \in DOMAIN m.obj : /\ p # o => obj2[p].refs = m.obj[p].refs
                                    /\ obj2[p].raw = m.obj[p].raw
  BY <1>1, RefsSet
<1> QED
  BY <1>3, <1>4 DEF r

(* The call that has made a job of the picture.                            *)
Queued(c, s) == [c EXCEPT !.at = "enqueue", !.held = Append(@, s),
                          !.owed = Unrefs(<<s>>)]

(* It has a reference of its own on the surface, and gives back that of    *)
(* the picture.                                                            *)
LEMMA QueuedFits ==
  ASSUME RefInv, NEW t \in Threads, At(t, "end"), NEW s \in Nat, s # NoObject,
         s <= made, IsA(store.obj, s, "surface")
  PROVE  LET c == call[t]
             e == Queued(c, s)
         IN /\ Fit(e, made, store.obj) /\ e.at = "enqueue"
            /\ e.self = NoObject /\ e.local = c.local /\ e.failed = FALSE
            /\ e.ids = <<>>
            /\ \A x \in Nat \ {NoObject} :
                 RefsOf(e, x) = RefsOf(c, x) + (IF x = s THEN 2 ELSE 0)
<1> DEFINE c == call[t]
           e == Queued(c, s)
           w == Unrefs(<<s>>)
<1>1. /\ up /\ c.at = "end" /\ c \in Call /\ c.op # "surfaces"
      /\ c.self = NoObject /\ c.owed = <<>> /\ c.failed = FALSE
      /\ c.ids = <<>> /\ c.op \in OpsAt("end")
      /\ \A x \in Nat \ {NoObject} : RefsOf(c, x) = Count(c.held, x)
  BY LastFits DEF LastSteps
<1>2. c.op = "end"
  BY <1>1 DEF OpsAt, SurfaceSteps, BufferSteps, ContextSteps, WithBuffer
<1>3. /\ c.held = <<c.on>> /\ c.on \in Nat
  BY LastHolds DEF LastSteps
<1>4. Known(c, made) /\ Named(c, store.obj)
  BY CallsAreFit DEF Fit
<1>5. w \in Seq(Duty) /\ Due(w) = <<s>> /\ Real(w)
  <2>1. <<s>> \in Seq(Nat) /\ \A k \in DOMAIN <<s>> : <<s>>[k] # NoObject
    OBVIOUS
  <2> QED
    BY <2>1, DueUnrefs, RealLists
<1> HIDE DEF c, w
<1>6. Append(c.held, s) = <<c.on, s>>
  <2>1. <<c.on>> \in Seq(Nat)
    BY <1>3
  <2>2. Append(<<c.on>>, s) = <<c.on>> \o <<s>>
    BY <2>1, AppendIsConcat
  <2> QED
    BY <1>3, <2>2, PairConcat
<1>7. e \in Call
  <2>1. /\ "enqueue" \in BuildSteps \cup OtherSteps /\ <<c.on, s>> \in Seq(Nat)
    BY <1>3 DEF OtherSteps
  <2> QED
    BY <1>1, <1>5, <1>6, <2>1 DEF Call, Queued, w
<1>8. /\ e.at = "enqueue" /\ e.held = <<c.on, s>> /\ e.owed = w
      /\ e.self = NoObject /\ e.local = c.local /\ e.failed = FALSE
      /\ e.ids = <<>> /\ e.op = "end" /\ e.surface = c.surface /\ e.on = c.on
      /\ e.targets = c.targets
  <2> DEFINE h == Append(c.held, s)
  <2>1. e = [c EXCEPT !.at = "enqueue", !.held = h, !.owed = w]
    BY DEF Queued, w
  <2> HIDE DEF e, h
  <2>2. /\ e.at = "enqueue" /\ e.held = h /\ e.owed = w
        /\ e.self = c.self /\ e.local = c.local /\ e.failed = c.failed
        /\ e.ids = c.ids /\ e.op = c.op /\ e.surface = c.surface /\ e.on = c.on
        /\ e.targets = c.targets
    BY <1>1, <2>1 DEF Call
  <2> QED
    BY <1>1, <1>2, <1>6, <2>2 DEF h
<1> HIDE DEF e
<1>9. CallFits(e)
  <2>1. e.op \in OpsAt(e.at)
    BY <1>8 DEF OpsAt, SurfaceSteps, BufferSteps, ContextSteps, WithBuffer
  <2>2. e.held = Holds(e)
    <3>1. Holds(e) = <<e.on, e.held[2]>>
      BY <1>8 DEF Holds
    <3>2. e.held[2] = s
      BY <1>8
    <3> QED
      BY <1>8, <3>1, <3>2
  <2>3. e.at \notin BuildSteps /\ e.at \notin WithBuffer
    BY <1>8 DEF BuildSteps, SurfaceSteps, BufferSteps, ContextSteps, WithBuffer
  <2> QED
    BY <1>8, <2>1, <2>2, <2>3 DEF CallFits
<1>10. Known(e, made)
  <2>1. \A k \in DOMAIN e.held : e.held[k] <= made /\ e.held[k] # NoObject
    <3>1. c.on <= made /\ c.on # NoObject
      BY <1>3, <1>4 DEF Known
    <3>2. DOMAIN e.held = {1, 2} /\ e.held[1] = c.on /\ e.held[2] = s
      BY <1>8
    <3> QED
      BY <3>1, <3>2
  <2>2. 0 <= made
    BY StoreIs
  <2> QED
    BY <1>4, <1>5, <1>8, <2>1, <2>2 DEF Known, NoObject
<1>11. Named(e, store.obj) /\ SelfFits(e, store.obj)
  <2>1. e.held[2] = s
    BY <1>8
  <2> QED
    BY <1>2, <1>4, <1>8, <2>1 DEF Named, SelfFits
<1>12. ASSUME NEW x \in Nat \ {NoObject}
       PROVE  RefsOf(e, x) = RefsOf(c, x) + (IF x = s THEN 2 ELSE 0)
  <2>1. RefsOf(e, x) = Count(e.held, x) + Count(Due(e.owed), x) + OnSelf(e, x)
    BY <1>7, OwedDue
  <2>2. Count(<<c.on, s>>, x) =
          (IF c.on = x THEN 1 ELSE 0) + (IF s = x THEN 1 ELSE 0)
    BY <1>3, CountTwo
  <2>3. Count(<<s>>, x) = IF s = x THEN 1 ELSE 0
    BY CountOne
  <2>4. Count(<<c.on>>, x) = IF c.on = x THEN 1 ELSE 0
    BY CountOne
  <2>5. OnSelf(e, x) = 0
    BY <1>8 DEF OnSelf
  <2>6. RefsOf(c, x) = IF c.on = x THEN 1 ELSE 0
    BY <1>1, <1>3, <2>4
  <2>7. RefsOf(e, x) = (IF c.on = x THEN 1 ELSE 0) + (IF s = x THEN 1 ELSE 0)
                       + (IF s = x THEN 1 ELSE 0)
    BY <1>5, <1>8, <2>1, <2>2, <2>3, <2>5
  <2> QED
    BY <2>6, <2>7
<1>13. Fit(e, made, store.obj)
  BY <1>7, <1>9, <1>10, <1>11 DEF Fit
<1> QED
  BY <1>8, <1>12, <1>13 DEF c, e

(* EndPicture makes a job of the picture.                                  *)
LEMMA JobKeeps ==
  ASSUME RefInv, NEW t \in Threads, end_picture_job(t)
  PROVE  RefInv'
<1> DEFINE c    == call[t].on
           q    == Linked(c, "render")
           s    == q[1]
           obj  == store.obj
           obj1 == Changed(c, "render", <<>>)
           m    == Relinked(c, "render", <<>>)
           obj2 == [obj1 EXCEPT ![s].refs = obj1[s].refs + 1]
           e    == Queued(call[t], s)
<1>1. /\ At(t, "end") /\ q # <<>> /\ store' = Ref(m, s) /\ Goes(t, e)
      /\ UNCHANGED <<heap, made, up>>
  BY Zenon DEF end_picture_job, Queued
<1>2. c \in DOMAIN obj /\ c \in Nat /\ c # NoObject /\ up
  BY <1>1, PictureOn
<1>3. "render" \in Slots /\ "render" # "buffer"
  BY DEF Slots
<1>4. /\ q \in Seq(Nat) /\ Len(q) <= 1
      /\ \A k \in DOMAIN q : /\ q[k] \in DOMAIN obj /\ q[k] # NoObject
                             /\ q[k] \in Nat /\ LinkRefs(obj, q[k]) > 0
                             /\ obj[q[k]].type = TargetOf("render")
  BY <1>2, <1>3, LinkedIs
<1>5. q = <<s>> /\ 1 \in DOMAIN q
  <2> HIDE DEF q
  <2>0. q # <<>> /\ q \in Seq(Nat) /\ Len(q) <= 1
    BY <1>1, <1>4
  <2>1. Len(q) = 1
    <3>1. \A z \in Seq(Nat) : z # <<>> => Len(z) \in Nat \ {0}
      BY EmptySeq, Zenon
    <3>2. Len(q) \in Nat \ {0}
      BY <2>0, <3>1
    <3> DEFINE n == Len(q)
    <3>3. n \in Nat \ {0} /\ n <= 1
      BY <2>0, <3>2
    <3> HIDE DEF n
    <3>4. n = 1
      BY <3>3
    <3> QED
      BY <3>4 DEF n
  <2>2. <<s>> \in Seq(Nat) /\ Len(<<s>>) = 1 /\ <<s>>[1] = s /\ 1 \in DOMAIN q
    BY <1>4, <2>1
  <2> HIDE DEF s
  <2>3. \A i \in 1 .. Len(q) : q[i] = <<s>>[i]
    BY <2>1, <2>2 DEF s
  <2> QED
    BY <1>4, <2>1, <2>2, <2>3, SeqEqual
<1>6. /\ s \in DOMAIN obj /\ s # NoObject /\ s \in Nat /\ LinkRefs(obj, s) > 0
      /\ obj[s].type = "surface"
  BY <1>4, <1>5 DEF TargetOf
<1>7. FitsSlot(obj, c, "render", <<>>)
  <2>1. <<>> \in Seq(Nat) /\ Len(<<>>) = 0 /\ DOMAIN <<>> = {}
    OBVIOUS
  <2> QED
    BY <2>1 DEF FitsSlot
<1>8. /\ m = Memory(obj1, store.open)
      /\ Well(obj1) /\ SameTypes(obj, obj1) /\ DOMAIN obj1 = DOMAIN obj
      /\ \A p \in DOMAIN obj : obj1[p].refs = obj[p].refs
      /\ \A x : /\ LinkRefs(obj1, x) =
                     LinkRefs(obj, x) - Count(q, x) + Count(<<>>, x)
                /\ Count(q, x) \in Nat /\ LinkRefs(obj, x) \in Nat
                /\ Count(q, x) <= LinkRefs(obj, x)
  BY <1>2, <1>3, <1>7, RelinkedIs
<1> HIDE DEF obj1, m, q, s, c
<1>9. ASSUME NEW x
      PROVE  LinkRefs(obj1, x) = LinkRefs(obj, x) - (IF x = s THEN 1 ELSE 0)
  <2>1. Count(<<>>, x) = 0
    BY CountEmpty
  <2>2. Count(q, x) = IF s = x THEN 1 ELSE 0
    BY <1>5, CountOne
  <2> QED
    BY <1>8, <2>1, <2>2
<1>10. /\ m.obj = obj1 /\ m.open = store.open /\ m = Memory(m.obj, m.open)
  BY <1>8 DEF Memory
<1>11. /\ store' = Memory(obj2, store.open) /\ SameLinks(obj1, obj2)
       /\ obj2[s].refs = obj1[s].refs + 1
       /\ \A p \in DOMAIN obj1 : p # s => obj2[p].refs = obj1[p].refs
  <2>1. LET obj3 == [m.obj EXCEPT ![s].refs = m.obj[s].refs + 1]
        IN /\ Ref(m, s) = Memory(obj3, m.open)
           /\ SameLinks(m.obj, obj3) /\ obj3[s].refs = m.obj[s].refs + 1
           /\ \A p \in DOMAIN m.obj : /\ p # s => obj3[p].refs = m.obj[p].refs
                                      /\ obj3[p].raw = m.obj[p].raw
    <3>1. Well(m.obj) /\ s \in DOMAIN m.obj
      BY <1>6, <1>8, <1>10
    <3> QED
      BY <1>10, <3>1, MemoryRefsOf
  <2> QED
    BY <1>1, <1>10, <2>1
<1> HIDE DEF obj2
<1>12. /\ Well(obj2) /\ SameTypes(obj1, obj2)
       /\ \A x : LinkRefs(obj2, x) = LinkRefs(obj1, x)
  BY <1>8, <1>11, LinksKept DEF SameLinks
<1>13. /\ DOMAIN obj2 = DOMAIN obj /\ SameTypes(obj, obj2)
       /\ \A p \in DOMAIN obj : /\ obj2[p].type = obj[p].type
                                /\ p # s => obj2[p].refs = obj[p].refs
       /\ obj2[s].refs = obj[s].refs + 1
  BY <1>6, <1>8, <1>11, <1>12 DEF SameTypes
<1>14. /\ store.open \subseteq Resources /\ made \in Nat
       /\ DOMAIN obj \subseteq 1 .. made /\ heap \subseteq 1 .. made
  BY StoreIs
<1>15. /\ made' \in Nat /\ made <= made' /\ heap' = heap /\ made' = made
       /\ up' = up
  BY <1>1, <1>14
<1>16. /\ Fit(e, made, obj) /\ e.self = NoObject
       /\ \A x \in Nat \ {NoObject} :
            RefsOf(e, x) = RefsOf(call[t], x) + (IF x = s THEN 2 ELSE 0)
  <2>1. s <= made /\ IsA(obj, s, "surface")
    BY <1>6, <1>14 DEF IsA
  <2> QED
    BY <1>1, <1>6, <2>1, QueuedFits
<1> HIDE DEF e
<1>17. Fit(e, made', obj2)
  <2>1. Named(e, obj2)
    BY <1>13, <1>16, SameTypesKept DEF Fit
  <2>2. SelfFits(e, obj2)
    BY <1>16 DEF SelfFits
  <2> QED
    BY <1>15, <1>16, <2>1, <2>2 DEF Fit
<1>18. ASSUME NEW x \in Nat \ {NoObject}
       PROVE  BalancedNext(t, e, obj2, x)
  <2>1. /\ LinkRefs(obj, x) \in Nat /\ CallRefs(call, x) \in Nat
        /\ RefsOf(call[t], x) \in Nat
    BY RefsAdd
  <2>2. CallRefs(call, x) - RefsOf(call[t], x) + RefsOf(e, x) =
          CallRefs(call, x) + (IF x = s THEN 2 ELSE 0)
    BY <1>16, <2>1
  <2>3. InHeap(heap, x) \in Nat
    BY DEF InHeap
  <2>4. Balanced(obj, x, InHeap(heap, x) + LinkRefs(obj, x) + CallRefs(call, x))
    BY DEF RefInv, Balance, HeldBy
  <2>5. CASE x = s
    <3>1. obj[s].refs = InHeap(heap, s) + LinkRefs(obj, s) + CallRefs(call, s)
      BY <1>6, <2>4, <2>5 DEF Balanced
    <3>2. LinkRefs(obj2, s) = LinkRefs(obj, s) - 1
      BY <1>9, <1>12
    <3>3. obj2[s].refs = InHeap(heap, s) + LinkRefs(obj2, s) +
                         (CallRefs(call, s) + 2) /\ obj2[s].refs > 0
      BY <1>13, <2>1, <2>3, <2>5, <3>1, <3>2
    <3> QED
      BY <1>6, <1>13, <1>15, <2>2, <2>5, <3>3 DEF BalancedNext, Balanced
  <2>6. CASE x # s
    <3>1. LinkRefs(obj2, x) = LinkRefs(obj, x)
      BY <1>9, <1>12, <2>1, <2>6
    <3>2. CallRefs(call, x) - RefsOf(call[t], x) + RefsOf(e, x) =
            CallRefs(call, x)
      BY <2>1, <2>2, <2>6
    <3> QED
      BY <1>13, <1>15, <2>4, <2>6, <3>1, <3>2 DEF BalancedNext, Balanced
  <2> QED
    BY <2>5, <2>6
<1>19. \A p \in DOMAIN obj :
         \/ Reachable(t, p)
         \/ /\ p \in DOMAIN obj2 /\ obj2[p].refs = obj[p].refs
            /\ obj2[p].type = obj[p].type
  BY <1>6, <1>13 DEF Reachable
<1>20. TypesKept(obj, obj2, made)
  BY <1>13, SameTypesKept
<1> QED
  BY <1>1, <1>2, <1>11, <1>12, <1>13, <1>14, <1>15, <1>17, <1>18, <1>19, <1>20,
     StepTaken

-----------------------------------------------------------------------------
(***************************************************************************)
(* Objects allocated.                                                      *)
(***************************************************************************)

(* The calls c and e name the same objects.                                *)
SameNames(c, e) ==
  /\ e.op = c.op /\ e.ids = c.ids /\ e.surface = c.surface /\ e.on = c.on
  /\ e.targets = c.targets /\ e.at # "enqueue"

(* A call has allocated an object, which may take over references.         *)
LEMMA StepMakes ==
  ASSUME RefInv, NEW t \in Threads, NEW e, Goes(t, e),
         made' = made + 1, UNCHANGED <<heap, up>>, up,
         NEW obj1, Well(obj1), SameTypes(store.obj, obj1),
         \A p \in DOMAIN store.obj : obj1[p].refs = store.obj[p].refs,
         NEW x \in Object, x.refs = 1,
         \A s \in Slots :
           /\ x.links[s] # <<>> => x.type = OwnerOf(s)
           /\ \A k \in DOMAIN x.links[s] :
                /\ x.links[s][k] \in DOMAIN obj1
                /\ IsA(obj1, x.links[s][k], TargetOf(s)),
         x.type = "image" => Len(x.links["buffer"]) = 1,
         Len(x.links["render"]) <= 1,
         store' = Memory(With(obj1, made', x), store.open),
         e \in Call, CallFits(e), Known(e, made'), SameNames(call[t], e),
         e.self = made', Makes(e.at) = x.type,
         \A o \in Nat \ {NoObject} :
           RefsOf(e, o) + Count(Links(x), o) + LinkRefs(obj1, o) =
             RefsOf(call[t], o) + LinkRefs(store.obj, o) +
             (IF o = made' THEN 1 ELSE 0)
  PROVE  RefInv'
<1> DEFINE obj  == store.obj
           n    == made'
           obj2 == With(obj1, n, x)
<1>1. /\ store.open \subseteq Resources /\ made \in Nat
      /\ DOMAIN obj \subseteq 1 .. made /\ heap \subseteq 1 .. made
  BY StoreIs
<1>2. /\ n = made + 1 /\ n \in Nat \ {NoObject} /\ made <= n
      /\ n \notin DOMAIN obj
      /\ up' = up /\ heap' = heap
  BY <1>1 DEF NoObject
<1>3. /\ DOMAIN obj1 = DOMAIN obj
      /\ \A p \in DOMAIN obj : obj1[p].type = obj[p].type
  BY DEF SameTypes
<1> HIDE DEF n
<1>4. /\ Well(obj2) /\ DOMAIN obj2 = DOMAIN obj1 \cup {n} /\ obj2[n] = x
      /\ \A p \in DOMAIN obj1 : obj2[p] = obj1[p]
      /\ \A o : /\ LinkRefs(obj2, o) = LinkRefs(obj1, o) + Count(Links(x), o)
                /\ LinkRefs(obj1, o) \in Nat /\ Count(Links(x), o) \in Nat
  <2>1. n \notin DOMAIN obj1
    BY <1>2, <1>3
  <2> QED
    BY <2>1, ObjectMade
<1>5. store' = Memory(obj2, store.open)
  BY DEF n
<1> HIDE DEF obj2
<1>6. TypesKept(obj, obj2, made)
  <2> SUFFICES ASSUME NEW p \in DOMAIN obj2
               PROVE  \/ p \in DOMAIN obj /\ obj2[p].type = obj[p].type
                      \/ p > made
    BY DEF TypesKept
  <2> QED
    BY <1>1, <1>2, <1>3, <1>4
<1>7. Fit(e, n, obj2)
  <2>1. Fit(call[t], made, obj)
    BY CallsAreFit
  <2>2. Named(call[t], obj2)
    BY <1>1, <1>6, <2>1, NamedKept DEF Fit
  <2>3. Named(e, obj2)
    BY <2>2 DEF Named, SameNames
  <2>4. SelfFits(e, obj2)
    BY <1>2, <1>4 DEF SelfFits, n
  <2> QED
    BY <2>3, <2>4 DEF Fit, n
<1>8. ASSUME NEW o \in Nat \ {NoObject}
      PROVE  BalancedNext(t, e, obj2, o)
  <2>1. /\ LinkRefs(obj, o) \in Nat /\ CallRefs(call, o) \in Nat
        /\ RefsOf(call[t], o) \in Nat /\ RefsOf(e, o) \in Nat
    BY RefsAdd, OwedDue
  <2>2. InHeap(heap, o) \in Nat
    BY DEF InHeap
  <2>3. RefsOf(e, o) + Count(Links(x), o) + LinkRefs(obj1, o) =
          RefsOf(call[t], o) + LinkRefs(obj, o) + (IF o = n THEN 1 ELSE 0)
    BY DEF n
  <2>4. InHeap(heap, o) + LinkRefs(obj2, o) +
          (CallRefs(call, o) - RefsOf(call[t], o) + RefsOf(e, o)) =
        InHeap(heap, o) + LinkRefs(obj, o) + CallRefs(call, o) +
          (IF o = n THEN 1 ELSE 0)
    <3>1. /\ LinkRefs(obj2, o) = LinkRefs(obj1, o) + Count(Links(x), o)
          /\ LinkRefs(obj1, o) \in Nat /\ Count(Links(x), o) \in Nat
      BY <1>4
    <3> DEFINE one == IF o = n THEN 1 ELSE 0
               lo  == LinkRefs(obj, o)
               l1  == LinkRefs(obj1, o)
               l2  == LinkRefs(obj2, o)
               ce  == RefsOf(e, o)
               cc  == RefsOf(call[t], o)
               k   == Count(Links(x), o)
               all == CallRefs(call, o)
               h   == InHeap(heap, o)
    <3>2. /\ one \in Nat /\ lo \in Nat /\ l1 \in Nat /\ ce \in Nat
          /\ cc \in Nat
          /\ k \in Nat /\ all \in Nat /\ h \in Nat /\ l2 = l1 + k
          /\ ce + k + l1 = cc + lo + one
      BY <2>1, <2>2, <2>3, <3>1
    <3>3. h + l2 + (all - cc + ce) = h + lo + all + one
      <4> HIDE DEF one, lo, l1, l2, ce, cc, k, all, h
      <4> QED
        BY <3>2
    <3> QED
      BY <3>3
  <2>5. Balanced(obj, o, InHeap(heap, o) + LinkRefs(obj, o) + CallRefs(call, o))
    BY DEF RefInv, Balance, HeldBy
  <2>6. CASE o = n
    <3>1. InHeap(heap, o) + LinkRefs(obj, o) + CallRefs(call, o) = 0
      BY <1>2, <2>5, <2>6 DEF Balanced
    <3>2. InHeap(heap, o) + LinkRefs(obj2, o) +
            (CallRefs(call, o) - RefsOf(call[t], o) + RefsOf(e, o)) = 1
      BY <2>4, <2>6, <3>1
    <3> QED
      BY <1>2, <1>4, <2>6, <3>2 DEF BalancedNext, Balanced
  <2>7. CASE o # n
    <3>1. InHeap(heap, o) + LinkRefs(obj2, o) +
            (CallRefs(call, o) - RefsOf(call[t], o) + RefsOf(e, o)) =
          InHeap(heap, o) + LinkRefs(obj, o) + CallRefs(call, o)
      BY <2>1, <2>2, <2>4, <2>7
    <3> QED
      BY <1>2, <1>3, <1>4, <2>5, <2>7, <3>1 DEF BalancedNext, Balanced
  <2> QED
    BY <2>6, <2>7
<1>9. \A p \in DOMAIN obj :
         \/ Reachable(t, p)
         \/ /\ p \in DOMAIN obj2 /\ obj2[p].refs = obj[p].refs
            /\ obj2[p].type = obj[p].type
  BY <1>3, <1>4
<1>10. /\ DOMAIN obj2 \subseteq 1 .. n /\ heap' \subseteq 1 .. n /\ made <= n
       /\ n \in Nat
  BY <1>1, <1>2, <1>3, <1>4 DEF NoObject
<1> QED
  BY <1>1, <1>2, <1>4, <1>5, <1>6, <1>7, <1>8, <1>9, <1>10, StepTaken DEF n

(* An object without links.                                                *)
LEMMA NewIs ==
  ASSUME NEW do \in DOMAIN TypeMade
  PROVE  /\ New(do, NoLinks) \in Object /\ New(do, NoLinks).refs = 1
         /\ New(do, NoLinks).raw = {}
         /\ New(do, NoLinks).type = TypeMade[do]
         /\ \A s \in Slots : New(do, NoLinks).links[s] = <<>>
         /\ \A o : Count(Links(New(do, NoLinks)), o) = 0
<1> DEFINE x == New(do, NoLinks)
<1>1. TypeMade[do] \in Types
  BY DEF TypeMade, Types
<1>2. NoLinks \in [Slots -> Seq(Nat)] /\ \A s \in Slots : NoLinks[s] = <<>>
  BY DEF NoLinks
<1>3. x \in Object /\ x.refs = 1 /\ x.raw = {} /\ x.type = TypeMade[do]
      /\ x.links = NoLinks
  BY <1>1, <1>2 DEF New, Object
<1> HIDE DEF x
<1>4. ASSUME NEW o
      PROVE  Count(Links(x), o) = 0
  <2>1. \A s \in Slots : Count(x.links[s], o) = 0
    BY <1>2, <1>3, CountEmpty
  <2>2. /\ Count(x.links["job"], o) = 0 /\ Count(x.links["route"], o) = 0
        /\ Count(x.links["target"], o) = 0 /\ Count(x.links["render"], o) = 0
        /\ Count(x.links["surface"], o) = 0 /\ Count(x.links["buffer"], o) = 0
    BY <2>1 DEF Slots
  <2> QED
    BY <1>3, <2>2, LinksCount
<1> QED
  BY <1>2, <1>3, <1>4 DEF x

(* The call that has allocated n.                                          *)
Allocated(c, n) == [Onward(c) EXCEPT !.self = n]

Callocs == {"calloc_surface", "calloc_buffer", "calloc_context",
            "calloc_config"}

(* It goes on constructing an object of the type.                          *)
LEMMA AllocatedFits ==
  ASSUME NEW c \in Call, CallFits(c), c.at \in Callocs, NEW m \in Nat,
         Known(c, m), NEW n, n = m + 1
  PROVE  LET e == Allocated(c, n)
         IN /\ e \in Call /\ CallFits(e) /\ Known(e, n) /\ SameNames(c, e)
            /\ e.self = n /\ Makes(e.at) = TypeMade[c.at] /\ e.owed = c.owed
            /\ e.local = c.local /\ e.at = After(c) /\ e.failed = c.failed
            /\ e.at \in {"group", "dup", "data", "sync_objects", "insert_config"}
            /\ \A o : RefsOf(e, o) = RefsOf(c, o) - OnSelf(c, o) + OnSelf(e, o)
<1> DEFINE e == Allocated(c, n)
<1>1. n \in Nat /\ n # NoObject /\ n > m
  BY DEF NoObject
<1>2. /\ c.at = "calloc_surface" => After(c) \in {"group", "dup"}
      /\ c.at = "calloc_buffer" => After(c) = "data"
      /\ c.at = "calloc_context" => After(c) = "sync_objects"
      /\ c.at = "calloc_config" => After(c) = "insert_config"
  BY DEF After, Order
<1>3. c.op \in OpsAt(c.at) /\ c.held = Holds(c)
  BY DEF CallFits
<1>4. e \in Call
  <2>1. After(c) \in BuildSteps \cup OtherSteps
    BY <1>2 DEF Callocs, BuildSteps, SurfaceSteps, BufferSteps, ContextSteps
  <2> QED
    BY <1>1, <2>1 DEF Call, Onward, Allocated
<1>5. /\ e.op = c.op /\ e.at = After(c) /\ e.owed = c.owed /\ e.self = n
      /\ e.ids = c.ids /\ e.failed = c.failed /\ e.surface = c.surface
      /\ e.on = c.on /\ e.local = c.local /\ e.held = c.held
      /\ e.targets = c.targets
  BY DEF Call, Onward, Allocated
<1> HIDE DEF e
<1>6. e.op \in OpsAt(e.at) /\ e.held = Holds(e) /\ Makes(e.at) = TypeMade[c.at]
  <2>1. CASE c.at = "calloc_surface"
    BY <1>2, <1>3, <1>5, <2>1 DEF OpsAt, Holds, Makes, TypeMade, SurfaceSteps,
       BufferSteps, ContextSteps, WithBuffer
  <2>2. CASE c.at = "calloc_buffer"
    <3>1. c.op \in {"buffer", "image", "derive"} /\ c.held = OnSurface(c)
      BY <1>3, <2>2 DEF OpsAt, Holds, SurfaceSteps, BufferSteps, ContextSteps,
         WithBuffer
    <3>2. OnSurface(e) = OnSurface(c)
      BY <1>5 DEF OnSurface
    <3> QED
      BY <1>2, <1>5, <2>2, <3>1, <3>2 DEF OpsAt, Holds, Makes, TypeMade,
         SurfaceSteps, BufferSteps, ContextSteps, WithBuffer
  <2>3. CASE c.at = "calloc_context"
    BY <1>2, <1>3, <1>5, <2>3 DEF OpsAt, Holds, Makes, TypeMade, SurfaceSteps,
       BufferSteps, ContextSteps, WithBuffer
  <2>4. CASE c.at = "calloc_config"
    BY <1>2, <1>3, <1>5, <2>4 DEF OpsAt, Holds, Makes, TypeMade, SurfaceSteps,
       BufferSteps, ContextSteps, WithBuffer
  <2> QED
    BY <2>1, <2>2, <2>3, <2>4 DEF Callocs
<1>7. e.at \in {"group", "dup", "data", "sync_objects", "insert_config"}
  BY <1>2, <1>5 DEF Callocs
<1>8. CallFits(e)
  <2>1. /\ c.at \notin BuildSteps /\ c.at \notin WithBuffer /\ c.at # "idle"
        /\ e.at \in BuildSteps \ WithBuffer /\ e.at # "acquire_target"
    BY <1>7 DEF Callocs, BuildSteps, SurfaceSteps, BufferSteps, ContextSteps,
                WithBuffer
  <2> QED
    BY <1>1, <1>5, <1>6, <2>1 DEF CallFits
<1>9. Known(e, n)
  <2>1. Known(c, n)
    BY <1>1, KnownGrows
  <2> QED
    BY <1>1, <1>5, <2>1 DEF Known
<1>10. SameNames(c, e)
  BY <1>5, <1>7 DEF SameNames
<1>11. ASSUME NEW o
       PROVE  RefsOf(e, o) = RefsOf(c, o) - OnSelf(c, o) + OnSelf(e, o)
  <2>1. /\ RefsOf(e, o) =
               Count(e.held, o) + Count(Due(e.owed), o) + OnSelf(e, o)
        /\ OnSelf(e, o) \in Nat
    BY <1>4, OwedDue
  <2>2. /\ RefsOf(c, o) =
               Count(c.held, o) + Count(Due(c.owed), o) + OnSelf(c, o)
        /\ Count(c.held, o) \in Nat /\ Count(Due(c.owed), o) \in Nat
        /\ OnSelf(c, o) \in Nat
    BY OwedDue
  <2> QED
    BY <1>5, <2>1, <2>2
<1> QED
  BY <1>4, <1>5, <1>6, <1>7, <1>8, <1>9, <1>10, <1>11 DEF e

(* calloc of an object that holds nothing yet.                             *)
LEMMA CallocKeeps ==
  ASSUME RefInv, NEW t \in Threads, calloc_succeeds(t)
  PROVE  RefInv'
<1> DEFINE c   == call[t]
           do  == c.at
           x   == New(do, NoLinks)
           e   == Allocated(c, made')
           obj == store.obj
<1>1. /\ do \in Callocs /\ do \in DOMAIN TypeMade /\ At(t, do) /\ do # "idle"
  <2>1. PICK d \in DOMAIN TypeMade \ {"calloc_image"} : At(t, d)
    BY DEF calloc_succeeds
  <2>2. DOMAIN TypeMade \ {"calloc_image"} = Callocs /\ "idle" \notin Callocs
    BY DEF TypeMade, Callocs
  <2>3. d = do
    BY <2>1 DEF At
  <2> QED
    BY <2>1, <2>2, <2>3
<1>2. up
  BY <1>1, AtUp
<1>3. /\ made' = made + 1 /\ UNCHANGED <<heap, up>> /\ Goes(t, e)
      /\ store' = [store EXCEPT !.obj = With(@, made', x)]
  BY DEF calloc_succeeds, Allocated
<1>4. /\ c \in Call /\ CallFits(c) /\ Known(c, made) /\ made \in Nat
      /\ store = Memory(obj, store.open) /\ Well(obj)
  BY CallsAreFit, StoreIs, StoreWell DEF Fit
<1>5. store' = Memory(With(obj, made', x), store.open)
  <2> DEFINE y == With(obj, made', x)
  <2>1. store' = [store EXCEPT !.obj = y]
    BY <1>3
  <2> HIDE DEF y
  <2>2. store' = Memory(y, store.open)
    BY <1>4, <2>1, MemoryChanges
  <2> QED
    BY <2>2 DEF y
<1>6. /\ x \in Object /\ x.refs = 1 /\ x.type = TypeMade[do]
      /\ \A s \in Slots : x.links[s] = <<>>
      /\ \A o : Count(Links(x), o) = 0
  BY <1>1, NewIs
<1>7. /\ e \in Call /\ CallFits(e) /\ Known(e, made') /\ SameNames(c, e)
      /\ e.self = made' /\ Makes(e.at) = TypeMade[do]
      /\ \A o : RefsOf(e, o) = RefsOf(c, o) - OnSelf(c, o) + OnSelf(e, o)
  BY <1>1, <1>3, <1>4, AllocatedFits
<1>8. SameTypes(obj, obj)
  BY DEF SameTypes
<1>9. c.self = NoObject
  <2>1. do \notin BuildSteps
    BY <1>1 DEF Callocs, BuildSteps, SurfaceSteps, BufferSteps, ContextSteps
  <2> QED
    BY <1>4, <2>1 DEF CallFits
<1>10. /\ x.type = "image" => Len(x.links["buffer"]) = 1
       /\ Len(x.links["render"]) <= 1
  <2>1. x.type # "image"
    BY <1>1, <1>6 DEF Callocs, TypeMade
  <2> QED
    BY <1>6, <2>1 DEF Slots
<1> HIDE DEF x, e
<1>11. ASSUME NEW o \in Nat \ {NoObject}
       PROVE  RefsOf(e, o) + Count(Links(x), o) + LinkRefs(obj, o) =
                RefsOf(c, o) + LinkRefs(obj, o) + (IF o = made' THEN 1 ELSE 0)
  <2>1. /\ RefsOf(c, o) \in Nat /\ LinkRefs(obj, o) \in Nat
    BY RefsAdd
  <2>2. OnSelf(c, o) = 0 /\ OnSelf(e, o) = IF o = made' THEN 1 ELSE 0
    BY <1>7, <1>9 DEF OnSelf
  <2>3. RefsOf(e, o) = RefsOf(c, o) - OnSelf(c, o) + OnSelf(e, o)
        /\ Count(Links(x), o) = 0
    BY <1>6, <1>7
  <2> QED
    BY <2>1, <2>2, <2>3
<1>12. \A s \in Slots :
           /\ x.links[s] # <<>> => x.type = OwnerOf(s)
           /\ \A k \in DOMAIN x.links[s] :
                /\ x.links[s][k] \in DOMAIN obj
                /\ IsA(obj, x.links[s][k], TargetOf(s))
  BY <1>6
<1> QED
  BY <1>2, <1>3, <1>4, <1>5, <1>6, <1>7, <1>8, <1>10, <1>11, <1>12, StepMakes

(* The image of the buffer b.                                              *)
NewImage(b) == New("calloc_image", [NoLinks EXCEPT !["buffer"] = <<b>>])

(* It has the buffer and nothing else.                                     *)
LEMMA ImageIs ==
  ASSUME NEW b \in Nat
  PROVE  LET x == NewImage(b)
         IN /\ x \in Object /\ x.refs = 1 /\ x.raw = {} /\ x.type = "image"
            /\ x.links["buffer"] = <<b>>
            /\ \A s \in Slots \ {"buffer"} : x.links[s] = <<>>
            /\ \A o : Count(Links(x), o) = IF o = b THEN 1 ELSE 0
<1> DEFINE x == NewImage(b)
           l == [NoLinks EXCEPT !["buffer"] = <<b>>]
<1>1. TypeMade["calloc_image"] = "image" /\ "image" \in Types
  BY DEF TypeMade, Types
<1>2. /\ l \in [Slots -> Seq(Nat)] /\ l["buffer"] = <<b>>
      /\ \A s \in Slots \ {"buffer"} : l[s] = <<>>
  <2> DEFINE y == <<b>>
             z == <<>>
  <2>1. y \in Seq(Nat) /\ z \in Seq(Nat) /\ "buffer" \in Slots
    BY DEF Slots
  <2>2. NoLinks = [s \in Slots |-> z]
    BY DEF NoLinks
  <2>3. l = [NoLinks EXCEPT !["buffer"] = y]
    OBVIOUS
  <2> HIDE DEF y, z, l
  <2>4. /\ l \in [Slots -> Seq(Nat)] /\ l["buffer"] = y
        /\ \A s \in Slots \ {"buffer"} : l[s] = z
    BY <2>1, <2>2, <2>3
  <2> QED
    BY <2>4 DEF y, z
<1>3. x = [type |-> TypeMade["calloc_image"], refs |-> 1, raw |-> {}, links |-> l]
  BY DEF New, NewImage
<1> HIDE DEF l
<1>4. x \in Object /\ x.refs = 1 /\ x.raw = {} /\ x.type = "image"
      /\ x.links = l
  BY <1>1, <1>2, <1>3 DEF Object
<1> HIDE DEF x
<1>5. ASSUME NEW o
      PROVE  Count(Links(x), o) = IF o = b THEN 1 ELSE 0
  <2>1. \A s \in Slots \ {"buffer"} : Count(x.links[s], o) = 0
    BY <1>2, <1>4, CountEmpty
  <2>2. /\ Count(x.links["job"], o) = 0 /\ Count(x.links["route"], o) = 0
        /\ Count(x.links["target"], o) = 0 /\ Count(x.links["render"], o) = 0
        /\ Count(x.links["surface"], o) = 0
    BY <2>1 DEF Slots
  <2>3. Count(x.links["buffer"], o) = IF b = o THEN 1 ELSE 0
    <3>1. x.links["buffer"] = <<b>>
      BY <1>2, <1>4
    <3> QED
      BY <3>1, CountOne
  <2> QED
    BY <1>4, <2>2, <2>3, LinksCount
<1> QED
  BY <1>2, <1>4, <1>5 DEF x

(* The call that has allocated the image n.                                *)
ImageAllocated(c, n) == [Onward(c) EXCEPT !.self = n, !.held = <<>>]

(* It has given its references away, and inserts the image next.           *)
LEMMA ImageAllocatedFits ==
  ASSUME NEW c \in Call, CallFits(c), c.at = "calloc_image", NEW m \in Nat,
         Known(c, m), NEW n, n = m + 1
  PROVE  LET e == ImageAllocated(c, n)
         IN /\ e \in Call /\ CallFits(e) /\ Known(e, n) /\ SameNames(c, e)
            /\ e.self = n /\ Makes(e.at) = "image" /\ e.owed = c.owed
            /\ e.local = c.local /\ e.at = "insert_image"
            /\ e.failed = c.failed
            /\ \A o \in Nat \ {NoObject} :
                 RefsOf(e, o) = RefsOf(c, o) - Count(c.held, o) +
                                (IF o = n THEN 1 ELSE 0)
<1> DEFINE e == ImageAllocated(c, n)
<1>1. n \in Nat /\ n # NoObject /\ n > m
  BY DEF NoObject
<1>2. After(c) = "insert_image"
  BY DEF After, Order
<1>3. c.op \in OpsAt(c.at) /\ Len(c.ids) = 1 /\ c.self = NoObject /\ ~c.failed
  BY DEF CallFits, WithBuffer, BuildSteps, SurfaceSteps, BufferSteps,
         ContextSteps
<1>4. e \in Call
  <2>1. After(c) \in BuildSteps \cup OtherSteps /\ <<>> \in Seq(Nat)
    BY <1>2 DEF BuildSteps
  <2> QED
    BY <1>1, <2>1 DEF Call, Onward, ImageAllocated
<1>5. /\ e.op = c.op /\ e.at = "insert_image" /\ e.owed = c.owed /\ e.self = n
      /\ e.ids = c.ids /\ e.failed = c.failed /\ e.surface = c.surface
      /\ e.on = c.on /\ e.local = c.local /\ e.held = <<>>
      /\ e.targets = c.targets
  BY <1>2 DEF Call, Onward, ImageAllocated
<1> HIDE DEF e
<1>6. e.op \in OpsAt(e.at) /\ e.held = Holds(e) /\ Makes(e.at) = "image"
  <2>1. c.op \in {"image", "derive"}
    BY <1>3 DEF OpsAt, SurfaceSteps, BufferSteps, ContextSteps, WithBuffer
  <2> QED
    BY <1>5, <2>1 DEF OpsAt, Holds, Makes, SurfaceSteps, BufferSteps,
       ContextSteps, WithBuffer
<1>7. CallFits(e)
  <2>1. e.at \in BuildSteps /\ e.at \in WithBuffer /\ e.at # "acquire_target"
    BY <1>5 DEF BuildSteps, WithBuffer
  <2> QED
    BY <1>1, <1>3, <1>5, <1>6, <2>1 DEF CallFits
<1>8. Known(e, n)
  <2>1. Known(c, n)
    BY <1>1, KnownGrows
  <2> QED
    BY <1>1, <1>5, <2>1 DEF Known
<1>9. SameNames(c, e)
  BY <1>5 DEF SameNames
<1>10. ASSUME NEW o \in Nat \ {NoObject}
       PROVE  RefsOf(e, o) = RefsOf(c, o) - Count(c.held, o) +
                                (IF o = n THEN 1 ELSE 0)
  <2>1. /\ RefsOf(e, o) =
               Count(e.held, o) + Count(Due(e.owed), o) + OnSelf(e, o)
        /\ OnSelf(e, o) \in Nat
    BY <1>4, OwedDue
  <2>2. /\ RefsOf(c, o) =
               Count(c.held, o) + Count(Due(c.owed), o) + OnSelf(c, o)
        /\ Count(c.held, o) \in Nat /\ Count(Due(c.owed), o) \in Nat
    BY OwedDue
  <2>3. OnSelf(c, o) = 0 /\ OnSelf(e, o) = IF o = n THEN 1 ELSE 0
    BY <1>3, <1>5 DEF OnSelf
  <2>4. Count(e.held, o) = 0
    BY <1>5, CountEmpty
  <2> QED
    BY <1>5, <2>1, <2>2, <2>3, <2>4
<1> QED
  BY <1>4, <1>5, <1>6, <1>7, <1>8, <1>9, <1>10 DEF e

(* What vaCreateImage and vaDeriveImage hold when the image is allocated.  *)
LEMMA ImageHolds ==
  ASSUME RefInv, NEW t \in Threads, At(t, "calloc_image")
  PROVE  LET c == call[t]
             b == Buffer(c)
             derived(x) == IF c.op = "derive" /\ x = c.surface THEN 1 ELSE 0
         IN /\ b \in DOMAIN store.obj /\ b \in Nat /\ b # NoObject
            /\ store.obj[b].type = "buffer"
            /\ c.op = "derive" => /\ c.surface \in DOMAIN store.obj
                                  /\ c.surface \in Nat
                                  /\ store.obj[c.surface].type = "surface"
            /\ \A x \in Nat \ {NoObject} :
                 Count(c.held, x) = derived(x) + (IF x = b THEN 1 ELSE 0)
<1> DEFINE c == call[t]
           b == Buffer(c)
           derived(x) == IF c.op = "derive" /\ x = c.surface THEN 1 ELSE 0
<1>1. /\ c \in Call /\ CallFits(c) /\ Known(c, made) /\ Named(c, store.obj)
      /\ c.at = "calloc_image"
  BY CallsAreFit DEF Fit, At
<1>2. /\ c.held = OnSurface(c) \o <<b>> /\ c.op \in {"image", "derive"}
      /\ Len(c.ids) = 1 /\ c.ids \in Seq(Nat)
  BY <1>1 DEF CallFits, Holds, OpsAt, SurfaceSteps, BufferSteps, ContextSteps,
     WithBuffer, Call
<1>3. b = c.ids[1] /\ 1 \in DOMAIN c.ids /\ b \in Nat /\ c.surface \in Nat
      /\ c.held \in Seq(Nat)
  <2>1. b = c.ids[1] /\ c.surface \in Nat /\ c.held \in Seq(Nat)
    BY <1>1 DEF Buffer, Call
  <2> DEFINE q == c.ids
  <2>2. q \in Seq(Nat) /\ Len(q) = 1
    BY <1>2
  <2> HIDE DEF q
  <2>3. DOMAIN q = 1 .. Len(q) /\ q \in [1 .. Len(q) -> Nat]
    BY <2>2, LenProperties
  <2>4. 1 \in DOMAIN q /\ q[1] \in Nat
    BY <2>2, <2>3
  <2> QED
    BY <2>1, <2>4 DEF q
<1>4. IsA(store.obj, b, "buffer") /\ IsA(store.obj, c.surface, "surface")
  BY <1>1, <1>2, <1>3 DEF Named
<1> HIDE DEF b, c
<1>5. OnSurface(c) \in Seq(Nat) /\ \A x : Count(OnSurface(c), x) = derived(x)
  <2>1. CASE c.op = "derive"
    BY <1>3, <2>1, CountOne DEF OnSurface
  <2>2. CASE c.op # "derive"
    BY <2>2, CountEmpty DEF OnSurface
  <2> QED
    BY <2>1, <2>2
<1>6. ASSUME NEW x
      PROVE  Count(c.held, x) = derived(x) + (IF x = b THEN 1 ELSE 0)
  <2> DEFINE q == OnSurface(c)
  <2>1. q \in Seq(Nat) /\ Count(q, x) = derived(x)
    BY <1>5
  <2> HIDE DEF q
  <2>2. Count(q \o <<b>>, x) = Count(q, x) + (IF x = b THEN 1 ELSE 0)
    BY <1>3, <2>1, CountMore
  <2> QED
    BY <1>2, <2>1, <2>2 DEF q
<1>7. \A k \in DOMAIN c.held : c.held[k] # NoObject
  BY <1>1 DEF Known
<1>8. \A x : Count(c.held, x) > 0 => x # NoObject
  BY <1>3, <1>7, CountNone
<1>9. ASSUME NEW x \in Nat, Count(c.held, x) > 0
      PROVE  x \in DOMAIN store.obj
  <2>1. x # NoObject
    BY <1>8, <1>9
  <2>2. RefsOf(c, x) > 0
    BY <1>1, <1>9, OwedDue
  <2> QED
    BY <2>1, <2>2, HeldAlive DEF c
<1>10. Count(c.held, b) > 0
  BY <1>6
<1>11. c.op = "derive" => Count(c.held, c.surface) > 0
  BY <1>6
<1> QED
  BY <1>3, <1>4, <1>6, <1>8, <1>9, <1>10, <1>11 DEF IsA, b, c

(* The objects once the buffer of a derived image has the surface.         *)
Deriving(c) ==
  IF c.op # "derive" THEN store.obj
  ELSE [store.obj EXCEPT ![Buffer(c)].links["surface"] = Append(@, c.surface)]

(* Only the references of that surface change.                             *)
LEMMA DerivingIs ==
  ASSUME RefInv, NEW t \in Threads, At(t, "calloc_image")
  PROVE  LET c    == call[t]
             obj  == store.obj
             obj1 == Deriving(c)
         IN /\ Well(obj1) /\ SameTypes(obj, obj1)
            /\ \A p \in DOMAIN obj : /\ obj1[p].refs = obj[p].refs
                                     /\ obj1[p].raw = obj[p].raw
            /\ \A x : /\ LinkRefs(obj1, x) = LinkRefs(obj, x) +
                           (IF c.op = "derive" /\ x = c.surface THEN 1 ELSE 0)
                      /\ LinkRefs(obj, x) \in Nat
<1> DEFINE c == call[t]
           b == Buffer(c)
           obj == store.obj
<1>1. Well(obj)
  BY StoreWell
<1>2. CASE c.op # "derive"
  <2>1. Deriving(c) = obj
    BY <1>2 DEF Deriving
  <2>2. \A x : LinkRefs(obj, x) \in Nat
    BY <1>1, LinkFamilyFits DEF Well
  <2> QED
    BY <1>1, <1>2, <2>1, <2>2 DEF SameTypes
<1>3. CASE c.op = "derive"
  <2> DEFINE s    == c.surface
             q    == Linked(b, "surface")
             list == Append(q, s)
  <2>1. /\ b \in DOMAIN obj /\ obj[b].type = "buffer" /\ s \in DOMAIN obj
        /\ s \in Nat /\ obj[s].type = "surface"
    BY <1>3, ImageHolds
  <2>2. "surface" \in Slots /\ "surface" # "buffer" /\ "surface" # "render"
    BY DEF Slots
  <2>3. q \in Seq(Nat) /\ FitsSlot(obj, b, "surface", q)
    BY <2>1, <2>2, LinkedIs
  <2>4. Deriving(c) = Changed(b, "surface", list)
    <3>1. Deriving(c) = [obj EXCEPT ![b].links["surface"] = list]
      BY <1>3 DEF Deriving, Linked
    <3> QED
      BY <3>1 DEF Changed
  <2> HIDE DEF c, b, s, q
  <2>5. /\ list \in Seq(Nat)
        /\ \A x : /\ Count(list, x) = Count(q, x) + (IF x = s THEN 1 ELSE 0)
                  /\ Count(q, x) \in Nat
        /\ \A k \in DOMAIN list : \/ k \in DOMAIN q /\ list[k] = q[k]
                                  \/ list[k] = s
    <3>1. /\ q \o <<s>> \in Seq(Nat) /\ Append(q, s) = q \o <<s>>
          /\ \A x : /\ Count(q \o <<s>>, x) =
                         Count(q, x) + (IF x = s THEN 1 ELSE 0)
                    /\ Count(q, x) \in Nat
          /\ \A k \in DOMAIN (q \o <<s>>) :
               \/ k \in DOMAIN q /\ (q \o <<s>>)[k] = q[k]
               \/ (q \o <<s>>)[k] = s
      BY <2>1, <2>3, CountMore
    <3>2. list = q \o <<s>>
      BY <3>1
    <3> HIDE DEF list
    <3> QED
      BY <3>1, <3>2
  <2> HIDE DEF list
  <2>6. FitsSlot(obj, b, "surface", list)
    <3>1. OwnerOf("surface") = "buffer" /\ TargetOf("surface") = "surface"
      BY DEF OwnerOf, TargetOf
    <3>2. \A k \in DOMAIN q : q[k] \in DOMAIN obj
                              /\ IsA(obj, q[k], TargetOf("surface"))
      BY <2>3 DEF FitsSlot
    <3>3. \A k \in DOMAIN list : list[k] \in DOMAIN obj
                                 /\ IsA(obj, list[k], TargetOf("surface"))
      BY <2>1, <2>5, <3>1, <3>2 DEF IsA
    <3> QED
      BY <2>1, <2>2, <2>5, <3>1, <3>3 DEF FitsSlot
  <2> DEFINE obj2 == Changed(b, "surface", list)
  <2>7. /\ Well(obj2) /\ SameTypes(obj, obj2)
        /\ \A p \in DOMAIN obj : /\ obj2[p].refs = obj[p].refs
                                 /\ obj2[p].raw = obj[p].raw
        /\ \A x : /\ LinkRefs(obj2, x) = LinkRefs(obj, x) -
                       Count(Linked(b, "surface"), x) + Count(list, x)
                  /\ LinkRefs(obj, x) \in Nat
    BY <2>1, <2>2, <2>6, RelinkedIs
  <2> HIDE DEF obj2
  <2>8. ASSUME NEW x
        PROVE  LinkRefs(obj2, x) = LinkRefs(obj, x) + (IF x = s THEN 1 ELSE 0)
    <3>1. /\ LinkRefs(obj2, x) =
                 LinkRefs(obj, x) - Count(q, x) + Count(list, x)
          /\ LinkRefs(obj, x) \in Nat
      BY <2>7 DEF q
    <3>2. /\ Count(list, x) = Count(q, x) + (IF x = s THEN 1 ELSE 0)
          /\ Count(q, x) \in Nat
      BY <2>5
    <3> QED
      BY <3>1, <3>2
  <2>9. obj2 = Deriving(c)
    BY <2>4 DEF obj2
  <2> QED
    BY <1>3, <2>7, <2>8, <2>9 DEF s, c
<1> QED
  BY <1>2, <1>3

(* vaCreateImage and vaDeriveImage have the image.                         *)
LEMMA CallocImageKeeps ==
  ASSUME RefInv, NEW t \in Threads, calloc_image_succeeds(t)
  PROVE  RefInv'
<1> DEFINE c    == call[t]
           b    == Buffer(c)
           x    == NewImage(b)
           e    == ImageAllocated(c, made')
           obj  == store.obj
           obj1 == Deriving(c)
           d(o) == IF c.op = "derive" /\ o = c.surface THEN 1 ELSE 0
<1>1. At(t, "calloc_image") /\ c.at = "calloc_image"
  BY DEF calloc_image_succeeds, At
<1>2. up
  BY <1>1, AtUp
<1>3. /\ made' = made + 1 /\ UNCHANGED <<heap, up>> /\ Goes(t, e)
      /\ store' = [store EXCEPT !.obj = With(obj1, made', x)]
  BY DEF calloc_image_succeeds, ImageAllocated, NewImage, Deriving
<1>4. /\ c \in Call /\ CallFits(c) /\ Known(c, made) /\ made \in Nat
      /\ store = Memory(obj, store.open)
  BY CallsAreFit, StoreIs DEF Fit
<1>5. store' = Memory(With(obj1, made', x), store.open)
  <2> DEFINE y == With(obj1, made', x)
  <2>1. store' = [store EXCEPT !.obj = y]
    BY <1>3
  <2> HIDE DEF y
  <2>2. store' = Memory(y, store.open)
    BY <1>4, <2>1, MemoryChanges
  <2> QED
    BY <2>2 DEF y
<1>6. /\ b \in DOMAIN obj /\ b \in Nat /\ b # NoObject
      /\ obj[b].type = "buffer"
      /\ \A o \in Nat \ {NoObject} :
           Count(c.held, o) = d(o) + (IF o = b THEN 1 ELSE 0)
  BY <1>1, ImageHolds
<1>7. /\ Well(obj1) /\ SameTypes(obj, obj1)
      /\ \A p \in DOMAIN obj : obj1[p].refs = obj[p].refs
      /\ \A o : /\ LinkRefs(obj1, o) = LinkRefs(obj, o) + d(o)
                /\ LinkRefs(obj, o) \in Nat
  BY <1>1, DerivingIs
<1>8. /\ e \in Call /\ CallFits(e) /\ Known(e, made') /\ SameNames(c, e)
      /\ e.self = made' /\ Makes(e.at) = "image"
      /\ \A o \in Nat \ {NoObject} :
           RefsOf(e, o) = RefsOf(c, o) - Count(c.held, o) +
                          (IF o = made' THEN 1 ELSE 0)
  BY <1>1, <1>3, <1>4, ImageAllocatedFits
<1>9. /\ x \in Object /\ x.refs = 1 /\ x.type = "image"
      /\ x.links["buffer"] = <<b>>
      /\ \A s \in Slots \ {"buffer"} : x.links[s] = <<>>
      /\ \A o : Count(Links(x), o) = IF o = b THEN 1 ELSE 0
  BY <1>6, ImageIs
<1> HIDE DEF x, e, obj1, b
<1>10. ASSUME NEW o \in Nat \ {NoObject}
       PROVE  RefsOf(e, o) + Count(Links(x), o) + LinkRefs(obj1, o) =
                RefsOf(c, o) + LinkRefs(obj, o) + (IF o = made' THEN 1 ELSE 0)
  <2>1. /\ RefsOf(c, o) \in Nat /\ LinkRefs(obj, o) \in Nat
    BY RefsAdd
  <2>2. RefsOf(e, o) = RefsOf(c, o) - Count(c.held, o) +
                          (IF o = made' THEN 1 ELSE 0)
    BY <1>8
  <2>3. /\ Count(Links(x), o) = IF o = b THEN 1 ELSE 0
        /\ LinkRefs(obj1, o) = LinkRefs(obj, o) + d(o)
        /\ Count(c.held, o) = d(o) + (IF o = b THEN 1 ELSE 0)
    BY <1>6, <1>7, <1>9
  <2>4. d(o) \in Nat
    OBVIOUS
  <2> HIDE DEF d
  <2> QED
    BY <2>1, <2>2, <2>3, <2>4
<1>11. /\ x.type = "image" => Len(x.links["buffer"]) = 1
       /\ Len(x.links["render"]) <= 1
  BY <1>9 DEF Slots
<1>12. ASSUME NEW s \in Slots
       PROVE  /\ x.links[s] # <<>> => x.type = OwnerOf(s)
              /\ \A k \in DOMAIN x.links[s] :
                   /\ x.links[s][k] \in DOMAIN obj1
                   /\ IsA(obj1, x.links[s][k], TargetOf(s))
  <2>1. CASE s = "buffer"
    <3>1. b \in DOMAIN obj1 /\ obj1[b].type = "buffer"
      BY <1>6, <1>7 DEF SameTypes
    <3>2. OwnerOf(s) = "image" /\ TargetOf(s) = "buffer"
      BY <2>1 DEF OwnerOf, TargetOf
    <3> QED
      BY <1>9, <2>1, <3>1, <3>2 DEF IsA
  <2>2. CASE s # "buffer"
    BY <1>9, <2>2
  <2> QED
    BY <2>1, <2>2
<1> QED
  BY <1>2, <1>3, <1>5, <1>7, <1>8, <1>9, <1>10, <1>11, <1>12, StepMakes

-----------------------------------------------------------------------------
(***************************************************************************)
(* The worker.                                                             *)
(***************************************************************************)

(* q has one occurrence of s more than list.                               *)
Loses(q, s, list) ==
  /\ list \in Seq(Nat)
  /\ \A x : /\ Count(q, x) = Count(list, x) + (IF x = s THEN 1 ELSE 0)
            /\ Count(list, x) \in Nat
  /\ \A j \in DOMAIN list : \E i \in DOMAIN q : list[j] = q[i]

(* A list around one of its elements.                                      *)
LEMMA CountRemoved ==
  ASSUME NEW q \in Seq(Nat), NEW k \in DOMAIN q
  PROVE  Loses(q, q[k], RemoveAt(q, k))
<1> DEFINE a    == SubSeq(q, 1, k - 1)
           b    == SubSeq(q, k + 1, Len(q))
           c    == SubSeq(q, k, Len(q))
           list == a \o b
<1>1. /\ DOMAIN q = 1 .. Len(q) /\ Len(q) \in Nat /\ q[k] \in Nat
      /\ \A i \in 1 .. Len(q) : q[i] \in Nat
  BY LenProperties
<1>2. /\ k \in 1 .. Len(q) /\ k \in Int /\ k - 1 \in (1 - 1) .. Len(q)
      /\ Len(q) \in k .. Len(q) /\ Len(q) \in (k - 1) .. Len(q)
      /\ 1 \in 1 .. Len(q) + 1
  BY <1>1
<1>3. a \in Seq(Nat) /\ b \in Seq(Nat) /\ c \in Seq(Nat)
  <2>1. \A i \in 1 .. (k - 1) : q[i] \in Nat
    BY <1>1, <1>2
  <2>2. \A i \in (k + 1) .. Len(q) : q[i] \in Nat
    BY <1>1, <1>2
  <2>3. \A i \in k .. Len(q) : q[i] \in Nat
    BY <1>1, <1>2
  <2>4. k - 1 \in Int /\ k + 1 \in Int /\ Len(q) \in Int /\ 1 \in Int
    BY <1>1, <1>2
  <2> QED
    BY <1>2, <2>1, <2>2, <2>3, <2>4, SubSeqProperties
<1>4. c = <<q[k]>> \o b
  BY <1>2, SubSeqRecursiveFirst
<1>5. a \o c = q
  <2>1. SubSeq(q, 1, k - 1) \o SubSeq(q, (k - 1) + 1, Len(q)) =
          SubSeq(q, 1, Len(q))
    BY <1>2, ConcatAdjacentSubSeq
  <2>2. (k - 1) + 1 = k
    BY <1>2
  <2> QED
    BY <2>1, <2>2, SubSeqFull
<1>6. RemoveAt(q, k) = list
  BY DEF RemoveAt
<1> HIDE DEF a, b, c
<1>7. list \in Seq(Nat)
  BY <1>3, ConcatProperties
<1>8. ASSUME NEW x
      PROVE  /\ Count(q, x) = Count(list, x) + (IF x = q[k] THEN 1 ELSE 0)
             /\ Count(list, x) \in Nat
  <2>1. Count(list, x) = Count(a, x) + Count(b, x)
    BY <1>3, CountConcat
  <2>2. Count(q, x) = Count(a, x) + Count(c, x)
    BY <1>3, <1>5, CountConcat
  <2>3. Count(c, x) = Count(<<q[k]>>, x) + Count(b, x)
    <3>1. <<q[k]>> \in Seq(Nat)
      BY <1>1
    <3> QED
      BY <1>3, <1>4, <3>1, CountConcat
  <2>4. Count(<<q[k]>>, x) = IF q[k] = x THEN 1 ELSE 0
    BY CountOne
  <2>5. Count(a, x) \in Nat /\ Count(b, x) \in Nat
    BY <1>3, CountNone
  <2> HIDE DEF list
  <2> QED
    BY <2>1, <2>2, <2>3, <2>4, <2>5
<1> HIDE DEF list
<1>9. ASSUME NEW j \in DOMAIN list
      PROVE  \E i \in DOMAIN q : list[j] = q[i]
  <2> DEFINE x == list[j]
  <2>1. Count(list, x) # 0 /\ Count(list, x) \in Nat
    BY <1>7, CountNone
  <2> HIDE DEF x
  <2>2. Count(q, x) # 0
    BY <1>8, <2>1
  <2> QED
    BY <2>2, CountNone DEF x
<1> QED
  BY <1>6, <1>7, <1>8, <1>9 DEF Loses

(* A list without its first element.                                       *)
LEMMA CountTail ==
  ASSUME NEW q \in Seq(Nat), q # <<>>
  PROVE  /\ Loses(q, Head(q), Tail(q))
         /\ 1 \in DOMAIN q /\ Head(q) = q[1]
<1>1. /\ DOMAIN q = 1 .. Len(q) /\ Len(q) \in Nat /\ Len(q) # 0
      /\ \A i \in 1 .. Len(q) : q[i] \in Nat
  BY LenProperties, EmptySeq
<1>2. 1 \in DOMAIN q /\ Head(q) = q[1]
  BY <1>1
<1>3. Loses(q, q[1], RemoveAt(q, 1))
  BY <1>2, CountRemoved
<1>4. RemoveAt(q, 1) = Tail(q)
  <2>1. RemoveAt(q, 1) = SubSeq(q, 1, 1 - 1) \o SubSeq(q, 1 + 1, Len(q))
    BY DEF RemoveAt
  <2>2. SubSeq(q, 1, 1 - 1) = <<>>
    BY SubSeqEmpty
  <2>3. SubSeq(q, 2, Len(q)) = Tail(q) /\ Tail(q) \in Seq(Nat)
    BY TailIsSubSeq, HeadTailProperties
  <2>4. 1 + 1 = 2
    OBVIOUS
  <2> QED
    BY <2>1, <2>2, <2>3, <2>4, ConcatEmptySeq
<1> QED
  BY <1>2, <1>3, <1>4

(* What a step has to show that leaves the calls alone.                    *)
LEMMA WorkTaken ==
  ASSUME RefInv, UNCHANGED <<heap, call, made, up>>,
         NEW obj2, NEW open2, store' = Memory(obj2, open2), Well(obj2),
         open2 \subseteq Resources, DOMAIN obj2 \subseteq DOMAIN store.obj,
         \A p \in DOMAIN obj2 : obj2[p].type = store.obj[p].type,
         \A p \in DOMAIN store.obj :
           \/ LinkRefs(store.obj, p) > 0
           \/ p \in DOMAIN obj2 /\ obj2[p].refs = store.obj[p].refs,
         \A o \in Nat \ {NoObject} :
           Balanced(obj2, o, InHeap(heap, o) + LinkRefs(obj2, o) +
                             CallRefs(call, o))
  PROVE  RefInv'
<1>1. /\ made \in Nat /\ heap \subseteq 1 .. made /\ up \in BOOLEAN
      /\ DOMAIN store.obj \subseteq 1 .. made
  BY StoreIs
<1>2. /\ heap' = heap /\ call' = call /\ made' = made /\ up' = up
  OBVIOUS
<1>3. ObjectsFitNext /\ LinksFit' /\ store'.obj = obj2
  <2>1. /\ made' \in Nat /\ made <= made' /\ DOMAIN obj2 \subseteq 1 .. made'
        /\ heap' \subseteq 1 .. made' /\ up' \in BOOLEAN
    BY <1>1, <1>2
  <2> QED
    BY <1>1, <2>1, StoreNext
<1>4. TypeInv'
  <2>1. CallsFit'
    BY <1>2 DEF RefInv, TypeInv, CallsFit
  <2>2. call = [t \in Threads |-> call[t]]
    BY DEF RefInv, TypeInv, ObjectsFit
  <2>3. ObjectsFit'
    BY <1>2, <1>3, <2>2 DEF ObjectsFitNext, ObjectsFit
  <2> QED
    BY <2>1, <2>3 DEF TypeInv
<1>5. NamesFit'
  <2> SUFFICES ASSUME NEW u \in Threads
               PROVE  Named(call[u], obj2) /\ SelfFits(call[u], obj2)
    BY <1>2, <1>3 DEF NamesFit, Named, SelfFits, IsA
  <2>1. Fit(call[u], made, store.obj)
    BY CallsAreFit
  <2>2. TypesKept(store.obj, obj2, made)
    BY DEF TypesKept
  <2>3. Named(call[u], obj2)
    BY <1>1, <2>1, <2>2, NamedKept DEF Fit
  <2>4. SelfFits(call[u], obj2)
    <3> SUFFICES ASSUME call[u].self # NoObject
                 PROVE  /\ call[u].self \in DOMAIN obj2
                        /\ obj2[call[u].self].refs = 1
                        /\ obj2[call[u].self].type = Makes(call[u].at)
      BY DEF SelfFits
    <3>1. /\ call[u].self \in DOMAIN store.obj
          /\ store.obj[call[u].self].refs = 1
          /\ LinkRefs(store.obj, call[u].self) = 0
      BY SelfAlone
    <3>2. store.obj[call[u].self].type = Makes(call[u].at)
      BY <2>1 DEF Fit, SelfFits
    <3> QED
      BY <3>1, <3>2
  <2> QED
    BY <2>3, <2>4
<1>6. DownFits'
  BY <1>2 DEF RefInv, DownFits
<1>7. Balance'
  <2>1. store'.sane
    BY <1>3 DEF ObjectsFitNext
  <2>2. \A o \in Nat \ {NoObject} :
          Balanced(store'.obj, o, HeldBy(heap', store'.obj, call', o))
    BY <1>2, <1>3 DEF HeldBy
  <2> QED
    BY <2>1, <2>2 DEF Balance, Balanced, HeldBy, InHeap, LinkRefs, CallRefs,
       LinkFamily, CallFamily
<1> QED
  BY <1>3, <1>4, <1>5, <1>6, <1>7 DEF RefInv

(* A step of a worker that gives back a reference on the surface s, or     *)
(* none when s is NoObject.                                                *)
Worked(obj2, open2, s) ==
  LET obj == store.obj
  IN /\ store' = Memory(obj2, open2) /\ Well(obj2)
     /\ DOMAIN obj2 \subseteq DOMAIN obj
     /\ \A p \in DOMAIN obj2 : /\ obj2[p].type = obj[p].type
                               /\ obj2[p].raw = obj[p].raw
     /\ \A p \in DOMAIN obj :
          \/ LinkRefs(obj, p) > 0
          \/ p \in DOMAIN obj2 /\ obj2[p].refs = obj[p].refs
     /\ \A o \in Nat \ {NoObject} :
          Balanced(obj2, o, InHeap(heap, o) + LinkRefs(obj2, o) +
                            CallRefs(call, o))
     /\ \/ open2 = store.open /\ DOMAIN obj2 = DOMAIN obj
        \/ /\ open2 = store.open \ obj[s].raw
           /\ s \in DOMAIN obj /\ DOMAIN obj2 = DOMAIN obj \ {s}
           /\ LinkRefs(obj, s) > 0

(* A store with one reference less, which is not the last one.             *)
LEMMA MemoryUnrefs ==
  ASSUME NEW m, m = Memory(m.obj, m.open), Well(m.obj), NEW o \in DOMAIN m.obj,
         m.obj[o].refs > 1
  PROVE  LET obj2 == [m.obj EXCEPT ![o].refs = m.obj[o].refs - 1]
         IN /\ Unref(m, o) = Memory(obj2, m.open)
            /\ SameLinks(m.obj, obj2) /\ obj2[o].refs = m.obj[o].refs - 1
            /\ \A p \in DOMAIN m.obj : /\ p # o => obj2[p].refs = m.obj[p].refs
                                       /\ obj2[p].raw = m.obj[p].raw
<1> DEFINE r == m.obj[o].refs - 1
<1>1. r \in Nat
  <2>1. m.obj[o].refs \in Nat
    BY DEF Well, Objects, Object
  <2> QED
    BY <2>1
<1>2. Unref(m, o) = [m EXCEPT !.obj[o].refs = r]
  BY DEF Unref, Alive
<1> HIDE DEF r
<1>3. Unref(m, o) = Memory([m.obj EXCEPT ![o].refs = r], m.open)
  BY <1>2, MemoryChanges
<1>4. LET obj2 == [m.obj EXCEPT ![o].refs = r]
      IN /\ SameLinks(m.obj, obj2) /\ obj2[o].refs = r
         /\ \A p \in DOMAIN m.obj : /\ p # o => obj2[p].refs = m.obj[p].refs
                                    /\ obj2[p].raw = m.obj[p].raw
  BY <1>1, RefsSet
<1> QED
  BY <1>3, <1>4 DEF r

(* The links of a surface.                                                 *)
LEMMA SurfaceLinks ==
  ASSUME NEW obj, Well(obj), NEW s \in DOMAIN obj, obj[s].type = "surface"
  PROVE  \A x : Count(Links(obj[s]), x) = 0
<1> SUFFICES ASSUME NEW x
             PROVE  Count(Links(obj[s]), x) = 0
  OBVIOUS
<1>1. \A slot \in Slots : OwnerOf(slot) # "surface"
  BY DEF OwnerOf
<1>2. \A slot \in Slots : obj[s].links[slot] = <<>>
  BY <1>1 DEF Well, LinksOk
<1>3. \A slot \in Slots : Count(obj[s].links[slot], x) = 0
  BY <1>2, CountEmpty
<1>4. /\ Count(obj[s].links["job"], x) = 0
      /\ Count(obj[s].links["route"], x) = 0
      /\ Count(obj[s].links["target"], x) = 0
      /\ Count(obj[s].links["render"], x) = 0
      /\ Count(obj[s].links["surface"], x) = 0
      /\ Count(obj[s].links["buffer"], x) = 0
  BY <1>3 DEF Slots
<1>5. obj[s] \in Object
  BY DEF Well, Objects
<1> QED
  BY <1>4, <1>5, LinksCount

(* A job or a route ends.                                                  *)
LEMMA WorkDrops ==
  ASSUME SafeInv, NEW c \in DOMAIN store.obj, NEW slot \in {"job", "route"},
         NEW k \in DOMAIN Linked(c, slot), NEW list,
         Loses(Linked(c, slot), Linked(c, slot)[k], list),
         store' = Unref(Relinked(c, slot, list), Linked(c, slot)[k])
  PROVE  \E obj2, open2 : Worked(obj2, open2, Linked(c, slot)[k])
<1> DEFINE obj  == store.obj
           q    == Linked(c, slot)
           s    == q[k]
           m    == Relinked(c, slot, list)
           obj1 == Changed(c, slot, list)
<1>0. RefInv
  BY DEF SafeInv
<1>1. slot \in Slots /\ slot # "buffer" /\ slot # "render"
      /\ TargetOf(slot) = "surface"
  BY DEF Slots, TargetOf
<1>2. /\ q \in Seq(Nat) /\ FitsSlot(obj, c, slot, q) /\ s \in DOMAIN obj
      /\ s # NoObject /\ s \in Nat /\ LinkRefs(obj, s) > 0
      /\ obj[s].type = "surface"
  BY <1>0, <1>1, LinkedIs
<1>3. FitsSlot(obj, c, slot, list)
  <2>1. q # <<>> /\ obj[c].type = OwnerOf(slot)
    BY <1>2 DEF FitsSlot
  <2>2. \A j \in DOMAIN q : q[j] \in DOMAIN obj /\ IsA(obj, q[j], TargetOf(slot))
    BY <1>2 DEF FitsSlot
  <2>3. \A j \in DOMAIN list : \E i \in DOMAIN q : list[j] = q[i]
    BY DEF Loses
  <2>4. \A j \in DOMAIN list : list[j] \in DOMAIN obj
                               /\ IsA(obj, list[j], TargetOf(slot))
    BY <2>2, <2>3
  <2>5. list \in Seq(Nat)
    BY DEF Loses
  <2> QED
    BY <1>1, <2>1, <2>4, <2>5 DEF FitsSlot
<1>4. /\ m = Memory(obj1, store.open)
      /\ Well(obj1) /\ SameTypes(obj, obj1) /\ DOMAIN obj1 = DOMAIN obj
      /\ \A p \in DOMAIN obj : /\ obj1[p].refs = obj[p].refs
                               /\ obj1[p].raw = obj[p].raw
      /\ \A x : /\ LinkRefs(obj1, x) = LinkRefs(obj, x) -
                     Count(q, x) + Count(list, x)
                /\ LinkRefs(obj, x) \in Nat
  BY <1>0, <1>1, <1>3, RelinkedIs
<1> HIDE DEF obj1
<1>5. ASSUME NEW x
      PROVE  /\ LinkRefs(obj1, x) = LinkRefs(obj, x) - (IF x = s THEN 1 ELSE 0)
             /\ LinkRefs(obj, x) \in Nat
  <2>1. /\ LinkRefs(obj1, x) = LinkRefs(obj, x) - Count(q, x) + Count(list, x)
        /\ LinkRefs(obj, x) \in Nat
    BY <1>4
  <2>2. /\ Count(q, x) = Count(list, x) + (IF x = s THEN 1 ELSE 0)
        /\ Count(list, x) \in Nat
    BY DEF Loses
  <2> HIDE DEF q
  <2> QED
    BY <2>1, <2>2
<1>6. m.obj = obj1 /\ m.open = store.open /\ m = Memory(m.obj, m.open)
      /\ store' = Unref(m, s)
  BY <1>4 DEF Memory
<1> HIDE DEF m, s, q
<1>7. /\ obj1[s] \in Object /\ obj1[s].refs = obj[s].refs
      /\ obj[s].refs \in Nat
      /\ s \in DOMAIN obj1 /\ \A p \in DOMAIN obj : obj1[p].type = obj[p].type
  BY <1>2, <1>4 DEF Well, Objects, Object, SameTypes
<1>8. ASSUME NEW x \in Nat \ {NoObject}
      PROVE  /\ CallRefs(call, x) \in Nat /\ InHeap(heap, x) \in Nat
             /\ Balanced(obj, x, InHeap(heap, x) + LinkRefs(obj, x) +
                                 CallRefs(call, x))
  <2>1. Calls(call)
    BY <1>0, ObjectsStand DEF RefInv
  <2> QED
    BY <1>0, <2>1, CallFamilyFits DEF RefInv, Balance, HeldBy, InHeap
<1>9. obj[s].refs = InHeap(heap, s) + LinkRefs(obj, s) + CallRefs(call, s)
  BY <1>2, <1>8 DEF Balanced
<1>10. CASE obj[s].refs > 1
  <2> DEFINE obj2 == [m.obj EXCEPT ![s].refs = m.obj[s].refs - 1]
  <2>1. /\ store' = Memory(obj2, store.open)
        /\ SameLinks(obj1, obj2) /\ obj2[s].refs = obj[s].refs - 1
        /\ \A p \in DOMAIN obj : /\ p # s => obj2[p].refs = obj[p].refs
                                 /\ obj2[p].raw = obj[p].raw
    <3>1. m.obj[s].refs > 1 /\ s \in DOMAIN m.obj /\ Well(m.obj)
      BY <1>4, <1>6, <1>7, <1>10
    <3>2. /\ Unref(m, s) = Memory(obj2, m.open)
          /\ SameLinks(m.obj, obj2) /\ obj2[s].refs = m.obj[s].refs - 1
          /\ \A p \in DOMAIN m.obj : /\ p # s => obj2[p].refs = m.obj[p].refs
                                     /\ obj2[p].raw = m.obj[p].raw
      BY <1>6, <3>1, MemoryUnrefs
    <3> HIDE DEF obj2
    <3> QED
      BY <1>4, <1>6, <1>7, <3>2
  <2> HIDE DEF obj2
  <2>2. /\ Well(obj2) /\ SameTypes(obj1, obj2)
        /\ \A x : LinkRefs(obj2, x) = LinkRefs(obj1, x)
    BY <1>4, <2>1, LinksKept DEF SameLinks
  <2>3. /\ DOMAIN obj2 = DOMAIN obj
        /\ \A p \in DOMAIN obj2 : obj2[p].type = obj[p].type
    BY <1>4, <1>7, <2>2 DEF SameTypes
  <2>4. ASSUME NEW x \in Nat \ {NoObject}
        PROVE  Balanced(obj2, x, InHeap(heap, x) + LinkRefs(obj2, x) +
                                 CallRefs(call, x))
    <3>1. LinkRefs(obj2, x) = LinkRefs(obj, x) - (IF x = s THEN 1 ELSE 0)
          /\ LinkRefs(obj, x) \in Nat
      BY <1>5, <2>2
    <3>2. CASE x = s
      <4>1. InHeap(heap, s) + LinkRefs(obj2, s) + CallRefs(call, s) =
              obj[s].refs - 1
        BY <1>8, <1>9, <3>1, <3>2
      <4> QED
        BY <1>2, <1>7, <1>10, <2>1, <2>3, <3>2, <4>1 DEF Balanced
    <3>3. CASE x # s
      <4>1. LinkRefs(obj2, x) = LinkRefs(obj, x)
        BY <3>1, <3>3
      <4> QED
        BY <1>8, <2>1, <2>3, <3>3, <4>1 DEF Balanced
    <3> QED
      BY <3>2, <3>3
  <2>5. Worked(obj2, store.open, s)
    BY <1>2, <2>1, <2>2, <2>3, <2>4 DEF Worked
  <2> QED
    BY <2>5 DEF s, q
<1>11. CASE ~(obj[s].refs > 1)
  <2> DEFINE obj2  == [p \in DOMAIN obj1 \ {s} |-> obj1[p]]
             open2 == store.open \ obj[s].raw
  <2>1. /\ InHeap(heap, s) = 0 /\ LinkRefs(obj, s) = 1 /\ CallRefs(call, s) = 0
    <3>1. /\ CallRefs(call, s) \in Nat /\ InHeap(heap, s) \in Nat
          /\ LinkRefs(obj, s) \in Nat /\ LinkRefs(obj, s) > 0
          /\ obj[s].refs \in Nat /\ obj[s].refs <= 1
      BY <1>2, <1>5, <1>7, <1>8, <1>11
    <3> QED
      BY <1>9, <3>1
  <2>2. LinkRefs(obj1, s) = 0
    BY <1>5, <2>1
  <2>3. store' = Memory(obj2, open2)
    <3>1. store' = Destroy(m, s)
      BY <1>6, <1>7, <1>11 DEF Unref, Alive
    <3>2. m.obj[s].raw = obj[s].raw /\ m.obj[s].raw \subseteq m.open
      BY <1>2, <1>4, <1>6 DEF SafeInv, RawFits
    <3> QED
      BY <1>6, <3>1, <3>2, MemoryLoses
  <2>4. /\ Well(obj2)
        /\ \A x : LinkRefs(obj2, x) = LinkRefs(obj1, x) - Count(Links(obj1[s]), x)
    BY <1>4, <1>7, <2>2, ObjectGone
  <2>5. \A x : Count(Links(obj1[s]), x) = 0
    BY <1>2, <1>4, <1>7, SurfaceLinks
  <2>6. /\ DOMAIN obj2 = DOMAIN obj \ {s}
        /\ \A p \in DOMAIN obj2 : obj2[p] = obj1[p]
    BY <1>4
  <2> HIDE DEF obj2, open2
  <2>7. ASSUME NEW x \in Nat \ {NoObject}
        PROVE  Balanced(obj2, x, InHeap(heap, x) + LinkRefs(obj2, x) +
                                 CallRefs(call, x))
    <3>1. LinkRefs(obj2, x) = LinkRefs(obj, x) - (IF x = s THEN 1 ELSE 0)
          /\ LinkRefs(obj, x) \in Nat
      BY <1>5, <2>4, <2>5
    <3>2. CASE x = s
      BY <2>1, <2>6, <3>1, <3>2 DEF Balanced
    <3>3. CASE x # s
      <4>1. LinkRefs(obj2, x) = LinkRefs(obj, x)
        BY <3>1, <3>3
      <4> QED
        BY <1>4, <1>8, <2>6, <3>3, <4>1 DEF Balanced
    <3> QED
      BY <3>2, <3>3
  <2>8. Worked(obj2, open2, s)
    <3>1. \A p \in DOMAIN obj : \/ LinkRefs(obj, p) > 0
                                \/ p \in DOMAIN obj2 /\ obj2[p].refs = obj[p].refs
      BY <1>2, <1>4, <2>6
    <3>2. \A p \in DOMAIN obj2 : /\ obj2[p].type = obj[p].type
                                 /\ obj2[p].raw = obj[p].raw
      BY <1>4, <1>7, <2>6
    <3>3. s \in DOMAIN obj \ DOMAIN obj2
      BY <1>2, <2>6
    <3> QED
      BY <1>2, <2>3, <2>4, <2>6, <2>7, <3>1, <3>2, <3>3 DEF Worked, open2
  <2> QED
    BY <2>8 DEF s, q
<1> QED
  BY <1>10, <1>11

Routed(c, s) ==
  [Relinked(c, "job", Tail(Linked(c, "job"))) EXCEPT
     !.obj[c].links["route"] = Append(@, s)]

(* A job becomes a route.                                                  *)
LEMMA WorkMoves ==
  ASSUME SafeInv, NEW c \in DOMAIN store.obj, Linked(c, "job") # <<>>,
         NEW s, s = Head(Linked(c, "job")),
         store' = Unref(Ref(Routed(c, s), s), s)
  PROVE  \E obj2, open2 : Worked(obj2, open2, s)
<1> DEFINE obj  == store.obj
           q    == Linked(c, "job")
           list == Tail(q)
           m1   == Relinked(c, "job", list)
           obj1 == Changed(c, "job", list)
<1>0. RefInv
  BY DEF SafeInv
<1>1. "job" \in Slots /\ "route" \in Slots /\ TargetOf("job") = "surface"
      /\ TargetOf("route") = "surface" /\ OwnerOf("route") = OwnerOf("job")
  BY DEF Slots, TargetOf, OwnerOf
<1>2. q \in Seq(Nat) /\ FitsSlot(obj, c, "job", q)
  BY <1>0, <1>1, LinkedIs
<1>3. /\ Loses(q, s, list) /\ 1 \in DOMAIN q /\ s = q[1]
  BY <1>2, CountTail
<1>4. /\ s \in DOMAIN obj /\ s # NoObject /\ s \in Nat /\ LinkRefs(obj, s) > 0
      /\ obj[s].type = "surface" /\ obj[c].type = OwnerOf("job")
  BY <1>0, <1>1, <1>2, <1>3, LinkedIs DEF FitsSlot
<1> HIDE DEF list
<1>5. FitsSlot(obj, c, "job", list)
  <2>2. \A j \in DOMAIN q : q[j] \in DOMAIN obj /\ IsA(obj, q[j], TargetOf("job"))
    BY <1>2 DEF FitsSlot
  <2>3. \A j \in DOMAIN list : \E i \in DOMAIN q : list[j] = q[i]
    BY <1>3 DEF Loses
  <2>4. \A j \in DOMAIN list : list[j] \in DOMAIN obj
                               /\ IsA(obj, list[j], TargetOf("job"))
    BY <2>2, <2>3
  <2>5. list \in Seq(Nat)
    BY <1>3 DEF Loses
  <2> QED
    BY <1>4, <2>4, <2>5 DEF FitsSlot
<1>6. /\ m1 = Memory(obj1, store.open)
      /\ Well(obj1) /\ SameTypes(obj, obj1) /\ DOMAIN obj1 = DOMAIN obj
      /\ \A p \in DOMAIN obj : /\ obj1[p].refs = obj[p].refs
                               /\ obj1[p].raw = obj[p].raw
      /\ \A x : /\ LinkRefs(obj1, x) = LinkRefs(obj, x) -
                     Count(q, x) + Count(list, x)
                /\ LinkRefs(obj, x) \in Nat
  BY <1>0, <1>1, <1>5, RelinkedIs
<1> HIDE DEF obj1, m1
<1>7. ASSUME NEW x
      PROVE  /\ LinkRefs(obj1, x) = LinkRefs(obj, x) - (IF x = s THEN 1 ELSE 0)
             /\ LinkRefs(obj, x) \in Nat
  <2>1. /\ LinkRefs(obj1, x) = LinkRefs(obj, x) - Count(q, x) + Count(list, x)
        /\ LinkRefs(obj, x) \in Nat
    BY <1>6
  <2>2. /\ Count(q, x) = Count(list, x) + (IF x = s THEN 1 ELSE 0)
        /\ Count(list, x) \in Nat
    BY <1>3 DEF Loses
  <2> HIDE DEF q
  <2> QED
    BY <2>1, <2>2
<1>8. m1.obj = obj1 /\ m1.open = store.open /\ m1 = Memory(m1.obj, m1.open)
  BY <1>6 DEF Memory
<1> DEFINE r    == obj1[c].links["route"]
           more == Append(r, s)
           obj2 == [obj1 EXCEPT ![c].links["route"] = more]
<1>9. r \in Seq(Nat) /\ FitsSlot(obj1, c, "route", r) /\ c \in DOMAIN obj1
  <2>1. obj1[c] \in Object /\ c \in DOMAIN obj1 /\ LinksOk(obj1)
    BY <1>6 DEF Well, Objects
  <2>2. r \in Seq(Nat)
    BY <1>1, <2>1 DEF Object
  <2> QED
    BY <1>1, <2>1, <2>2 DEF LinksOk, FitsSlot
<1> HIDE DEF r
<1>10. /\ more \in Seq(Nat)
       /\ \A x : /\ Count(more, x) = Count(r, x) + (IF x = s THEN 1 ELSE 0)
                 /\ Count(r, x) \in Nat
       /\ \A k \in DOMAIN more : \/ k \in DOMAIN r /\ more[k] = r[k]
                                 \/ more[k] = s
  <2>1. /\ r \o <<s>> \in Seq(Nat) /\ Append(r, s) = r \o <<s>>
        /\ \A x : /\ Count(r \o <<s>>, x) =
                       Count(r, x) + (IF x = s THEN 1 ELSE 0)
                  /\ Count(r, x) \in Nat
        /\ \A k \in DOMAIN (r \o <<s>>) :
             \/ k \in DOMAIN r /\ (r \o <<s>>)[k] = r[k]
             \/ (r \o <<s>>)[k] = s
    BY <1>4, <1>9, CountMore
  <2>2. more = r \o <<s>>
    BY <2>1
  <2> HIDE DEF more
  <2> QED
    BY <2>1, <2>2
<1> HIDE DEF more
<1>11. FitsSlot(obj1, c, "route", more)
  <2>1. s \in DOMAIN obj1 /\ obj1[s].type = "surface"
        /\ obj1[c].type = OwnerOf("route")
    BY <1>1, <1>4, <1>6 DEF SameTypes
  <2>2. \A k \in DOMAIN r : r[k] \in DOMAIN obj1
                            /\ IsA(obj1, r[k], TargetOf("route"))
    BY <1>9 DEF FitsSlot
  <2>3. \A k \in DOMAIN more : more[k] \in DOMAIN obj1
                               /\ IsA(obj1, more[k], TargetOf("route"))
    BY <1>1, <1>10, <2>1, <2>2 DEF IsA
  <2> QED
    BY <1>10, <2>1, <2>3 DEF FitsSlot
<1> DEFINE m2 == Routed(c, s)
<1>12. m2 = Memory(obj2, store.open)
  <2>1. m2 = [m1 EXCEPT !.obj[c].links["route"] = Append(@, s)]
    BY DEF Routed, m1, list
  <2>2. m2 = [m1 EXCEPT !.obj[c].links["route"] = more]
    BY <1>8, <2>1 DEF more, r
  <2>3. [m1 EXCEPT !.obj[c].links["route"] = more] =
          Memory([m1.obj EXCEPT ![c].links["route"] = more], m1.open)
    BY <1>8, MemoryChanges
  <2> QED
    BY <1>8, <2>2, <2>3
<1>13. LET obj3 == [obj1 EXCEPT ![c].links["route"] = more]
       IN /\ Well(obj3) /\ SameTypes(obj1, obj3)
          /\ \A p \in DOMAIN obj1 : /\ obj3[p].refs = obj1[p].refs
                                    /\ obj3[p].raw = obj1[p].raw
                                    /\ p # c => obj3[p] = obj1[p]
          /\ obj3[c].links["route"] = more
          /\ \A z \in Slots \ {"route"} : obj3[c].links[z] = obj1[c].links[z]
          /\ \A x : /\ LinkRefs(obj3, x) = LinkRefs(obj1, x) -
                         Count(obj1[c].links["route"], x) + Count(more, x)
                    /\ Count(obj1[c].links["route"], x) <= LinkRefs(obj1, x)
                    /\ Count(obj1[c].links["route"], x) \in Nat
                    /\ Count(more, x) \in Nat
                    /\ LinkRefs(obj1, x) \in Nat
  BY <1>1, <1>6, <1>9, <1>11, LinksSet
<1>14. /\ Well(obj2) /\ SameTypes(obj1, obj2)
       /\ \A p \in DOMAIN obj1 : /\ obj2[p].refs = obj1[p].refs
                                 /\ obj2[p].raw = obj1[p].raw
       /\ \A x : /\ LinkRefs(obj2, x) = LinkRefs(obj1, x) -
                      Count(r, x) + Count(more, x)
                 /\ LinkRefs(obj1, x) \in Nat
  BY <1>13 DEF r
<1> HIDE DEF obj2, m2
<1>15. ASSUME NEW x
       PROVE  LinkRefs(obj2, x) = LinkRefs(obj, x)
  <2>1. /\ LinkRefs(obj2, x) = LinkRefs(obj1, x) - Count(r, x) + Count(more, x)
        /\ LinkRefs(obj1, x) \in Nat
    BY <1>14
  <2>2. /\ Count(more, x) = Count(r, x) + (IF x = s THEN 1 ELSE 0)
        /\ Count(r, x) \in Nat
    BY <1>10
  <2>3. /\ LinkRefs(obj1, x) = LinkRefs(obj, x) - (IF x = s THEN 1 ELSE 0)
        /\ LinkRefs(obj, x) \in Nat
    BY <1>7
  <2> QED
    BY <2>1, <2>2, <2>3
<1>16. /\ DOMAIN obj2 = DOMAIN obj
       /\ \A p \in DOMAIN obj : /\ obj2[p].type = obj[p].type
                                /\ obj2[p].refs = obj[p].refs
                                /\ obj2[p].raw = obj[p].raw
  BY <1>6, <1>14 DEF SameTypes
<1>17. m2.obj = obj2 /\ m2.open = store.open /\ m2 = Memory(m2.obj, m2.open)
       /\ s \in DOMAIN m2.obj /\ Well(m2.obj)
  BY <1>4, <1>12, <1>14, <1>16 DEF Memory
<1> DEFINE obj3 == [m2.obj EXCEPT ![s].refs = m2.obj[s].refs + 1]
           m3   == Ref(m2, s)
<1>18. /\ m3 = Memory(obj3, m2.open)
       /\ SameLinks(m2.obj, obj3) /\ obj3[s].refs = m2.obj[s].refs + 1
       /\ \A p \in DOMAIN m2.obj : /\ p # s => obj3[p].refs = m2.obj[p].refs
                                   /\ obj3[p].raw = m2.obj[p].raw
  BY <1>17, MemoryRefsOf
<1> HIDE DEF obj3, m3
<1>19. /\ m3.obj = obj3 /\ m3.open = store.open /\ m3 = Memory(m3.obj, m3.open)
       /\ Well(m3.obj) /\ s \in DOMAIN m3.obj /\ m3.obj[s].refs > 1
       /\ store' = Unref(m3, s) /\ obj[s].refs \in Nat
       /\ m3.obj[s].refs = obj[s].refs + 1
  <2>1. Well(obj3) /\ DOMAIN obj3 = DOMAIN obj2
    BY <1>14, <1>17, <1>18, LinksKept DEF SameLinks, SameTypes
  <2>2. obj[s].refs \in Nat /\ obj[s].refs > 0
    <3>1. Balanced(obj, s, HeldBy(heap, obj, call, s)) /\ Well(obj)
      BY <1>0, <1>4, StoreWell DEF RefInv, Balance
    <3> QED
      BY <1>4, <3>1 DEF Balanced, Well, Objects, Object
  <2>3. obj3[s].refs = obj[s].refs + 1
    BY <1>4, <1>16, <1>17, <1>18
  <2>4. m3.obj = obj3 /\ m3.open = store.open
    BY <1>17, <1>18 DEF Memory
  <2>5. store' = Unref(m3, s)
    BY DEF m3, m2
  <2> QED
    BY <1>4, <1>16, <1>18, <2>1, <2>2, <2>3, <2>4, <2>5 DEF Memory
<1> DEFINE obj4 == [m3.obj EXCEPT ![s].refs = m3.obj[s].refs - 1]
<1>20. /\ store' = Memory(obj4, store.open)
       /\ SameLinks(m3.obj, obj4) /\ obj4[s].refs = m3.obj[s].refs - 1
       /\ \A p \in DOMAIN m3.obj : /\ p # s => obj4[p].refs = m3.obj[p].refs
                                   /\ obj4[p].raw = m3.obj[p].raw
  <2>1. /\ Unref(m3, s) = Memory(obj4, m3.open)
        /\ SameLinks(m3.obj, obj4) /\ obj4[s].refs = m3.obj[s].refs - 1
        /\ \A p \in DOMAIN m3.obj : /\ p # s => obj4[p].refs = m3.obj[p].refs
                                    /\ obj4[p].raw = m3.obj[p].raw
    BY <1>19, MemoryUnrefs
  <2> HIDE DEF obj4
  <2> QED
    BY <1>19, <2>1
<1> HIDE DEF obj4
<1>21. /\ Well(obj4) /\ SameTypes(obj3, obj4) /\ SameTypes(obj2, obj3)
       /\ \A x : LinkRefs(obj4, x) = LinkRefs(obj3, x)
    BY <1>17, <1>18, <1>19, <1>20, LinksKept DEF SameLinks
<1>22. \A x : LinkRefs(obj4, x) = LinkRefs(obj, x)
  <2>1. \A x : LinkRefs(obj3, x) = LinkRefs(obj2, x)
    BY <1>17, <1>18, LinksKept
  <2> QED
    BY <1>15, <1>21, <2>1
<1>23. /\ DOMAIN obj4 = DOMAIN obj
       /\ \A p \in DOMAIN obj : /\ obj4[p].type = obj[p].type
                                /\ obj4[p].refs = obj[p].refs
                                /\ obj4[p].raw = obj[p].raw
  <2>1. DOMAIN obj4 = DOMAIN obj /\ DOMAIN obj3 = DOMAIN obj
    BY <1>16, <1>21 DEF SameTypes
  <2>2. ASSUME NEW p \in DOMAIN obj
        PROVE  /\ obj4[p].type = obj[p].type /\ obj4[p].raw = obj[p].raw
    BY <1>16, <1>17, <1>18, <1>19, <1>20, <1>21, <2>1 DEF SameTypes
  <2>3. ASSUME NEW p \in DOMAIN obj
        PROVE  obj4[p].refs = obj[p].refs
    <3>1. CASE p = s
      BY <1>19, <1>20, <3>1
    <3>2. CASE p # s
      BY <1>16, <1>17, <1>18, <1>19, <1>20, <2>1, <3>2
    <3> QED
      BY <3>1, <3>2
  <2> QED
    BY <2>1, <2>2, <2>3
<1>24. ASSUME NEW x \in Nat \ {NoObject}
       PROVE  Balanced(obj4, x, InHeap(heap, x) + LinkRefs(obj4, x) +
                                CallRefs(call, x))
  <2>1. Balanced(obj, x, InHeap(heap, x) + LinkRefs(obj, x) + CallRefs(call, x))
    BY <1>0 DEF RefInv, Balance, HeldBy
  <2> QED
    BY <1>22, <1>23, <2>1 DEF Balanced
<1>25. Worked(obj4, store.open, s)
  BY <1>20, <1>21, <1>23, <1>24 DEF Worked
<1> QED
  BY <1>25

(* What the worker of a context may do.                                    *)
LEMMA WorksAre ==
  ASSUME SafeInv, NEW c \in DOMAIN store.obj, Works(c)
  PROVE  /\ UNCHANGED <<heap, call, made, up>>
         /\ \E s, obj2, open2 : Worked(obj2, open2, s)
<1>0. RefInv /\ "job" \in Slots /\ "route" \in Slots
  BY DEF SafeInv, Slots
<1>1. CASE worker_submit(c)
  <2> DEFINE q == Linked(c, "job")
             s == Head(q)
  <2>1. q \in Seq(Nat) /\ q # <<>>
    BY <1>0, <1>1, LinkedIs DEF worker_submit
  <2>2. Loses(q, s, Tail(q)) /\ 1 \in DOMAIN q /\ s = q[1]
    BY <2>1, CountTail
  <2>0. UNCHANGED <<heap, call, made, up>>
    BY <1>1 DEF worker_submit
  <2>3. CASE store' = Unref(Ref(Routed(c, s), s), s)
    BY <2>0, <2>1, <2>3, WorkMoves
  <2>4. CASE store' = Unref(Relinked(c, "job", Tail(q)), s)
    <3>1. \E obj2, open2 : Worked(obj2, open2, Linked(c, "job")[1])
      BY <2>2, <2>4, WorkDrops
    <3> QED
      BY <2>0, <3>1
  <2> QED
    BY <1>1, <2>3, <2>4 DEF worker_submit, Routed
<1>2. ASSUME NEW k \in DOMAIN Linked(c, "route"), worker_output(c, k)
      PROVE  /\ UNCHANGED <<heap, call, made, up>>
             /\ \E s, obj2, open2 : Worked(obj2, open2, s)
  <2> DEFINE q == Linked(c, "route")
  <2>1. q \in Seq(Nat)
    BY <1>0, LinkedIs
  <2>2. Loses(q, q[k], RemoveAt(q, k))
    BY <2>1, CountRemoved
  <2>3. \E obj2, open2 : Worked(obj2, open2, Linked(c, "route")[k])
    BY <1>2, <2>2, WorkDrops DEF worker_output
  <2> QED
    BY <1>2, <2>3 DEF worker_output
<1> QED
  BY <1>1, <1>2 DEF Works

(* The worker keeps every count.                                           *)
LEMMA WorksKeeps ==
  ASSUME SafeInv, NEW c \in DOMAIN store.obj, Works(c)
  PROVE  RefInv'
<1>1. PICK s, obj2, open2 : Worked(obj2, open2, s)
  BY WorksAre
<1>2. UNCHANGED <<heap, call, made, up>>
  BY WorksAre
<1>3. RefInv /\ store.open \subseteq Resources
  BY StoreIs DEF SafeInv
<1>4. open2 \subseteq Resources
  BY <1>1, <1>3 DEF Worked
<1> QED
  BY <1>1, <1>2, <1>3, <1>4, WorkTaken DEF Worked

-----------------------------------------------------------------------------
(***************************************************************************)
(* The driver.                                                             *)
(***************************************************************************)

(* vaInitialize after vaTerminate.                                         *)
LEMMA InitKeeps ==
  ASSUME RefInv, rk_driver_init
  PROVE  RefInv'
<1>1. /\ UNCHANGED <<store, heap, call, made>> /\ up' = TRUE
  BY DEF rk_driver_init
<1>2. TypeInv'
  BY <1>1 DEF RefInv, TypeInv, CallsFit, ObjectsFit
<1>3. LinksFit' /\ NamesFit'
  BY <1>1, SMTT(30) DEF RefInv, LinksFit, NamesFit, Named, SelfFits, IsA
<1>4. DownFits'
  BY <1>1 DEF DownFits
<1>5. Balance'
  BY <1>1 DEF RefInv, Balance, HeldBy, Balanced, InHeap, LinkRefs, CallRefs,
     LinkFamily, CallFamily
<1> QED
  BY <1>2, <1>3, <1>4, <1>5 DEF RefInv

(* A list of the elements of a finite set, each of them once.              *)
LEMMA ListsOnce ==
  ASSUME NEW S \in SUBSET Nat, IsFiniteSet(S)
  PROVE  /\ SetToSeq(S) \in Seq(Nat)
         /\ \A k \in DOMAIN SetToSeq(S) : SetToSeq(S)[k] \in S
         /\ \A x : Count(SetToSeq(S), x) = IF x \in S THEN 1 ELSE 0
<1> DEFINE n == Cardinality(S)
           D == 1 .. n
           f == SetToSeq(S)
<1>1. n \in Nat /\ ExistsBijection(D, S)
  BY FS_CardinalityType
<1>2. \E g \in [D -> S] : IsInjective(g)
  BY <1>1 DEF ExistsBijection, Bijection, Injection
<1>3. f = CHOOSE g \in [D -> S] : IsInjective(g)
  BY DEF SetToSeq
<1> HIDE DEF f, D
<1>4. f \in [D -> S] /\ IsInjective(f)
  BY <1>2, <1>3
<1>5. f \in Injection(D, S)
  BY <1>4 DEF Injection
<1>6. Cardinality(D) = n
  <2>1. Cardinality(1 .. n) = IF 1 > n THEN 0 ELSE n - 1 + 1
    BY <1>1, FS_Interval
  <2> HIDE DEF n
  <2> QED
    BY <1>1, <2>1 DEF D
<1>7. f \in Surjection(D, S)
  BY <1>5, <1>6, FS_Injection
<1>8. \A x \in S : \E k \in D : f[k] = x
  BY <1>7 DEF Surjection
<1>9. f \in Seq(Nat) /\ DOMAIN f = D
  <2> HIDE DEF n
  <2>1. f \in [1 .. n -> Nat] /\ DOMAIN f = D
    BY <1>4 DEF D
  <2> QED
    BY <1>1, <2>1, SeqDef
<1>10. ASSUME NEW x
       PROVE  Count(f, x) = IF x \in S THEN 1 ELSE 0
  <2>1. CASE x \in S
    <3>1. PICK k \in D : f[k] = x
      BY <1>8, <2>1
    <3>2. Positions(f, x) = {k}
      BY <1>4, <1>9, <3>1 DEF Positions, IsInjective
    <3> QED
      BY <2>1, <3>2, FS_Singleton DEF Count
  <2>2. CASE x \notin S
    <3>1. Positions(f, x) = {}
      BY <1>4, <1>9, <2>2 DEF Positions
    <3> QED
      BY <2>2, <3>1, FS_EmptySet DEF Count
  <2> QED
    BY <2>1, <2>2
<1> QED
  BY <1>4, <1>9, <1>10 DEF f

(* The handles of one heap.                                                *)
LEMMA ListedIs ==
  ASSUME RefInv, NEW type
  PROVE  /\ Listed(type) \in Seq(Nat)
         /\ \A k \in DOMAIN Listed(type) : Listed(type)[k] # NoObject
         /\ \A x : /\ Count(Listed(type), x) =
                        IF x \in heap /\ store.obj[x].type = type THEN 1 ELSE 0
                   /\ Count(Listed(type), x) \in Nat
<1> DEFINE S == Of(type)
<1>1. heap \subseteq 1 .. made /\ made \in Nat
  BY StoreIs
<1>2. IsFiniteSet(1 .. made)
  BY <1>1, FS_Interval
<1>3. S \in SUBSET Nat /\ IsFiniteSet(S) /\ NoObject \notin S
  <2>1. S \subseteq 1 .. made
    BY <1>1 DEF Of
  <2> QED
    BY <1>1, <1>2, <2>1, FS_Subset DEF NoObject
<1>4. \A x : x \in S <=> x \in heap /\ store.obj[x].type = type
  BY DEF Of
<1>5. Listed(type) = SetToSeq(S)
  BY DEF Listed
<1> HIDE DEF S
<1> QED
  BY <1>3, <1>4, <1>5, ListsOnce

(* A concatenation of names.                                               *)
LEMMA ListsJoin ==
  ASSUME NEW v \in Seq(Nat), NEW w \in Seq(Nat),
         \A k \in DOMAIN v : v[k] # NoObject, \A k \in DOMAIN w : w[k] # NoObject
  PROVE  /\ v \o w \in Seq(Nat)
         /\ \A k \in DOMAIN (v \o w) : (v \o w)[k] # NoObject
         /\ \A x : Count(v \o w, x) = Count(v, x) + Count(w, x)
<1>1. /\ v \o w \in Seq(Nat)
      /\ \A x : Count(v \o w, x) = Count(v, x) + Count(w, x)
  BY CountConcat, ConcatProperties
<1>2. Count(v, NoObject) = 0 /\ Count(w, NoObject) = 0
  BY CountNone
<1>3. Count(v \o w, NoObject) = 0
  BY <1>1, <1>2
<1> QED
  BY <1>1, <1>3, CountNone

(* All the handles.                                                        *)
Everything == Listed("context") \o Listed("surface") \o Listed("image") \o
              Listed("buffer") \o Listed("config")

(* It names every object of the heaps once.                                *)
LEMMA EverythingIs ==
  ASSUME RefInv
  PROVE  /\ Everything \in Seq(Nat)
         /\ \A k \in DOMAIN Everything : Everything[k] # NoObject
         /\ \A x \in Nat : Count(Everything, x) = InHeap(heap, x)
<1> DEFINE a == Listed("context")
           b == Listed("surface")
           c == Listed("image")
           d == Listed("buffer")
           e == Listed("config")
           Names2(v) == v \in Seq(Nat) /\ \A k \in DOMAIN v : v[k] # NoObject
<1>1. Names2(a) /\ Names2(b) /\ Names2(c) /\ Names2(d) /\ Names2(e)
  BY ListedIs
<1>2. ASSUME NEW x
      PROVE  /\ Count(a, x) = IF x \in heap /\ store.obj[x].type = "context"
                              THEN 1 ELSE 0
             /\ Count(b, x) = IF x \in heap /\ store.obj[x].type = "surface"
                              THEN 1 ELSE 0
             /\ Count(c, x) = IF x \in heap /\ store.obj[x].type = "image"
                              THEN 1 ELSE 0
             /\ Count(d, x) = IF x \in heap /\ store.obj[x].type = "buffer"
                              THEN 1 ELSE 0
             /\ Count(e, x) = IF x \in heap /\ store.obj[x].type = "config"
                              THEN 1 ELSE 0
  BY ListedIs
<1>3. Everything = ((((a \o b) \o c) \o d) \o e)
  BY DEF Everything
<1> HIDE DEF a, b, c, d, e
<1>4. Names2(a \o b) /\ \A x : Count(a \o b, x) = Count(a, x) + Count(b, x)
  BY <1>1, ListsJoin
<1> DEFINE ab == a \o b
<1> HIDE DEF ab
<1>5. Names2(ab \o c) /\ \A x : Count(ab \o c, x) = Count(ab, x) + Count(c, x)
  BY <1>1, <1>4, ListsJoin DEF ab
<1> DEFINE abc == ab \o c
<1> HIDE DEF abc
<1>6. /\ Names2(abc \o d)
      /\ \A x : Count(abc \o d, x) = Count(abc, x) + Count(d, x)
  BY <1>1, <1>5, ListsJoin DEF abc
<1> DEFINE abcd == abc \o d
<1> HIDE DEF abcd
<1>7. /\ Names2(abcd \o e)
      /\ \A x : Count(abcd \o e, x) = Count(abcd, x) + Count(e, x)
  BY <1>1, <1>6, ListsJoin DEF abcd
<1>8. Everything = abcd \o e
  BY <1>3 DEF abcd, abc, ab
<1>9. ASSUME NEW x \in Nat
      PROVE  Count(Everything, x) = InHeap(heap, x)
  <2>1. Count(Everything, x) = Count(a, x) + Count(b, x) + Count(c, x) +
                               Count(d, x) + Count(e, x)
    <3>1. Count(ab, x) = Count(a, x) + Count(b, x)
      BY <1>4 DEF ab
    <3>2. Count(abc, x) = Count(ab, x) + Count(c, x)
      BY <1>5 DEF abc
    <3>3. Count(abcd, x) = Count(abc, x) + Count(d, x)
      BY <1>6 DEF abcd
    <3> QED
      BY <1>7, <1>8, <3>1, <3>2, <3>3
  <2>2. CASE x \in heap
    <3>1. x \in DOMAIN store.obj
      BY <2>2, HeapAlive
    <3>2. store.obj[x].type \in Types
      BY <3>1, StoreWell DEF Well, Objects, Object
    <3> QED
      BY <1>2, <2>1, <2>2, <3>2 DEF Types, InHeap
  <2>3. CASE x \notin heap
    BY <1>2, <2>1, <2>3 DEF InHeap
  <2> QED
    BY <2>2, <2>3
<1> QED
  BY <1>7, <1>8, <1>9

(* A call that is over holds nothing.                                      *)
LEMMA FreeRefs ==
  ASSUME RefInv, NEW t \in Threads, Free(t), NEW o \in Nat \ {NoObject}
  PROVE  RefsOf(call[t], o) = 0
<1> DEFINE c == call[t]
<1>1. c \in Call /\ CallFits(c) /\ c.at = "idle" /\ c.owed = <<>>
  BY CallsAreFit DEF Fit, Free, Over
<1>2. c.held = <<>> /\ c.self = NoObject
  BY <1>1 DEF CallFits, Holds, BuildSteps, SurfaceSteps, BufferSteps,
     ContextSteps
<1> HIDE DEF c
<1>3. Due(c.owed) = <<>>
  BY <1>1 DEF Due
<1>4. Count(c.held, o) = 0 /\ Count(Due(c.owed), o) = 0 /\ OnSelf(c, o) = 0
  BY <1>2, <1>3, CountEmpty DEF OnSelf
<1> QED
  BY <1>1, <1>4, OwedDue DEF c

Terminating(list) == [Idle EXCEPT !.op = "terminate", !.owed = Unrefs(list)]

(* vaTerminate takes over what the heaps hold.                             *)
LEMMA TerminateKeeps ==
  ASSUME RefInv, NEW t \in Threads, rk_Terminate(t)
  PROVE  RefInv'
<1> DEFINE list == Everything
           c    == Terminating(list)
<1>0. made \in Nat /\ NoObject \notin DOMAIN store.obj
  BY StoreIs, ObjectsStand DEF RefInv
<1>1. /\ UNCHANGED <<store, made>> /\ heap' = {} /\ up' = FALSE
      /\ \A u \in Threads : Free(u)
      /\ Goes(t, c)
  BY DEF rk_Terminate, Terminating, Everything
<1>2. /\ list \in Seq(Nat) /\ \A k \in DOMAIN list : list[k] # NoObject
      /\ \A x \in Nat : Count(list, x) = InHeap(heap, x)
  BY EverythingIs
<1> HIDE DEF list
<1> DEFINE w == Unrefs(list)
<1>3. /\ w \in Seq(Duty) /\ Due(w) = list /\ Real(w)
  BY <1>2, DueUnrefs, RealLists
<1> HIDE DEF w
<1>4. c = [Idle EXCEPT !.op = "terminate", !.owed = w]
  BY DEF Terminating, w
<1>5. c \in Call
  BY <1>3, <1>4, IdleFits DEF Call, Ops
<1>6. /\ c.op = "terminate" /\ c.owed = w /\ c.at = "idle"
      /\ c.held = <<>> /\ c.self = NoObject /\ c.ids = <<>>
      /\ c.targets = <<>> /\ c.surface = NoObject /\ c.on = NoObject
      /\ c.failed = FALSE
  BY <1>4 DEF Idle
<1> HIDE DEF c
<1>7. CallFits(c)
  BY <1>6 DEF CallFits, OpsAt, Holds, WithBuffer, BuildSteps, SurfaceSteps,
              BufferSteps, ContextSteps, Ops
<1>8. Known(c, made)
  BY <1>0, <1>3, <1>6 DEF Known, NoObject
<1>9. Named(c, store.obj) /\ SelfFits(c, store.obj)
  BY <1>0, <1>6 DEF Named, SelfFits, IsA
<1>10. Fit(c, made, store.obj)
  BY <1>5, <1>7, <1>8, <1>9 DEF Fit
<1>11. ASSUME NEW o \in Nat \ {NoObject}
       PROVE  InHeap(heap', o) + RefsOf(c, o) =
                InHeap(heap, o) + RefsOf(call[t], o)
  <2>1. RefsOf(call[t], o) = 0
    BY <1>1, FreeRefs
  <2>2. RefsOf(c, o) = Count(c.held, o) + Count(Due(c.owed), o) + OnSelf(c, o)
    BY <1>5, OwedDue
  <2>3. /\ Count(c.held, o) = 0 /\ OnSelf(c, o) = 0
        /\ Count(Due(c.owed), o) = InHeap(heap, o)
    BY <1>2, <1>3, <1>6, CountEmpty DEF OnSelf
  <2>4. InHeap(heap', o) = 0 /\ InHeap(heap, o) \in Nat
    BY <1>1 DEF InHeap
  <2> QED
    BY <2>1, <2>2, <2>3, <2>4
<1>12. /\ heap' \subseteq 1 .. made /\ up' \in BOOLEAN
       /\ ~up' => /\ heap' = {} /\ c.at = "idle"
                  /\ \A u \in Threads \ {t} : call[u].at = "idle"
  BY <1>1, <1>6 DEF Free, Over
<1> QED
  BY <1>1, <1>10, <1>11, <1>12, StepHeap

-----------------------------------------------------------------------------
(***************************************************************************)
(* Every step keeps the counts.                                            *)
(***************************************************************************)

(* The first state.                                                        *)
LEMMA InitFits ==
  ASSUME Init
  PROVE  SafeInv
<1>1. /\ store = [obj |-> <<>>, open |-> {}, sane |-> TRUE] /\ heap = {}
      /\ call = [t \in Threads |-> Idle] /\ made = 0 /\ up = TRUE
  BY DEF Init
<1>2. /\ Idle \in Call /\ Idle.at = "idle" /\ Idle.op = "none"
      /\ Idle.owed = <<>> /\ Idle.held = <<>> /\ Idle.self = NoObject
      /\ Idle.ids = <<>> /\ Idle.targets = <<>> /\ Idle.surface = NoObject
      /\ Idle.on = NoObject /\ Idle.failed = FALSE /\ Idle.local = {}
  BY IdleFits DEF Idle
<1>3. CallFits(Idle)
  BY <1>2 DEF CallFits, OpsAt, Holds, WithBuffer, BuildSteps, SurfaceSteps,
              BufferSteps, ContextSteps, Ops
<1>4. Known(Idle, 0)
  BY <1>2, RealLists DEF Known, NoObject
<1>5. TypeInv
  <2>1. CallsFit
    BY <1>1, <1>2, <1>3, <1>4 DEF CallsFit
  <2>2. ObjectsFit
    BY <1>1 DEF ObjectsFit
  <2> QED
    BY <2>1, <2>2 DEF TypeInv
<1>6. /\ store.obj = <<>> /\ DOMAIN store.obj = {} /\ store.open = {}
      /\ store.sane
  BY <1>1
<1>7. LinksFit
  BY <1>6 DEF LinksFit
<1>8. NamesFit
  <2>1. Named(Idle, store.obj) /\ SelfFits(Idle, store.obj)
    BY <1>2, <1>6 DEF Named, SelfFits, IsA
  <2> QED
    BY <1>1, <2>1 DEF NamesFit
<1>9. DownFits
  BY <1>1 DEF DownFits
<1>10. Balance
  <2>1. ASSUME NEW o \in Nat \ {NoObject}
        PROVE  Balanced(store.obj, o, HeldBy(heap, store.obj, call, o))
    <3>1. LinkRefs(store.obj, o) = 0
      <4>1. DOMAIN LinkFamily(store.obj) = {}
        BY <1>6 DEF LinkFamily
      <4> QED
        BY <4>1, FS_EmptySet DEF LinkRefs, Occurrences
    <3>2. CallRefs(call, o) = 0
      <4> DEFINE F == CallFamily(call)
      <4>1. Count(References(Idle), o) = 0
        <5>1. RefsOf(Idle, o) =
                Count(Idle.held, o) + Count(Due(Idle.owed), o) + OnSelf(Idle, o)
          BY <1>2, OwedDue
        <5>2. Due(Idle.owed) = <<>>
          BY <1>2 DEF Due
        <5>3. /\ Count(Idle.held, o) = 0 /\ Count(Due(Idle.owed), o) = 0
              /\ OnSelf(Idle, o) = 0
          BY <1>2, <5>2, CountEmpty DEF OnSelf
        <5> QED
          BY <5>1, <5>3 DEF RefsOf
      <4>2. References(Idle) \in Seq(Nat)
        BY <1>2, ReferencesCount
      <4>3. Positions(References(Idle), o) = {}
        BY <4>1, <4>2, CountNone DEF Positions
      <4>4. \A t \in DOMAIN F : F[t] = References(Idle)
        BY <1>1 DEF CallFamily
      <4>5. UNION {{<<i, k>> : k \in Positions(F[i], o)} : i \in DOMAIN F} = {}
        BY <4>3, <4>4
      <4> QED
        BY <4>5, FS_EmptySet DEF CallRefs, Occurrences
    <3>3. InHeap(heap, o) = 0
      BY <1>1 DEF InHeap
    <3> QED
      BY <1>6, <3>1, <3>2, <3>3 DEF Balanced, HeldBy
  <2> QED
    BY <1>6, <2>1 DEF Balance
<1>11. RawFits
  <2>1. LocalFits(Idle)
    BY <1>2 DEF LocalFits, OwnedBy, ClosedOnFailure
  <2>2. SelfRaw(Idle, store.obj)
    BY <1>2 DEF SelfRaw
  <2> QED
    BY <1>1, <1>2, <1>6, <2>1, <2>2 DEF RawFits
<1> QED
  BY <1>5, <1>7, <1>8, <1>9, <1>10, <1>11 DEF SafeInv, RefInv

(* A step that fails, whatever the reason.                                 *)
FailedStep(t) == acquire_fails(t) \/ fallible_fails(t) \/ not_derivable(t)

(* It is a step that may fail.                                             *)
LEMMA FailedStepIs ==
  ASSUME NEW t, FailedStep(t)
  PROVE  /\ \E do \in Failing : At(t, do)
         /\ Fails(t)
BY FailingIs DEF FailedStep, acquire_fails, fallible_fails, not_derivable

(* The steps of a call that do not fail, by what they change.              *)
Moves(t) == \/ take_succeeds(t) \/ hand_over(t) \/ dec_control(t)
            \/ derivable(t)
Plain(t) == \/ calloc_succeeds(t) \/ calloc_image_succeeds(t)
            \/ insert_succeeds(t) \/ look_at_succeeds(t)
            \/ acquire_succeeds(t) \/ acquire_target_succeeds(t)
            \/ remove(t) \/ Pictures(t)

(* The steps there are.                                                    *)
LEMMA NextIs ==
  ASSUME [Next]_vars
  PROVE  \/ \E t \in Threads : \/ Creates(t) \/ Destroys(t) \/ Uses(t)
                               \/ FailedStep(t) \/ Moves(t) \/ Plain(t)
                               \/ unref(t) \/ Handles(t) \/ rk_Terminate(t)
         \/ \E c \in DOMAIN store.obj : Works(c)
         \/ rk_driver_init
         \/ UNCHANGED vars
<1>1. \A t : Builds(t) => FailedStep(t) \/ Moves(t) \/ Plain(t)
  BY DEF Builds, FailedStep, Moves, Plain
<1>2. \A t : Shares(t) => FailedStep(t) \/ Plain(t) \/ unref(t)
  BY DEF Shares, FailedStep, Plain
<1>3. \A t : Pictures(t) => Plain(t)
  BY DEF Plain
<1>4. Creators \subseteq Threads /\ Players \subseteq Threads
  BY ObjectsAssumption
<1> QED
  BY <1>1, <1>2, <1>3, <1>4 DEF Next

(* Nothing changes.                                                        *)
LEMMA StutterKeeps ==
  ASSUME RefInv, UNCHANGED vars
  PROVE  RefInv'
<1>1. UNCHANGED <<store, heap, call, made, up>>
  BY DEF vars
<1>2. TypeInv'
  BY <1>1 DEF RefInv, TypeInv, CallsFit, ObjectsFit
<1>3. LinksFit' /\ NamesFit'
  BY <1>1, SMTT(30) DEF RefInv, LinksFit, NamesFit, Named, SelfFits, IsA
<1>4. DownFits'
  BY <1>1 DEF RefInv, DownFits
<1>5. Balance'
  BY <1>1 DEF RefInv, Balance, HeldBy, Balanced, InHeap, LinkRefs, CallRefs,
     LinkFamily, CallFamily
<1> QED
  BY <1>2, <1>3, <1>4, <1>5 DEF RefInv

(* Every step keeps every reference count.                                 *)
LEMMA RefNext ==
  ASSUME SafeInv, [Next]_vars
  PROVE  RefInv'
<1>0. RefInv
  BY DEF SafeInv
<1>1. ASSUME NEW t \in Threads, Creates(t) \/ Destroys(t) \/ Uses(t)
      PROVE  RefInv'
  BY <1>0, <1>1, CreatesKeeps, DestroysKeeps, UsesKeeps
<1>2. ASSUME NEW t \in Threads, FailedStep(t)
      PROVE  RefInv'
  BY <1>2, FailedStepIs, FailsKeeps
<1>3. ASSUME NEW t \in Threads, Moves(t)
      PROVE  RefInv'
  BY <1>0, <1>3, TakeKeeps, HandOverKeeps, DecControlKeeps, DerivableKeeps
     DEF Moves
<1>4. ASSUME NEW t \in Threads, Pictures(t)
      PROVE  RefInv'
  BY <1>0, <1>4, RefusedKeeps, AcceptedKeeps, EndKeeps, JobKeeps, EnqueueKeeps,
     RejectKeeps DEF Pictures
<1>5. ASSUME NEW t \in Threads, Plain(t)
      PROVE  RefInv'
  BY <1>0, <1>4, <1>5, CallocKeeps, CallocImageKeeps, InsertKeeps, LookAtKeeps,
     AcquireKeeps, TargetKeeps, RemoveKeeps DEF Plain
<1>6. ASSUME NEW t \in Threads, unref(t) \/ Handles(t) \/ rk_Terminate(t)
      PROVE  RefInv'
  BY <1>0, <1>6, UnrefKeeps, HandlesKeeps, TerminateKeeps
<1>7. ASSUME NEW c \in DOMAIN store.obj, Works(c)
      PROVE  RefInv'
  BY <1>7, WorksKeeps
<1>8. CASE rk_driver_init
  BY <1>0, <1>8, InitKeeps
<1>9. CASE UNCHANGED vars
  BY <1>0, <1>9, StutterKeeps
<1> QED
  BY <1>1, <1>2, <1>3, <1>5, <1>6, <1>7, <1>8, <1>9, NextIs
=============================================================================
