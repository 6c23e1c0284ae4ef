# A TLA+ verification of rockchip-vaapi

rockchip-vaapi is a VA-API driver for Rockchip SoCs: it turns libva calls into
work for MPP, Rockchip's media library. This directory models the parts of the
driver that keep state across calls and threads, the headers it writes and
parses, the pixel layouts it computes and the capabilities it negotiates. TLC
checks all of them. TLAPS proves the safety properties of the handle heap, the
driver's objects, the decode context, the decode pool, picture assembly, surface
storage, the encoder, the image copies, emulation prevention, the VP9 header
parser and the negotiation of capabilities for every size. Paths such as
`mpp_dec.c` are those of `src/src/`.

Contents: 1 the system, 2 the modules, 3 the runs, 4 fairness, 5 the proofs,
6 where code and documents disagree, 7 abstractions, 8 what is not modelled,
9 plan.

## 1. The system

### Parts, state and operations

| part | state | operations |
|---|---|---|
| object heap (`object_heap.c`) | slots with object, generation, retired flag and free link; high-water mark, capacity, count; a reference count in each object | init, insert, acquire, remove, finish under `object_lock`; ref and unref as atomics outside it |
| decode context, API side (`context.c`) | render target, pending buffers, copies of parameters, `next_token`, job queue | Create/DestroyContext, Begin/Render/EndPicture |
| decode context, worker (`mpp_dec.c`) | token routes, VP9 route FIFO, `outstanding_frames`, stall clock, drain flags | submit a job with retries, drain MPP's output, bind a frame to a surface, end of stream, stop |
| picture assembly (`context.c`, `mpp_dec.c`) | `has_pp`, `has_iq`, `sps_sent`, the cached HEVC sequence bundle | `build_h264_job`, `build_hevc_job`, `build_generic_job` |
| decode pool (`mpp_dec.c`) | committed DRM buffers, count, buffer size, reference count | setup at info change, growth when MPP is starved, release by its last user |
| surface (`surface.c`, `export.c`, `buffer.c`) | fence, decoded / failed, private buffer, MPP frame or backing buffer, stable-export flag, repacked export copy | create, destroy, sync, status, export, derive, map, acquire, read back |
| encoder (`mpp_enc.c`, `context.c`, `buffer.c`) | last sequence, picture and slice parameters with their flags, accumulated slices, coded buffers | render parameters, encode synchronously, sync, map and resize coded buffers |
| bitstream writers and parsers (`h264.c`, `hevc.c`, `vp9.c`) | none | write SPS/PPS/VPS, rewrite slice headers, parse a VP9 frame header |
| layout and conversion (`frame_layout.c`, `convert.c`) | none | sizes and strides; RGA or CPU copies |
| objects and resources (`surface.c`, `buffer.c`, `context.c`) | reference counts, links between objects, descriptors, MPP buffers and groups, memory, the worker thread | create, import, derive, acquire handles, destroy, and the rollback of each |
| driver table (`rockchip_drv_video.c`), `log.c` | two environment gates, configs | query profiles, entrypoints and attributes; create configs; initialise, terminate |

### How they interact

Application threads call the API. EndPicture assembles a job and appends it to
the context's queue under `work_lock`; one worker thread per decode context
takes jobs, pushes packets to MPP and reads frames from it. MPP runs on its own
and returns frames late, reordered, or not at all. A frame finds its surface
through a *route* (a token for H.264 and HEVC, first-in-first-out for VP9) and
is accepted only if the surface's *fence*, a counter BeginPicture advances,
still has the value the job carried. The surface then keeps MPP's buffer, so
that the application, through the pool, can stop MPP from decoding. Other
threads wait on the surface's condition variable, or export and map its memory.
Jobs, routes and bound buffers hold counted references to surfaces, contexts
and pools, which is what keeps destroyed handles' objects alive.

### What is hard

* The worker pushes and drains in one loop: while a packet is being retried,
  frames arrive, and they may consume the route of the packet being pushed.
* The surface's lock is released between looking and acting (export, derive,
  binding a converted frame), and in between the surface may be reused.
* Timeouts race late answers (stall timer, drain deadline, encoder packets).
* Two waits can close a circle: MPP waits for a buffer, the buffer belongs to
  a surface the application holds, the application waits for MPP.
* State describes MPP (`sps_sent`, cached HEVC headers, `outstanding_frames`)
  and must not run ahead of what MPP really received.
* Handles, generations and reference counts are shared by everything, and each
  of a dozen steps of a creation may fail with other things half built.
* VA-API hands over parsed fields, MPP wants a bitstream: the driver writes
  parameter sets and slice headers again, where one bit shifts all the rest.
* Sizes are products of pitches and heights an application chose, in 32 bits.
* What one entry point advertises, three others have to accept.

`PROJECT.json` lists these as hazards, at the line where each one bites.

### What makes each part correct

* Heap: a handle never resolves to an object it was not issued for; an object
  is destroyed once, exactly when nobody refers to it; slots are not lost.
* Decode context: each fence is settled once, with its own picture or a
  failure; nobody waits for ever; destroy returns even with a wedged MPP.
* Assembly: MPP decodes what the application declared, in whole packets.
* Pool: MPP never writes into a buffer on show; starvation ends; the pool
  lives exactly as long as it is used.
* Surface storage: a consumer sees the current picture with the geometry it
  was told, also through a DMA-BUF it retained.
* Encoder: only exact slice tilings reach MPP; a coded buffer that syncs holds
  the whole packet of its own picture.
* Headers: a decoder that follows the standard reads what the application
  declared, and legal streams are accepted.
* Images: no copy leaves its buffer, and pixels arrive where they belong.
* Objects: counts equal references, every raw resource has one owner, a call
  that fails leaves nothing behind.
* Capabilities: an application that asks for what was advertised gets it, up
  to limits that are known.

## 2. The modules

| module | models | abstract specification |
|---|---|---|
| `ObjectHeap` | `object_heap.c`, one heap | `ObjectRegistry`: handles are issued once, resolve until withdrawn; objects live while somebody uses them |
| `DecodeWorker` | `context.c` Begin/End/Destroy, `mpp_dec.c` queue, worker, routes, stall timer, stop | `SurfaceFence`: each surface is asked for a new picture, and the current one is shown or given up, once |
| `PictureAssembly` | Render/EndPicture and the three `build_*_job` functions | |
| `DecodePool` | `configure_external_group`, `grow_external_group`, `put_packet_draining`, binding, pool references | |
| `SurfaceExport` | export, derive, map, acquire, readback, sync and `rk_surface_copy_to_stable_export` on one surface | |
| `Encoder` | the encoder's parameters, `rk_mpp_enc_encode`, coded buffers | |
| `BitSyntax` | `bs.h`, the bit readers, emulation prevention | |
| `HevcSlice` | reference picture sets and the slice rewriter of `hevc.c` | `H265Syntax`: a stream's slice, and what a decoder reads in one |
| `ParameterSets` | VPS, SPS, PPS, levels, tiles and scaling lists of `hevc.c` and `h264.c` | `ParameterSyntax`: the syntax tables and level tables of the standards |
| `Vp9Header` | `vp9.c` | |
| `Bitstream` | what the three `build_*_job` functions make of them for a picture | |
| `FrameLayout` | `frame_layout.c` in words of a bounded width | |
| `SurfaceImage` | layout and import of a surface, images, `vaPutImage`, `vaGetImage`, repacking, the encoder's input, sample by sample | |
| `DriverObjects` | creation, use and destruction of every kind of object with the resources behind it (`surface.c`, `buffer.c`, `context.c`, `rockchip_drv_video.c`) | |
| `Capabilities` | profiles, attributes, configs, surface attributes and the checks of `vaCreateSurfaces2`, `vaCreateContext` and `vaBeginPicture` | |
| `DecodeWorkerProofs`, `DecodePoolProofs`, `SurfaceExportProofs` | theorems about the module in the name | |
| `DriverReferencesProofs`, `DriverObjectsProofs` | theorems about `DriverObjects`: the first has the invariants and the balance of the counts, the second the resources and the theorems | |
| `ImageEncoderProofs` | theorems about `SurfaceImage` and `Encoder` | |
| `DriverTablesProofs` | theorems about `ObjectHeap` and `Capabilities` | |
| `PictureAssemblyProofs` | theorems about `PictureAssembly` and `Bitstream` | |
| `MC...` | constants for TLC | |

Actions and helpers carry the names of the C functions they model; a function
that releases a lock or waits is split there, and each section has its own
name (`assign_bind`, `stall_timeout`, `eos_begin`). Variables carry the names of
struct fields; where several fields always change together one variable stands
for them, and its declaration says so. Ghost variables are marked as such, and
no guard reads one. `PROJECT.json` gives the lines behind every definition.

The components meet at interfaces rather than in one product, which would be far
beyond TLC. `DecodeWorker` leaves to `DecodePool` why a push can fail and to
`PictureAssembly` what a packet holds. `SurfaceExport` takes from
`DecodeWorker` that each begun picture reaches the worker once and is settled.
`DecodePool` takes from `DecodeWorker` that a frame is routed to its picture.
All of them take from `ObjectHeap` that an object they hold a reference to is
not destroyed, and from `DriverObjects` that the driver holds the references it
needs. `DriverObjects` takes from `ObjectHeap` that a handle finds its own
object or none, so its handles are names that are never used again. `Bitstream`
gives the bits of what `PictureAssembly` names, and the kinds of VP9 picture of
`DecodeWorker` are the verdicts of `Vp9Header`. `SurfaceImage` gives the bytes of
the layouts that are a pitch in `SurfaceExport`.

Operators whose comment starts with *Slip* are deliberately wrong variants of
the definition after them. Substituting one makes TLC violate the property
`PROJECT.json` names beside it, which shows that the property can fail.

## 3. The runs

All bounds are CONSTANTS. Run one with
`tlc -config MCDecode.cfg MCDecodeWorker`.

| run | shows | size (distinct states) and why it is enough |
|---|---|---|
| `heap` | handle, free-list and lifetime invariants; no lost slot; dead handles stay dead; refinement of the registry | 4 objects, 2 slots, generations 1..2, 2 holders (131 610): slots are reused, retired and all used up, the array grows once, made-up handles are passed in. The theorems of section 5 remove the bounds |
| `decode` | for all codecs: own picture shown, no fence lost, routes counted and freed once, end of stream last, `SurfaceFence` implemented, fences settle, destroy returns | 2 surfaces, 3 begins, so that one surface is reused while its first picture is in flight and another competes for MPP (342 549). H.264 has frames, field pairs and single fields; HEVC may lose packets and stall; VP9 has hidden frames with a synthetic repeat, unreferenced and empty pictures |
| `export` | retained DMA-BUFs and derived images show the current picture with the right geometry; no late copy; waits end | 2 threads, 2 pictures on one CIF NV12 surface, private pitch 384 against MPP's 352, so that rebinding changes the geometry and the MPP buffer needs a repack (165 970) |
| `encode` | split as declared, own packet, whole packet, under any order and repetition of parameters, with a thread that syncs and one that resizes the coded buffer at any moment | 64x96 with CTUs of 32 and of 64, so that a picture has 6 CTUs in rows of 2 or 2 in rows of 1; slices of 0, 1, 2 and 4 CTUs; 2 pictures into one coded buffer of two sizes, so that a buffer is reused, overflows and is resized; slice types are interchangeable (726 372). HEVC's control is a superset of H.264's |
| `pool` | no overwrite of a shown buffer, exact pool lifetime, growth counted in time, pushes fail only when no buffer can be had, starvation ends | 2 surfaces, pool 1 to 3, one reference buffer, 3 pictures, 2 buffer sizes, both output formats, allocation failures (515 896). The code's relation 500 >= 25 * (growths + 1) between push tries and starvation tries is kept, and stated as an assumption |
| `assemble` | MPP decodes each picture with the parameters declared for it; packets hold exactly their slices | all codecs, H.264 below and at High profile, 2 sequences of which one has scaling lists, 2 slices, 2 pictures ended and any number abandoned (302 072) |
| `headers` | written parameter sets, read by the standards' syntax, say what the application said; rewritten slices keep references, fields, data and emulation prevention; legal pictures are accepted; the level admits the picture; VP9 frames are understood | 7 868 inputs (15 736 states): every pair of groups of HEVC and of H.264 parameters at once, with the boundary values of each; slices of every shape against every combination of short-term and long-term sets; all VP9 headers; all payloads of up to 6 bytes over {0, 1, 3, 4}; at most `ListBound` = 3 references of a kind, a longer list is a failure of the decoder and so of the property |
| `images` | no copy leaves its buffer; a picture that was drawn, imported or decoded arrives sample by sample | surfaces of every format, own and imported from one or two objects, each pitch at, below and above the width; frames with the pitches of H.264, HEVC and VP9, of another depth than the surface and larger than its storage; words of 11 and 17 bits, so that products wrap at sizes TLC can enumerate (90 896) |
| `objects` | counts are exact; no resource is lost or closed twice; a failed call undoes itself | one thread creates, both use, acquire and release handles and destroy, every step may fail, 3 objects in a behaviour (1 032 285): the longest chain of references, image to buffer to surface or job to context and surface, has three. MPP's buffers behind a decoded picture are in `pool` |
| `capabilities` | every call is accepted exactly where the advertisement, less its five silent limits, says so | every setting of the two environment gates, any list of up to 3 config attributes, every advertised pair of format and memory, surface attributes in any order, widths at both sides of the two limits, odd and even (127 326) |
| `vp9_late_frame`, `pool_demand` | a counterexample each, see section 6 | |

The inputs of `headers` are initial states with one step each: TLC is used to
evaluate the driver's functions against the standards' tables.

Deadlock is checked in all passing runs but four. The heap, the pool and the
assembly may stop: after `vaTerminate`, after teardown, or when the bound on
pictures is reached; in `headers` every input is handled once.

## 4. Fairness

* `DecodeWorker`: weak fairness of the worker thread (each of its waits has a
  time limit: 20 ms for output, bounded retries for input), of a BeginPicture or
  EndPicture call that has left `picture_lock` (it will enqueue its job or fail
  the abandoned picture), of the drain deadline (a clock), and of the
  join after the worker's exit. The application is never obliged to do anything,
  and MPP owes nothing beyond what `MppLoses` and `MppStalls` say of the codec.
* `SurfaceExport`: weak fairness of the worker, which stands for
  `FencesSettle`, and of a thread inside a call.
* `DecodePool`: weak fairness of the worker, and of MPP as long as it has both
  input and a buffer. The application may keep its surfaces for ever.

The other modules have no liveness property: their calls do not wait for
another thread of the driver.

## 5. The proofs

### The heap

`DriverTablesProofs` proves, for every set of objects and holders, every heap
size up to 2^20 slots, every generation limit up to 255 and every set of
handles an application may pass:

| theorem | statement |
|---|---|
| `HeapTypes` | `Spec => []TypeOK` |
| `FreeListCorrect` | `Spec => []FreeListSound` |
| `CountCorrect` | `Spec => []CountExact` |
| `LifetimeCorrect` | `Spec => []LifetimeExact` |
| `HandleCorrect` | `Spec => []HandleNamesOneObject` |
| `NoSlotIsLost` | `Spec => []NoSlotLeaks` |
| `DeadHandlesStayDead` | `Spec => DeadHandleStaysDead`, an action property |
| `HeapImplementsRegistry` | `Spec => ImplementsRegistry`: refinement of `ObjectRegistry` |

*Assumptions.* `HeapAssumption` (the heap's limits fit the bit fields of a
handle, the holders are finite, types are 1 to 5) and `HandlesAssumption` (the
handles considered include those the heap can issue). Both are evaluated by TLC
on the `heap` run. The prover checks everything else down to the last leaf.

*Argument.* None of the properties is inductive. `HeapCorrect` proves the
inductive invariant `HeapInv`, the conjunction of
* `SlotInv`: types; the free list leads from `free_head` through empty,
  unretired slots below the high-water mark without meeting one twice; every
  occupied slot's object has the handle made of that slot's index and
  generation; handles issued earlier from a slot have smaller generations;
* `RefsExact`: the counter of an object is the number of its holders plus one
  for its slot;
* `LifetimeExact` and `CountExact`.

Handles stay unique because a slot's generation only grows and a slot at the
limit is retired, so that index and generation together are never issued twice;
the lemmas about `make_id` and its three inverse operators show that packing
loses nothing. Insert is the delicate step: the lemma `InsertOccupies` covers
reused and fresh slots alike. One outcome of the proof is that the rejection
branch after the pop of the free list cannot be reached. `NoSlotIsLost` needs
`ListInv` besides: some sequence of the free slots follows the links from
`free_head`; a removal puts its slot in front of it and a reuse takes its head.
The refinement maps
issued, resolving and used objects of the registry to `id`, `InHeap` and
`holders` / `life`; every heap step is a registry step or a stutter.

### Driver objects

`DriverObjectsProofs` and `DriverReferencesProofs` cover any number of threads,
objects, surfaces in a call and jobs, every step of every call able to fail,
from `ObjectsAssumption` (the threads are finitely many, creators and players
are among them).

| theorem | statement |
|---|---|
| `RefsAlwaysExact` | `Spec => []RefsExact` |
| `FailureLeavesNothing` | `Spec => []AllOrNothing` |
| `NothingIsLost` | `Spec => []RawExact` if `~SharedHandles` |

*Counts.* `RefsExact` equates the counter of an object with the sum of its heap
entry, the links to it from all other objects, and the references in the local
variables and the unfinished duties of all calls. The lemmas about `Occurrences`
come first: one entry more or less in one list of a family changes the sum by
one, and nothing else does. `RefInv` adds to the balance what tells which entry
a step changes: which step belongs to which call and what it holds there
(`CallsFit`), which type of object each link and each local reference names
(`LinksFit`, `NamesFit`), and that the driver is idle once it is down
(`DownFits`). Destruction is in steps as in the code: the destructor's
references join what the call still owes, at its front, so a chain image,
buffer, surface is released link by link with other threads in between, and the
balance holds throughout.

*Failure.* A call that failed has no object in a heap when it returns. While it
is still working, each handle it made is out of the heaps already or among those
it will remove (`Undone`), and no object that is still nameless is among them
(`Nameless`).

*Resources.* `RawFits` says that what an object or a call has is open, by the
step it is at. `Tight` is the converse, that everything open has an owner; a
descriptor closed twice would leave a mark that has none. It needs `Exclusive`:
a thread between the check and the store of `vaAcquireBufferHandle` or
`vaReleaseBufferHandle` (`Resting`) is the only one at the handle of that buffer
and still finds what it saw. The driver does not see to that, so it is the
hypothesis `~SharedHandles`; without it TLC refutes `RawExact` both ways, a
duplicate is lost or a descriptor is closed twice (section 6). The counts need
no such hypothesis: `RefsAlwaysExact` is about references alone.

### Surface storage

`SurfaceExportProofs` covers any number of threads and pictures, both formats
and every pair of pitches, from `ExportAssumption` (pitches are positive, "no
image" is not an image).

| theorem | statement |
|---|---|
| `ExportTypes`, `ReadersSeeCurrent` | `Spec => []TypeOK`, `Spec => []SeesCurrentPicture` |
| `NoCopyIsLate` | `Spec => NoLateCopy`, an action property |
| `RetainedFdCorrect`, `RetainedGeometryCorrect`, `ImageGeometryCorrect` | `~BeginDuringAccess => (Spec => []...)` of the property in the name |

The first group needs `FenceInv`: a picture is in flight, with the worker, or
settled, and never two of these; a decoded surface has the picture of its fence
in the bound frame or, if it was copied, in the placeholder; a repacked copy
holds the picture of the fence it is filed under. The second group needs
`StableInv` as well: a thread about to export has seen the surface decoded or
never used, so a surface turns stable before its first picture or not at all;
the worker's decision to copy therefore still stands when it binds, and the
placeholder keeps its pitch. `ImageInv` adds that an image with another pitch
belongs to a surface that can no longer turn stable. `BeginDuringAccess` breaks
exactly the first conjunct of `StableInv`; section 6 has the behaviour.

### The decode context

`DecodeWorkerProofs` covers any number of surfaces, pictures and calls under
way, from `DecodeAssumption` (the codecs and kinds are those of the code).

| theorem | statement |
|---|---|
| `DecodeTypes`, `EosComesLast` | `Spec => []TypeOK`, `Spec => []EosAfterAllInput` |
| `FencesAreKept` | `Spec => []NoFenceLost` |
| `RoutesAreCounted` | `Spec => []RoutesCounted` if `"VP9" \notin MppStalls` |
| `ShowsItsOwn` | `Spec => []ShowsItsOwnPicture` if MPP neither loses nor stalls VP9 frames and `"AVC" \notin ReuseInFlight` |
| `ContextImplementsFence` | `Spec => ImplementsFence` under the same conditions: refinement of `SurfaceFence`, for HEVC and VP9 |

The first three hold whatever MPP does. Their invariant `FenceInv` says where
calls and worker are (`Phased`), that tokens grow along the queue and that what
is routed or inside MPP is older than what is queued (`Numbered`), that a route
of the picture being pushed carries its fence (`Routed`), that everything which
carries a fence carries one that was given out (`Behind`), and that a VP9
picture whose route is gone needs it no more (`Forgettable`): a frame that comes
while its packet is being retried may consume the route of that packet.
Counting adds `Fed` (the FIFO is in submission order and every VP9 packet inside
MPP has its route there) and `Balanced` (`outstanding_frames` is the number of
routes, less the one whose packet is not in yet, plus the one whose frame is
being assigned). The right picture adds `InStep` (every VP9 route waits for a
packet), `Matched` (a packet holds the picture of the route with its token) and
`Wanted` (what carries a current fence carries the picture last begun); stale
carriers are exempt from all of them, which is what reuse in flight needs. A
picture that the next BeginPicture abandons is among the carriers until it is
failed, which happens after `picture_lock` was released (`context.c:374`): its
surface may have a newer fence by then, and the verdict is dropped. The
refinement adds that a fence has one carrier (`Single`) which finds it pending
(`Open`). The conditions are the first two rows of the table in section 6: VP9
has no tokens, so a late frame cannot be told from the next one, and an H.264
surface reused between fields keeps its fence.

### The decode pool

`DecodePoolProofs` covers any number of surfaces, buffers, pictures and tries,
from `PoolAssumption`, which keeps the code's relation between push tries,
starvation tries and growths.

| theorem | statement |
|---|---|
| `PoolTypes`, `PoolLifetime` | `Spec => []TypeOK`, `Spec => []PoolAliveWhileUsed` |
| `FramesRecognised` | `Spec => []FramesMatchPool` |
| `ShownIsStable` | `Spec => []ShownNotOverwritten` |
| `PushFailsExhausted` | `Spec => PushFailsOnlyExhausted`, an action property |

`PoolInv` is the conjunction of `Counted` (references are the context's and the
bound surfaces'; the group holds the counted buffers and those of a growth under
way), `Staged` (a push has its job at the head of the queue; a context that is
gone has left nothing behind), `Framed` (every frame that is not an info change
is in a buffer of the pool that holds its picture), `Shown` (a surface that shows
a buffer holds its frame and the pool, and the buffer has the surface's picture)
and `Tried`, the arithmetic behind the action property: a push that drained no
frame and met no failed allocation has grown the pool once for every
`StarvedTries` of its tries, so its tries end after the pool is full.

### Picture assembly

`PictureAssemblyProofs` covers any stream: any sequences, numbers of slices and
pictures, and any lag of the worker, from `AssemblyAssumption`.

| theorem | statement |
|---|---|
| `AssemblyTypes`, `PacketsAreWhole` | `Spec => []TypeOK`, `Spec => []PacketHoldsItsSlices` if `SlicesKept` |
| `DecodesAsDeclared` | `Spec => []DecodedAsDeclared` if `SlicesKept` and `JobsArrive` |

`SlicesKept` says that slice buffers live until EndPicture, `JobsArrive` that a
begun H.264 job, of either kind of profile, is finished and that H.264 and HEVC
jobs reach MPP; section 6 has what happens without them. `AssemblyInv` ties
what RenderPicture collected to the picture under way (`Collected`,
`Snapshots`) and every job to the packet its picture ought to have (`Packed`).
`Chained` is the invariant of the headers that are left out: a job without a
sequence header follows, in the queue or in MPP, a job of the same sequence,
and what the context remembers as sent is what MPP will have active when the
queue is empty.

### Headers

`PictureAssemblyProofs` also proves, about `Bitstream`:

| theorem | statement |
|---|---|
| `EscapingIsSound` | `HeaderSpec => []EscapeSound`, for every payload |
| `LegalVp9IsAccepted` | `HeaderSpec => [](Answered("vp9") => output.value # Refused)`, the VP9 part of `LegalIsAccepted` |
| `Vp9HeaderUnderstood` | `HeaderSpec => []Vp9FrameUnderstood`, for every legal frame |
| `LevelIsLeast` | the level `h264_derive_level_idc` picks is the lowest of Table A-1 for the picture, for every size and number of reference frames |
| `HevcLevelHolds` | the level `derive_level_idc` picks holds the picture, for every size that a level of Table A.8 holds |

They assume only types: payloads are sequences of bytes (`PayloadAssumption`),
the fields of a VP9 frame have their ranges (`Vp9Assumption`).

*Induction.* The library's induction theorems are out of reach, so two lemmas
replace them: `Induction` is about a set of numbers (a counterexample would have
a least one, and the order of the naturals is well founded), and `Recursion`
shows that a recursion over an interval has a run, so that the `CHOOSE` in the
meaning of a recursive function finds it.

*Emulation prevention.* `Settled` is the invariant of the loop: the output so
far is free of start codes, and the counter is the number of zeros it ends in,
up to two. That unescaping gives the payload back follows turn by turn, since
bytes already written stay and an inserted 3 is the only one a decoder drops.

*VP9.* `vp9.c` skips the fields it has no use for without parsing them, so the
proof compares positions. `HeaderIsFields` turns the nested definition of a
legal header into a list of 16 fields that are each there or not; `ParsedBy`
unfolds the driver's reader into one step for each element. Then one induction:
after n elements the parser stands where the writer stood (`CodedAsWritten`),
has accepted them (`AcceptedAsWritten`) and recorded their values (`Knows`).
`ShowPacketBits` evaluates the packet made for a hidden frame.

*Levels.* The driver's table has 12 of the 19 rows: `DriverRowFor` shows that
each row left out has the limits of a lower one, and `AdmitsFits` that the
driver's product of frame size and references is the standard's rounded
quotient.

### The encoder

`ImageEncoderProofs` covers any number of buffers, pictures, slices and sizes of
the encoder, from `EncoderAssumption`.

| theorem | statement |
|---|---|
| `EncoderTypes` | `EncoderSpec => []TypeOK`: among others, the sum of slice units stays in range |
| `SplitCorrect` | `EncoderSpec => []SplitAsDeclared` |
| `CodedFitsCorrect` | `EncoderSpec => []CodedFits` |
| `CodedPictureCorrect` | `~MppLate => (EncoderSpec => []CodedHoldsItsPicture)` |

`SplitInv` needs no sum over the slices: all of them but the last have the
length of the first, so the k-th starts at (k - 1) times that length
(`Tiled`), and EndPicture's checks close the tiling.

The two theorems about coded buffers hold for any number of syncing threads,
with a resize under way at any moment, and each store and read of the two flags
a step of its own. They are about the calls of `Synced`: a call that runs between
the stores of `coded_ready` and `coded_failed` of a failing EndPicture, or that
meets a resize, or follows a resize that overlapped EndPicture's stores, may
succeed on a buffer without a packet, and nothing in the driver prevents it
(section 6). A buffer is `Sound` if it would sync and is in none of these
states. `FitInv` says that a sound buffer holds a packet that fits; `EndInv` that
EndPicture has a picture and a buffer while it works, and that the buffer is not
ready from the first store to the verdict; `LookInv` that a call which has met
nothing looks at a buffer that is neither failed nor being resized, which ties
the first of its two reads to the second; `InStep` that MPP holds exactly the
frame EndPicture waits for and that this frame's picture is the one the buffer
was passed for. A late packet breaks `InStep`, as section 6 shows.

### Images

`ImageEncoderProofs` also proves `CopiesInside`, `Spec => []CopiesStayInside` for
every request, image and frame and for every width of `size_t` and of
`unsigned int`, if `~BindDuringPut`, `~CopyDerived` and `~EncodeDecoded` (section
6). It assumes
what C's types give: an imported descriptor's pitches and heights are `unsigned
int`, so the products of them fit a `size_t` (`RequestAssumption`), and so does
the largest image (`ImageAssumption`). Lemmas about `FrameLayout` show that a
layout size that is not refused is the true sum of the planes, with no product
wrapped. `CopyInv` carries what the copies do not check again: an imported
surface's planes lie in its objects and it is never decoded into, a surface
before its first picture has the geometry its placeholder was made for, an
image's storage is its capacity, and what `vaPutImage` checked before it took
the lock still holds when it copies.

`PicturesSurvive` is `Spec => []ImageSurvives` under the same assumptions and
`FramesPadded`: the rows of MPP's frames have room for their pictures, which
`assign_mpp_frame` checks of ten-bit frames only (`mpp_dec.c:520-530`). A frame
of any format may be bound to a surface of any fourcc, and the surface then takes
the frame's depth (`mpp_dec.c:641`). `vaPutImage` and `vaGetImage` copy with that
depth, so their clauses are about images of the same depth (`SameDepth`); and
`vaPutImage` writes into the surface's own storage, so its clause is about a
surface that shows no frame. Section 6 has both. The argument has three layers.

* Addresses. Row and column are found again in an address by division and
  remainder with the pitch (`RowAndColumn`), so that a copy of rows takes a byte
  to its own row and column (`CopyRowsAt`) and writes nowhere else
  (`CopyRowsDomain`); the same of the loops that split and join pairs of U and V
  (`InterleavedAt`, `HalvedAt`).
* Layouts. One whose rows have room and whose luma ends before its chroma gives
  no two samples one address (`NvDistinct`), so a memory made to hold a picture
  shows it. From this, `NvCopied`, `PlanarPut` and `PlanarGet`: each pair of
  copies moves a whole picture from one layout to the other.
* Steps. `PixelInv` says what the copies rely on: the planes of an image follow
  one another, so that no offset wrapped when `vaCreateImage` computed it in
  `unsigned int` (`PlanesApart`); the rows of an import have room and its objects
  show the application's picture (`ImportRoom`, `ImportShown`); a surface that is
  not decoded has no frame bound, so a picture copied into the exported storage
  is also the one readers resolve to, and an imported surface has the depth of
  its fourcc (`Bound`); every buffer's contents are at
  natural addresses. TLC checked `PixelInv` on the run's instance before it was
  proved.

### Capabilities

`DriverTablesProofs` also proves `AdvertisedCorrect`, `NegotiationSpec =>
[]AdvertisedIsAccepted`, for every width, list of attributes and limit that is a
multiple of 16 (`CapabilityAssumption`), if ten-bit profiles are offered only
where RGA can convert them (`TenBitConverts`). The application may ask for every
pair of an advertised format and an advertised memory type, for any width and
with any list of advertised attributes. `ConfigPromised`, `SurfacePromised`,
`ContextPromised` and `PicturePromised` say which of these it may take for
granted, and the theorem says that exactly these are accepted: the driver keeps
every promise, and the five limits the promises name are all the limits there
are (section 6 lists them with their lines). The invariant says that what was
advertised is what the driver supports now (`OffersStand`) and that config,
surface and context were made out of it (`ConfigStands`, `SurfaceStands`,
`ContextStands`).

`TypeOK`, `CountExact` and `RetainedGeometry` are proved and no longer part of a
run: the theorems cover every instance a run could.

### Model-checked only

* `FencesSettle`, `DestroyReturns`, `AccessReturns` and `StarvationEnds`: the
  prover does not handle fairness.
* `SliceSurvives`, `ParametersSurvive` and `LevelAdmitsPicture`, and
  `LegalIsAccepted` for HEVC and H.264. They relate bit strings, with
  Exp-Golomb codes and lists of variable length, to tables of syntax elements
  read by folds that build up records with `@@`, which the provers cannot
  expand. The arithmetic inside `LevelAdmitsPicture` is proved on its own
  (`LevelIsLeast`, `HevcLevelHolds`).

## 6. Where code and documents disagree

Two of these have a run that ends in a counterexample, and an entry under
`findings` with both quotations.

* `vp9_late_frame`: when the stall timer has dropped the VP9 routes, the frame
  that comes late takes the route of the next picture.
* `pool_demand`: only a rejected push grows the pool. When MPP has accepted
  every packet and then starves, the stall timer fails the pictures although
  the pool could grow. `StarvationEnds` holds all the same.

More behaviours were seen with TLC and lie outside the assumptions of the
passing runs. Setting the constant named here brings each one back.

| behaviour | constant | property refuted |
|---|---|---|
| a late VP9 frame consumes the route being pushed, and a failing push frees it again (`mpp_dec.c:1294`) | `MppStalls = {"VP9"}` | `RoutesCounted` |
| a picture begun on a surface with a pending single field counts as its second field (`context.c:338`) | `"AVC" \in ReuseInFlight` | `ShowsItsOwnPicture` |
| an export that overlaps BeginPicture marks the surface stable after the worker has decided against copying: the retained buffer misses that picture, although "Completed pictures must be copied back into priv_buf" (`driver_internal.h:178`, `export.c:127`) | `BeginDuringAccess = TRUE` | `RetainedFdShowsPicture` |
| after a packet timeout the next coded buffer gets the previous picture's packet (`mpp_enc.c:556`) | `MppLate = TRUE` | `CodedHoldsItsPicture` |
| a failing EndPicture stores `coded_ready` before `coded_failed`, without a lock (`mpp_enc.c:575-576`; on overflow also `buffer.c:270-271`): a sync in between succeeds on a buffer without its packet (`rockchip_drv_video.c:611-614`), although "Coded-buffer overflow fails closed" (`docs/DEVELOPMENT.md:579`); and `vaBufferSetNumElements` takes no lock either (`buffer.c:183-215`) | none: the run has these steps | `CodedHoldsItsPicture` and `CodedFits` without the conditions `clean` and `raced` of `Synced` |
| sequence parameters sent after the slices change the CTU size the slices were checked with (`mpp_enc.c:413`) | none: the run has two CTU sizes | the row clause of `SplitAsDeclared` without its condition `SameRows` |
| slice data is only named at RenderPicture, so buffers destroyed before EndPicture drop out of the packet, although "applications may destroy the VA buffers as soon as RenderPicture returns" (`context.c:452`) | `"slice_data" \in EarlyDestroy` | `PacketHoldsItsSlices` |
| `sps_sent` is set although the job was not finished (`mpp_dec.c:886`) | `"AVC"` or `"AVC_HIGH"` in `BuildFails` | `DecodedAsDeclared` |
| the HEVC bundle counts as sent although its push failed (`mpp_dec.c:1477`) | `"HEVC" \in PushFails` | `DecodedAsDeclared` |
| `vaPutImage` checks the image against the surface before it takes the lock; a frame of another size bound in between is copied with the new size (`buffer.c:774`) | `BindDuringPut = TRUE` | `CopiesStayInside` |
| a derived image's buffer has one byte of memory of its own and the capacity of the surface: `vaGetImage` and `vaPutImage` given such an image copy past it (`surface.c:775`, `buffer.c:786`) | `CopyDerived = TRUE` | `CopiesStayInside` |
| `vaPutImage` into a surface with a bound frame writes the surface's own storage, while readers resolve to the frame: the picture put is not the one read back (`buffer.c:806` against `surface.c:747-751`) | none: the run has these steps | the first clause of `ImageSurvives` without its condition on `Source` |
| a frame of another depth than the surface's fourcc changes the width of the samples that `vaPutImage` and `vaGetImage` copy, while the image keeps its own (`mpp_dec.c:641`) | none: the run has these steps | `ImageSurvives` without `SameDepth` |
| encoding a surface that was decoded into submits its own storage with the size and strides of the frame that is bound to it, which may be larger (`mpp_enc.c:518-545`) | `EncodeDecoded = TRUE` | `CopiesStayInside` |
| two threads that acquire the handle of one buffer both duplicate its descriptor, and one is lost (`buffer.c:332`); two that release it, or find the surface of a derived image bound anew, both close it (`buffer.c:362-365`, `buffer.c:117-130`) | `SharedHandles = TRUE` | `RawExact` |
| a ten-bit profile is advertised without RGA and then refused by `vaCreateContext` (`context.c:197`) | `HaveRga = FALSE` | `AdvertisedIsAccepted` |

Five limits of the driver are told by no attribute, so an application that asks
for what was advertised can be refused. The `capabilities` run has all of these
refusals, and the promises of `Capabilities` name them:

* `vaGetConfigAttributes` returns attributes that only describe the encoder, and
  `vaCreateConfig` refuses them (`rockchip_drv_video.c:342-343`);
* formats and memory types are advertised side by side
  (`rockchip_drv_video.c:526-551`), but RGB comes only in imported memory and
  planar YUV only in the driver's (`surface.c:616-620`);
* of the formats only NV12 may have an odd width (`surface.c:114`,
  `surface.c:238-240`);
* ten-bit pictures narrower than 68 are refused by `vaCreateContext`
  (`context.c:91-96`);
* imported memory is advertised for decoding as well, and `vaBeginPicture`
  refuses such a surface (`context.c:329`).

`ImplementsFence` maps the surfaces of an H.264 context to idle ones: abandoning
the second BeginPicture of a pair fails the shared fence while the first field
is still in flight, and its frame may then still settle it as decoded.

`vaQuerySurfaceStatus` answers "rendering" for a picture that failed, since it
looks at `decoded` alone (`surface.c:701`); it is a read whose answer VA-API
leaves open, and no property is about it.

## 7. Abstractions

*DecodeWorker.* One context. Retry counts become a nondeterministic give-up
(`DecodePool` has the counters). Failing to allocate a route has the effect of a
failed push. Info-change frames leave this state alone. Whether a frame is
usable is nondeterministic. MPP returns token-routed frames in any order, VP9
frames in submission order, one for each shown packet. Tokens and fences are
unbounded naturals: a 64-bit counter does not wrap in the life of a context.
A call that has left `picture_lock` keeps what it still has to do in `built`: a
job to enqueue or an abandoned picture to fail. With one context a surface's
`ctx_id` is always its own. The worker's wait for MPP and the read after it are
one step. Token routes are
a set, which tokens make equivalent to the list. The picture EndPicture
assembles is reduced to its kind. `rk_mpp_dec_stop` refusing to run on the
worker thread is unreachable, since every caller holds a context reference.

*PictureAssembly.* One application thread, EndPicture and enqueue in one step.
Of the H.264 profile only whether it is High or above is kept: below it the
driver passes no scaling matrices, and a decoder of such a stream has none.
A parameter set is named by the fields it is written from, the writers being
injective in them. A new sequence starts with an IDR picture, and HEVC matrices
come exactly when the sequence enables scaling lists. A refusal to store a
buffer name changes nothing and is left out.

*DecodePool.* Begin to enqueue is one step, and so are reading and assigning a
frame; `DecodeWorker` has the races between them. MPP uses any free committed
buffer that is large enough, keeps at most `Dpb` references and decodes in
order. The stall timer fires only when MPP cannot run. No field pairs.

*SurfaceExport.* One driver-owned decode surface, no field pairs. A picture is
named by its fence, a pitch stands for the layout. `ctx_id` is nonzero exactly
after the first BeginPicture.

*Encoder.* EndPicture holds `picture_lock`, so calls on a context are
sequential; other threads sync and resize coded buffers meanwhile. The two flags
of a coded buffer are plain `bool`s: each store and read is a step of its own, in
program order, as the compiled driver does them; an optimiser or processor that
reordered them would add behaviours. The storage and the length change in one
step. Calls that are
refused without a change of state are left out. One frame gives one packet. The
MPP keys of `configure_encoder` are reduced to the slice split.

*Bitstream.* Parameter sets are sequences of syntax elements, slices and VP9
headers are bits; the bytes of a parameter set follow from its elements by
`BitSyntax`, whose escaping is checked on its own. `uint32_t` is 16 bits wide in
the run and `UINT16_MAX` scales with it, because TLC's integers end at 2^31. The
tail of a slice header after the reference sets is a short bit string: the
rewriter copies it unread. Destination buffers are large enough, as the callers
size them for the worst case.

*SurfaceImage.* A memory holds samples, each naming picture, component, row,
column and byte. Of a plane the first two and the last rows and columns are
followed, which is where a wrong pitch, offset or height shows; every row that
is touched is checked against its buffer. RGA copies the rectangles it is asked
to copy. One surface, one image; calls run to their end except for the unlocked
part of `vaPutImage`. A frame's format is NV12, linear ten-bit or compressed
ten-bit. Reading a derived image through its mapping is in
`SurfaceExport`.

*DriverObjects.* A call is a record of the step it is at and of what it still
owes: the references and handles it has to give back before its next step. Each
step may fail or touches shared state, and a step that fails leaves the code's
cleanup as what is owed. The check, the system call and the store of acquiring,
releasing and dropping a handle are steps of their own, since no lock joins them.
A destructor's own references are owed in the same way,
one step each, by the thread that dropped the last reference. Allocations that
fail together have one step. Threads have roles, creating or using, which keeps
all pairs of calls that share an object. `vaTerminate` is taken when no call is
under way, as VA-API demands. Decoders refuse imported surfaces, so an imported
buffer never meets a decoded one. Contents of objects are left out.

*Capabilities.* A wish is any surface format and memory type that were
advertised and any width; heights behave alike. The attributes an application
passes are those advertised to it, and besides them profiles and widths that
were not.

*ObjectHeap.* Memory of a destroyed object is not reused for another one in the
model; C callers meet an object only through counted references.

## 8. What is not modelled

Entry points that always answer "unimplemented" or copy a constant table (image
formats, display attributes, subpictures), logging and the command line tests:
they keep no state and decide nothing. What RGA computes when it converts
colours or decompresses AFBC, and MPP, DRM and libva themselves, are external
and appear only as far as the driver relies on them. The MPP keys
`configure_encoder` sets besides the slice split are values passed through.
The product of all modules is beyond TLC; section 2 names what each takes from
the others.

## 9. Plan

1. Done: every module of section 2; theorems about all safety invariants of the
   heap, the driver's objects, the decode context, the pool, picture assembly,
   surface storage, the encoder and capabilities, of every image copy, and of
   emulation prevention and the VP9 header in `Bitstream`.
2. Next theorems: the tables of `ParameterSyntax` as functions rather than folds,
   with which `ParametersSurvive` of one parameter set comes within the prover's
   reach; after it the fields in front of the reference picture sets in
   `SliceSurvives`, whose reader `ParsedBy` already unfolds for VP9.
3. Larger steps: a second context on the same surface in `DecodeWorker`, and
   frames MPP emits twice for a field pair in `SurfaceExport`.
