----------------------------- MODULE DecodePool -----------------------------
(***************************************************************************)
(* The external buffer pool of a decode context (mpp_dec.c): its creation  *)
(* on MPP's info-change frame, the buffers' way from MPP to a VA surface   *)
(* and back, growth when a push finds MPP starved of output buffers, and   *)
(* the shared lifetime of the pool (context, then surfaces).               *)
(*                                                                         *)
(* A picture is begun, rendered, ended and queued in one step here; what   *)
(* can happen between those calls is the subject of DecodeWorker.          *)
(***************************************************************************)
EXTENDS Integers, Sequences, FiniteSets

CONSTANTS
  Surfaces,
  PoolCount,      \* EXTERNAL_POOL_COUNT
  PoolMax,        \* EXTERNAL_POOL_MAX
  PoolGrow,       \* EXTERNAL_POOL_GROW
  StarvedTries,   \* STARVED_TRIES
  PutTries,       \* the 500 tries of put_packet_draining
  InputSlots,     \* packets MPP takes before it rejects one
  Dpb,            \* buffers MPP keeps as references at most
  Conservative,   \* rk_surface_buffer_size of the context's dimensions
  Sizes,          \* bound: buffer sizes MPP may ask for
  MaxPictures,    \* bound: pictures the application submits
  Hevc,           \* c->coding is HEVC: one frame is read after each push
  Formats,        \* bound: "NV12" or "NV15" output, NV15 is converted
  AllocFails      \* backing buffers may run out

ASSUME PoolAssumption ==
  /\ IsFiniteSet(Surfaces)
  /\ {PoolCount, PoolMax, PoolGrow, StarvedTries, PutTries, InputSlots}
       \subseteq Nat \ {0}
  /\ PoolCount <= PoolMax
  /\ {Dpb, Conservative, MaxPictures} \subseteq Nat
  /\ Sizes \subseteq Nat \ {0}
  /\ {Hevc, AllocFails} \subseteq BOOLEAN
  /\ Formats \subseteq {"NV12", "NV15"}
  \* Every growth a starved push can need fits in its tries.
  /\ \E n \in 0 .. PoolMax : /\ PoolCount + n * PoolGrow >= PoolMax
                             /\ PutTries >= StarvedTries * (n + 1)

VARIABLES
  \* RKDecodePool
  pool,           \* "none", "alive" or "destroyed"
  refs,           \* pool->base's reference count
  count, buffer_size,
  committed,      \* the indices in pool->frame_group
  \* RKSurface
  app,            \* the application has not destroyed the surface
  status,         \* "idle", "pending", "decoded", "failed" for its picture
  want,           \* the picture last begun on it: stands for the fence
  frame,          \* pool buffer held by s->frame, or NoBuf
  backing,        \* pool buffer, or Private, in s->backing_buf, or NoBuf
  has_pool,       \* s->decode_pool # NULL
  \* RKContext
  ctx,            \* "live", "stopping", "gone"
  jobs, routes,
  pictures,       \* pictures submitted so far; numbers the next one
  \* the worker inside put_packet_draining
  pc,             \* "loop", "put", "full", "grow", "after"
  tries, starved,
  added,          \* buffers committed by the growth under way
  got_frame,      \* ghost: this push has drained a frame
  no_memory,      \* ghost: a commit of this push failed
  \* MPP
  format,         \* of the stream: "NV12" or "NV15"
  need,           \* buffer size MPP asked for, 0 before the first frame
  info_ready,     \* MPP_DEC_SET_INFO_CHANGE_READY was sent
  input,          \* packets accepted and not decoded
  refset,         \* buffers MPP keeps as references
  out,            \* frames ready for decode_get_frame
  content         \* ghost: the picture each buffer holds

poolVars == <<pool, refs, count, buffer_size, committed>>
surfVars == <<app, status, want, frame, backing, has_pool>>
ctxVars  == <<ctx, jobs, routes, pictures>>
putVars  == <<pc, tries, starved, added, got_frame, no_memory>>
mppVars  == <<format, need, info_ready, input, refset, out, content>>

vars == <<poolVars, surfVars, ctxVars, putVars, mppVars>>

NoBuf   == -1     \* NULL, or a buffer that is not from the pool
Private == -2     \* a converted buffer out of pool->backing_group
Indices == 0 .. PoolMax - 1

Init ==
  /\ pool = "none" /\ refs = 0 /\ count = 0 /\ buffer_size = 0
  /\ committed = {}
  /\ app = [s \in Surfaces |-> TRUE]
  /\ status = [s \in Surfaces |-> "idle"]
  /\ want = [s \in Surfaces |-> 0]
  /\ frame = [s \in Surfaces |-> NoBuf]
  /\ backing = [s \in Surfaces |-> NoBuf]
  /\ has_pool = [s \in Surfaces |-> FALSE]
  /\ ctx = "live" /\ jobs = <<>> /\ routes = {} /\ pictures = 0
  /\ pc = "loop" /\ tries = 0 /\ starved = 0 /\ added = 0
  /\ got_frame = FALSE /\ no_memory = FALSE
  /\ format \in Formats
  /\ need = 0 /\ info_ready = TRUE /\ input = <<>> /\ refset = {}
  /\ out = <<>>
  /\ content = [i \in Indices |-> 0]

-----------------------------------------------------------------------------
(***************************************************************************)
(* Pool references.                                                        *)
(***************************************************************************)

(* Slip: the last reference leaves the pool allocated.                     *)
PoolUnref_leaking(n) ==
  /\ refs' = refs - n
  /\ UNCHANGED <<pool, committed>>

(* n calls of rk_object_unref on the pool; the last one runs               *)
(* decode_pool_destroy, which puts the groups and every buffer.            *)
PoolUnref(n) ==
  /\ refs' = refs - n
  /\ IF n > 0 /\ refs = n
       THEN pool' = "destroyed" /\ committed' = {}
       ELSE UNCHANGED <<pool, committed>>

PoolRefs(s) == IF has_pool[s] THEN 1 ELSE 0

(* BeginPicture and surface_destroy drop the frame, the backing buffer and *)
(* the pool, in that order.                                                *)
Unbind(s) ==
  /\ frame' = [frame EXCEPT ![s] = NoBuf]
  /\ backing' = [backing EXCEPT ![s] = NoBuf]
  /\ has_pool' = [has_pool EXCEPT ![s] = FALSE]
  /\ PoolUnref(PoolRefs(s))

-----------------------------------------------------------------------------
(***************************************************************************)
(* The application.                                                        *)
(***************************************************************************)
JobsOf == {jobs[i] : i \in DOMAIN jobs}

(* BeginPicture .. EndPicture of a new picture on a settled surface.       *)
submit(s) ==
  /\ ctx = "live" /\ app[s] /\ status[s] # "pending"
  /\ pictures < MaxPictures
  /\ Unbind(s)
  /\ pictures' = pictures + 1
  /\ want' = [want EXCEPT ![s] = pictures + 1]
  /\ status' = [status EXCEPT ![s] = "pending"]
  /\ jobs' = Append(jobs, [surf |-> s, pic |-> pictures + 1])
  /\ UNCHANGED <<count, buffer_size, app, ctx, routes, putVars, mppVars>>

(* vaDestroySurfaces drops the handle ...                                  *)
rk_DestroySurfaces(s) ==
  /\ app[s]
  /\ app' = [app EXCEPT ![s] = FALSE]
  /\ UNCHANGED <<poolVars, status, want, frame, backing, has_pool, ctxVars,
                 putVars, mppVars>>

(* ... and the last job or route that names the surface runs               *)
(* surface_destroy.                                                        *)
surface_destroy(s) ==
  /\ ~app[s] /\ has_pool[s]
  /\ \A r \in JobsOf \cup routes : r.surf # s
  /\ Unbind(s)
  /\ UNCHANGED <<count, buffer_size, app, status, want, ctxVars, putVars,
                 mppVars>>

rk_DestroyContext ==
  /\ ctx = "live"
  /\ ctx' = "stopping"
  /\ UNCHANGED <<poolVars, surfVars, jobs, routes, pictures, putVars, mppVars>>

FailRoutes(R) ==
  status' = [s \in Surfaces |->
               IF status[s] = "pending" /\ \E r \in R : r.surf = s
                                                     /\ r.pic = want[s]
                 THEN "failed" ELSE status[s]]

(* The worker has left its loop: what is left fails, MPP goes, and then    *)
(* the context's pool reference.                                           *)
context_destroy ==
  /\ ctx = "stopping" /\ pc = "loop"
  /\ ctx' = "gone"
  /\ FailRoutes(JobsOf \cup routes)
  /\ jobs' = <<>> /\ routes' = {}
  /\ input' = <<>> /\ refset' = {} /\ out' = <<>>
  /\ PoolUnref(IF pool = "alive" THEN 1 ELSE 0)
  /\ UNCHANGED <<count, buffer_size, app, want, frame, backing, has_pool,
                 pictures, putVars, format, need, info_ready, content>>

-----------------------------------------------------------------------------
(***************************************************************************)
(* MPP (external): packets in, frames out, buffers from the group.         *)
(***************************************************************************)
Held == refset \cup {out[k].buf : k \in DOMAIN out}
               \cup {frame[s] : s \in Surfaces}

Free == IF need <= buffer_size THEN committed \ Held ELSE {}

MppIdle == \/ input = <<>>
           \/ ~info_ready
           \/ need # 0 /\ pool = "alive" /\ Free = {}

(* The stream starts, or its resolution grows: MPP forgets its references  *)
(* and waits until the worker has read the info-change frame.              *)
mpp_info_change(n) ==
  /\ ctx # "gone" /\ input # <<>> /\ info_ready /\ n > need
  /\ need' = n
  /\ info_ready' = FALSE
  /\ refset' = {}
  /\ out' = Append(out, [pic |-> 0, buf |-> NoBuf])
  /\ UNCHANGED <<poolVars, surfVars, ctxVars, putVars, format, input, content>>

(* A packet is decoded into buffer i; MPP keeps some of its references.    *)
mpp_decode(i, kept) ==
  /\ ctx # "gone" /\ ~MppIdle /\ need # 0
  /\ i \in IF pool = "alive" THEN Free ELSE {NoBuf}
  /\ kept \in SUBSET (refset \cup ({i} \ {NoBuf}))
  /\ Cardinality(kept) <= Dpb
  /\ refset' = kept
  /\ input' = Tail(input)
  /\ out' = Append(out, [pic |-> Head(input), buf |-> i])
  /\ content' = IF i = NoBuf THEN content
                             ELSE [content EXCEPT ![i] = Head(input)]
  /\ UNCHANGED <<poolVars, surfVars, ctxVars, putVars, format, need,
                 info_ready>>

-----------------------------------------------------------------------------
(***************************************************************************)
(* The worker reads a frame.                                               *)
(***************************************************************************)
SizeFor(n) == IF n > Conservative THEN n ELSE Conservative

(* configure_external_group.  The group reaches MPP when all PoolCount     *)
(* buffers are committed; a failure before leaves no pool.                 *)
configure(ok) ==
  IF pool = "none"
    THEN /\ ok \/ AllocFails
         /\ IF ok THEN /\ pool' = "alive" /\ refs' = 1
                       /\ count' = PoolCount
                       /\ buffer_size' = SizeFor(need)
                       /\ committed' = 0 .. PoolCount - 1
                  ELSE UNCHANGED poolVars
    ELSE ok = (buffer_size >= need) /\ UNCHANGED poolVars

(* assign_mpp_frame of an info-change frame: MPP is told to go on whether  *)
(* or not the group could be configured.                                   *)
read_info ==
  /\ \E ok \in BOOLEAN : configure(ok)
  /\ info_ready' = TRUE
  /\ UNCHANGED <<surfVars, routes>>

external_buffer_matches_pool(i) == i \in 0 .. count - 1

PoolOf == pool = "alive"    \* c->decode_pool # NULL, on the worker

(* Slip: the surface keeps the backing buffer and lets the frame go.       *)
Bind_frameless(s, i) ==
  /\ frame' = [frame EXCEPT ![s] = NoBuf]
  /\ backing' = [backing EXCEPT ![s] = i]
  /\ has_pool' = [has_pool EXCEPT ![s] = PoolOf]
  /\ refs' = refs - PoolRefs(s) + IF PoolOf THEN 1 ELSE 0

(* The surface keeps the frame and a reference to its backing buffer, or   *)
(* the converted copy alone; either way the pool, if there is one.         *)
Bind(s, i) ==
  /\ frame' = [frame EXCEPT ![s] = IF format = "NV15" THEN NoBuf ELSE i]
  /\ backing' = [backing EXCEPT ![s] = IF format = "NV15" THEN Private ELSE i]
  /\ has_pool' = [has_pool EXCEPT ![s] = PoolOf]
  /\ refs' = refs - PoolRefs(s) + IF PoolOf THEN 1 ELSE 0

(* The picture went into the surface's exported buffer instead.            *)
BindCopied(s) ==
  /\ frame' = [frame EXCEPT ![s] = NoBuf]
  /\ backing' = [backing EXCEPT ![s] = NoBuf]
  /\ has_pool' = [has_pool EXCEPT ![s] = FALSE]
  /\ refs' = refs - PoolRefs(s)

(* A picture: dropped without a route, bound to its surface, or refused (a *)
(* foreign buffer, an unsafe layout, conversion or copy failed, 10 bits    *)
(* without a pool, the surface reused).                                    *)
read_picture(f) ==
  \/ /\ \A r \in routes : r.pic # f.pic
     /\ UNCHANGED <<poolVars, surfVars, routes>>
  \/ \E r \in routes :
       /\ r.pic = f.pic
       /\ routes' = routes \ {r}
       /\ \/ /\ want[r.surf] = f.pic
             /\ IF PoolOf THEN external_buffer_matches_pool(f.buf)
                          ELSE format # "NV15"
             /\ Bind(r.surf, f.buf) \/ BindCopied(r.surf)
             /\ status' = [status EXCEPT ![r.surf] = "decoded"]
          \/ /\ FailRoutes({r})
             /\ UNCHANGED <<frame, backing, has_pool, refs>>
       /\ UNCHANGED <<pool, count, buffer_size, committed, app, want>>

(* drain_output_frame with a frame to read.                                *)
drain_output_frame ==
  /\ out # <<>>
  /\ out' = Tail(out)
  /\ IF Head(out).pic = 0 THEN read_info
       ELSE read_picture(Head(out)) /\ UNCHANGED info_ready
  /\ UNCHANGED <<ctx, jobs, pictures, tries, added, no_memory, format, need,
                 input, refset, content>>

-----------------------------------------------------------------------------
(***************************************************************************)
(* The worker's loop and put_packet_draining.                              *)
(***************************************************************************)
take_job ==
  /\ ctx # "gone" /\ pc = "loop" /\ jobs # <<>>
  /\ routes' = routes \cup {Head(jobs)}
  /\ pc' = "put"
  /\ no_memory' = FALSE
  /\ UNCHANGED <<poolVars, surfVars, ctx, jobs, pictures, tries, starved,
                 added, got_frame, mppVars>>

worker_drain_one ==
  /\ ctx # "gone" /\ pc = "loop" /\ jobs = <<>>
  /\ drain_output_frame
  /\ UNCHANGED <<pc, starved, got_frame>>

Job == Head(jobs)

(* The locals of put_packet_draining, before a push and between pushes.    *)
NoPush == tries' = 0 /\ starved' = 0 /\ got_frame' = FALSE

(* decode_put_packet takes the packet.                                     *)
put_accepted ==
  /\ pc = "put" /\ tries < PutTries /\ Len(input) < InputSlots
  /\ input' = Append(input, Job.pic)
  /\ jobs' = Tail(jobs)
  /\ pc' = IF Hevc THEN "after" ELSE "loop"
  /\ NoPush
  /\ UNCHANGED <<poolVars, surfVars, ctx, routes, pictures, added, no_memory,
                 format, need, info_ready, refset, out, content>>

drain_hevc_after_submit ==
  /\ pc = "after"
  /\ pc' = "loop"
  /\ \/ drain_output_frame /\ UNCHANGED <<starved, got_frame>>
     \/ /\ out = <<>>
        /\ UNCHANGED <<poolVars, surfVars, ctxVars, tries, starved, added,
                       got_frame, no_memory, mppVars>>

put_rejected ==
  /\ pc = "put" /\ tries < PutTries /\ Len(input) = InputSlots
  /\ tries' = tries + 1
  /\ pc' = "full"
  /\ UNCHANGED <<poolVars, surfVars, ctxVars, starved, added, got_frame,
                 no_memory, mppVars>>

(* The push is given up: its route goes and its surface fails.             *)
GiveUp ==
  /\ FailRoutes({Job})
  /\ routes' = routes \ {Job}
  /\ jobs' = Tail(jobs)
  /\ pc' = "loop"
  /\ NoPush
  /\ UNCHANGED <<poolVars, app, want, frame, backing, has_pool, ctx, pictures,
                 added, mppVars>>

(* Out of tries, or past the teardown deadline.                            *)
put_given_up ==
  /\ pc = "put"
  /\ tries = PutTries \/ ctx = "stopping"
  /\ GiveUp
  /\ UNCHANGED no_memory

full_drained ==
  /\ pc = "full"
  /\ drain_output_frame
  /\ starved' = 0 /\ got_frame' = TRUE
  /\ pc' = "put"

full_starved ==
  /\ pc = "full" /\ out = <<>>
  /\ IF starved + 1 < StarvedTries
       THEN starved' = starved + 1 /\ pc' = "put"
       ELSE starved' = 0 /\ pc' = "grow"
  /\ UNCHANGED <<poolVars, surfVars, ctxVars, tries, added, got_frame,
                 no_memory, mppVars>>

GrowTarget == IF count + PoolGrow > PoolMax THEN PoolMax
                                           ELSE count + PoolGrow

(* Slip: a growth that does not fit whole is refused.                      *)
CanGrow_whole == pool = "alive" /\ count + PoolGrow <= PoolMax

CanGrow == pool = "alive" /\ count < PoolMax

(* grow_external_group commits one more buffer; MPP may use it at once.    *)
commit_pool_buffer ==
  /\ pc = "grow" /\ CanGrow /\ count + added < GrowTarget
  /\ committed' = committed \cup {count + added}
  /\ added' = added + 1
  /\ UNCHANGED <<pool, refs, count, buffer_size, surfVars, ctxVars, pc, tries,
                 starved, got_frame, no_memory, mppVars>>

commit_failed ==
  /\ pc = "grow" /\ CanGrow /\ count + added < GrowTarget
  /\ AllocFails
  /\ no_memory' = TRUE

(* Slip: the buffers committed are not counted.                            *)
grew_uncounted ==
  /\ pc = "grow" /\ added > 0
  /\ \/ count + added = GrowTarget /\ UNCHANGED no_memory
     \/ commit_failed
  /\ added' = 0
  /\ pc' = "put"
  /\ UNCHANGED <<poolVars, surfVars, ctxVars, tries, starved, got_frame,
                 mppVars>>

(* grow_external_group returns true, after the last commit or the first    *)
(* that failed.                                                            *)
grew ==
  /\ pc = "grow" /\ added > 0
  /\ \/ count + added = GrowTarget /\ UNCHANGED no_memory
     \/ commit_failed
  /\ count' = count + added
  /\ added' = 0
  /\ pc' = "put"
  /\ UNCHANGED <<pool, refs, buffer_size, committed, surfVars, ctxVars, tries,
                 starved, got_frame, mppVars>>

(* It returns false: nothing was added, and the push ends.                 *)
grow_failed ==
  /\ pc = "grow" /\ added = 0
  /\ \/ ~CanGrow /\ UNCHANGED no_memory
     \/ commit_failed
  /\ GiveUp

(* Slip: the timer only runs while there is something to push.             *)
stall_timeout_queued ==
  /\ ctx = "live" /\ pc = "loop" /\ jobs # <<>> /\ routes # {}
  /\ out = <<>> /\ MppIdle
  /\ FailRoutes(routes)
  /\ routes' = {}
  /\ UNCHANGED <<poolVars, app, want, frame, backing, has_pool, ctx, jobs,
                 pictures, putVars, mppVars>>

(* The stall timer: nothing to push, routes open, and MPP silent for       *)
(* longer than it could take to produce a frame.                           *)
stall_timeout ==
  /\ ctx = "live" /\ pc = "loop" /\ jobs = <<>> /\ routes # {}
  /\ out = <<>> /\ MppIdle
  /\ FailRoutes(routes)
  /\ routes' = {}
  /\ UNCHANGED <<poolVars, app, want, frame, backing, has_pool, ctx, jobs,
                 pictures, putVars, mppVars>>

-----------------------------------------------------------------------------
Worker ==
  \/ take_job \/ worker_drain_one
  \/ put_accepted \/ drain_hevc_after_submit \/ put_rejected \/ put_given_up
  \/ full_drained \/ full_starved
  \/ commit_pool_buffer \/ grew \/ grow_failed
  \/ stall_timeout \/ context_destroy

mpp_start == need = 0 /\ \E n \in Sizes : mpp_info_change(n)

mpp_run == \E i \in Indices \cup {NoBuf} :
             \E kept \in SUBSET (refset \cup {i}) : mpp_decode(i, kept)

Next ==
  \/ \E s \in Surfaces : submit(s) \/ rk_DestroySurfaces(s)
  \/ \E s \in Surfaces : surface_destroy(s)
  \/ rk_DestroyContext
  \/ \E n \in Sizes : mpp_info_change(n)
  \/ mpp_run
  \/ Worker

Spec == Init /\ [][Next]_vars

(* The worker thread runs, and MPP starts on its input and decodes what it *)
(* has a buffer for.  Nothing is assumed of the application.               *)
FairSpec == Spec /\ WF_vars(Worker) /\ WF_vars(mpp_start \/ mpp_run)

-----------------------------------------------------------------------------
Picture == 0 .. MaxPictures
Task    == [surf : Surfaces, pic : Picture]
Buffer  == Indices \cup {NoBuf}

(* Every pool, surface, worker and MPP variable keeps its type; the pool   *)
(* never holds an index past its buffers array.                            *)
TypeOK ==
  /\ pool \in {"none", "alive", "destroyed"}
  /\ refs \in 0 .. Cardinality(Surfaces) + 1
  /\ count \in 0 .. PoolMax /\ buffer_size \in Nat
  /\ committed \subseteq Indices
  /\ app \in [Surfaces -> BOOLEAN]
  /\ status \in [Surfaces -> {"idle", "pending", "decoded", "failed"}]
  /\ want \in [Surfaces -> Picture]
  /\ frame \in [Surfaces -> Buffer]
  /\ backing \in [Surfaces -> Buffer \cup {Private}]
  /\ has_pool \in [Surfaces -> BOOLEAN]
  /\ ctx \in {"live", "stopping", "gone"}
  /\ jobs \in Seq(Task) /\ routes \subseteq Task /\ pictures \in Picture
  /\ pc \in {"loop", "put", "full", "grow", "after"}
  /\ tries \in 0 .. PutTries /\ starved \in 0 .. StarvedTries - 1
  /\ added \in 0 .. PoolGrow
  /\ {got_frame, no_memory, info_ready} \subseteq BOOLEAN
  /\ format \in Formats /\ need \in Sizes \cup {0}
  /\ input \in Seq(Picture) /\ refset \subseteq Indices
  /\ out \in Seq([pic : Picture, buf : Buffer])
  /\ content \in [Indices -> Picture]

(* MPP may fill a buffer before the growth that committed it is counted;   *)
(* still, whenever the worker reads a frame, external_buffer_matches_pool  *)
(* knows its buffer.                                                       *)
FramesMatchPool ==
  pool = "alive" /\ pc # "grow" =>
    \A k \in DOMAIN out :
      out[k].pic # 0 => external_buffer_matches_pool(out[k].buf)

(* A surface that shows a pool buffer keeps MPP from decoding into it:     *)
(* the buffer still holds the picture the surface was bound for, also      *)
(* after the context and MPP are gone.                                     *)
ShownNotOverwritten ==
  \A s \in Surfaces : backing[s] \in Indices => content[backing[s]] = want[s]

(* The pool lives as long as the context or a surface bound to one of its  *)
(* buffers does, and no longer: its references are exactly those.          *)
PoolAliveWhileUsed ==
  LET users == Cardinality({s \in Surfaces : has_pool[s]})
  IN  /\ pool = "alive" => /\ refs > 0
                           /\ refs = users + IF ctx = "gone" THEN 0 ELSE 1
      /\ pool # "alive" => refs = 0 /\ users = 0
      /\ \A s \in Surfaces : backing[s] \in Indices => backing[s] \in committed

(* put_packet_draining fails a picture only when more buffers cannot be    *)
(* had: the pool is at its ceiling, missing or out of memory, the context  *)
(* is being destroyed, or frames did come out and the tries ran out        *)
(* nevertheless.  The tries never run out on starvation alone.             *)
PushFailsOnlyExhausted ==
  [][(pc \in {"put", "full", "grow"} /\ pc' = "loop" /\ input' = input) =>
       \/ ctx = "stopping"
       \/ pool # "alive" \/ count = PoolMax \/ no_memory'
       \/ tries = PutTries /\ got_frame]_vars

(* An application that holds all its surfaces and waits for one of them is *)
(* answered: by growth, by a buffer that comes back, or by failure.        *)
StarvationEnds ==
  \A s \in Surfaces : status[s] = "pending" ~> status[s] # "pending"

(* The pool "grows on demand": while it is below its ceiling and its       *)
(* buffers are large enough, no picture fails because MPP has none left.   *)
GrowsOnDemand ==
  [][\A s \in Surfaces :
       /\ status[s] = "pending" /\ status'[s] = "failed"
       /\ ctx = "live" /\ pc = "loop" /\ out = <<>>
       => ~(CanGrow /\ need <= buffer_size)]_vars
=============================================================================
