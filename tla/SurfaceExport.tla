---------------------------- MODULE SurfaceExport ----------------------------
(***************************************************************************)
(* The storage of one driver-owned decode surface and everybody who looks  *)
(* at it: vaExportSurfaceHandle (export.c), vaDeriveImage with vaMapBuffer *)
(* and vaAcquireBufferHandle on the derived image (buffer.c), vaGetImage   *)
(* and the wait of vaSyncSurface (surface.c), against the decode worker    *)
(* that copies into the placeholder or binds MPP's own buffer (mpp_dec.c)  *)
(* and the application that reuses the surface.                            *)
(*                                                                         *)
(* Each section under the surface's lock is one step.  A picture is named  *)
(* by the fence BeginPicture gave it; a buffer is 0 for priv_buf and f for *)
(* the MPP buffer that holds picture f.  How jobs and routes carry a fence *)
(* to MPP and back is DecodeWorker's subject: here every begun picture     *)
(* reaches the worker once, good or bad, in any order.                     *)
(***************************************************************************)
EXTENDS Integers, FiniteSets

CONSTANTS
  Threads,           \* application threads that export, derive and read
  NoImage,           \* a thread without a derived image
  TenBit,            \* P010 instead of NV12
  PrivPitch,         \* hstride create_surfaces chose for priv_buf
  MppPitch,          \* hstride of what assign_mpp_frame binds
  MaxFence,          \* bound: BeginPicture calls
  BeginDuringAccess  \* the application may reuse the surface while one of
                     \* its own calls on it is under way

(* A derived image: the geometry it was given, the buffer it stands for,   *)
(* its mapping and its exported handle.                                    *)
Image == [pitch : {PrivPitch, MppPitch}, fd : Nat, map : Int, handle : Int]

ASSUME ExportAssumption ==
  /\ {TenBit, BeginDuringAccess} \subseteq BOOLEAN
  /\ {PrivPitch, MppPitch} \subseteq Nat \ {0}
  /\ MaxFence \in Nat
  /\ NoImage \notin Image

VARIABLES
  fence, decoded, decode_failed,
  frame,          \* the picture in s->frame or s->backing_buf, 0 for none
  hstride,
  stable_export,
  priv,           \* the picture in priv_buf, 0 while it is blank
  priv_pitch,     \* ghost: the pitch that picture was written with
  retained,       \* ghost: the pitches priv_buf was exported with
  export_buf,     \* the repacked copy: [pic, fence], fence is export_fence
  flight,         \* the begun pictures the worker has not dealt with
  wpc,            \* the worker: "idle", "copy" or "bind"
  job,            \* the picture in assign_mpp_frame
  copied,         \* stable_export_copy
  pc,             \* each thread: "idle" or a step of its call
  seen,           \* ghost: what the last look at the surface showed
  image           \* each thread's derived image, or NoImage

surfVars  == <<fence, decoded, decode_failed, frame, hstride>>
storeVars == <<stable_export, priv, priv_pitch, retained, export_buf>>
workVars  == <<flight, wpc, job, copied>>
userVars  == <<pc, seen, image>>
vars == <<surfVars, storeVars, workVars, userVars>>

NoFd    == -1
Nothing == [pic |-> 0, fence |-> 0, decoded |-> FALSE]

Init ==
  /\ fence = 0
  /\ decoded = FALSE
  /\ decode_failed = FALSE
  /\ frame = 0
  /\ hstride = PrivPitch
  /\ stable_export = FALSE
  /\ priv = 0
  /\ priv_pitch = PrivPitch
  /\ retained = {}
  /\ export_buf = [pic |-> 0, fence |-> 0]
  /\ flight = {}
  /\ wpc = "idle"
  /\ job = 0
  /\ copied = FALSE
  /\ pc = [t \in Threads |-> "idle"]
  /\ seen = Nothing
  /\ image = [t \in Threads |-> NoImage]

(* The buffer every reader resolves the surface to, and what is in it.     *)
Active     == frame
Content(b) == IF b = 0 THEN priv ELSE b

Importable(pitch) == pitch % 64 = 0   \* DRM_LINEAR_NV12_PITCH_ALIGNMENT

-----------------------------------------------------------------------------
(* BeginPicture on a surface that continues no field pair.  ctx_id is set  *)
(* with the first fence and stays set.                                     *)
rk_BeginPicture ==
  /\ fence < MaxFence
  /\ BeginDuringAccess \/ \A t \in Threads : pc[t] = "idle"
  /\ fence' = fence + 1
  /\ decoded' = FALSE
  /\ decode_failed' = FALSE
  /\ frame' = 0
  /\ flight' = flight \cup {fence + 1}
  /\ UNCHANGED <<hstride, storeVars, wpc, job, copied, userVars>>

-----------------------------------------------------------------------------
(***************************************************************************)
(* The worker in assign_mpp_frame.                                         *)
(***************************************************************************)
Fail(f) ==
  /\ decode_failed' = (decode_failed \/ fence = f)
  /\ decoded' = (decoded /\ fence # f)

(* Up to the first check of the fence: a stale frame is dropped.           *)
frame_arrives(f) ==
  /\ wpc = "idle"
  /\ flight' = flight \ {f}
  /\ IF fence = f THEN wpc' = "copy" /\ job' = f
                  ELSE UNCHANGED <<wpc, job>>
  /\ UNCHANGED <<surfVars, storeVars, copied, userVars>>

(* The frame never comes, or has errors, or no usable layout, or cannot be *)
(* converted.                                                              *)
frame_fails(f) ==
  /\ wpc = "idle"
  /\ flight' = flight \ {f}
  /\ Fail(f)
  /\ UNCHANGED <<fence, frame, hstride, storeVars, wpc, job, copied,
                 userVars>>

(* Slip: the copy does not look at the fence.                              *)
copy_unfenced ==
  /\ wpc = "copy"
  /\ IF stable_export
       THEN priv' = job /\ priv_pitch' = hstride
       ELSE UNCHANGED <<priv, priv_pitch>>
  /\ copied' = stable_export
  /\ wpc' = "bind"
  /\ UNCHANGED <<surfVars, stable_export, retained, export_buf, flight, job,
                 userVars>>

(* Slip: only a surface that shows nothing yet is copied into.             *)
copy_first_only ==
  /\ wpc = "copy"
  /\ stable_export => fence = job
  /\ IF stable_export /\ priv = 0
       THEN priv' = job /\ priv_pitch' = hstride
       ELSE UNCHANGED <<priv, priv_pitch>>
  /\ copied' = stable_export
  /\ wpc' = "bind"
  /\ UNCHANGED <<surfVars, stable_export, retained, export_buf, flight, job,
                 userVars>>

(* rk_surface_copy_to_stable_export, when it succeeds: the lock is held    *)
(* over the fence check and the copy.                                      *)
rk_surface_copy_to_stable_export ==
  /\ wpc = "copy"
  /\ stable_export => fence = job
  /\ IF stable_export
       THEN priv' = job /\ priv_pitch' = hstride
       ELSE UNCHANGED <<priv, priv_pitch>>
  /\ copied' = stable_export
  /\ wpc' = "bind"
  /\ UNCHANGED <<surfVars, stable_export, retained, export_buf, flight, job,
                 userVars>>

(* The copy found the fence moved on or the sizes different, or the copy   *)
(* engine refused; or a buffer to be bound could not be referenced.        *)
assign_failed ==
  /\ \/ wpc = "copy" /\ stable_export
     \/ wpc = "bind" /\ ~copied
  /\ Fail(job)
  /\ wpc' = "idle"
  /\ job' = 0
  /\ UNCHANGED <<fence, frame, hstride, storeVars, flight, copied, userVars>>

(* The last section: bind MPP's buffer, or leave priv_buf as the storage.  *)
bind ==
  /\ wpc = "bind"
  /\ IF fence = job
       THEN /\ frame' = IF copied THEN 0 ELSE job
            /\ hstride' = IF copied THEN hstride ELSE MppPitch
            /\ decoded' = TRUE
            /\ decode_failed' = FALSE
       ELSE UNCHANGED <<frame, hstride, decoded, decode_failed>>
  /\ wpc' = "idle"
  /\ job' = 0
  /\ copied' = FALSE
  /\ UNCHANGED <<fence, storeVars, flight, userVars>>

-----------------------------------------------------------------------------
(***************************************************************************)
(* vaExportSurfaceHandle and vaDeriveImage.  Both look whether a decode is *)
(* under way, release the lock, sync if so, and take the lock again.       *)
(***************************************************************************)
NeedsSync == ~decoded /\ fence # 0

SyncFor == [export |-> "sync_export", derive |-> "sync_derive"]

access_begin(t, call) ==
  /\ pc[t] = "idle"
  /\ call = "derive" => image[t] = NoImage
  /\ pc' = [pc EXCEPT ![t] = IF NeedsSync THEN SyncFor[call] ELSE call]
  /\ UNCHANGED <<surfVars, storeVars, workVars, seen, image>>

(* Slip: a failed picture does not wake the waiter.                        *)
sync_decoded_only(t) ==
  /\ pc[t] \in {"sync_export", "sync_derive"}
  /\ decoded
  /\ pc' = [pc EXCEPT ![t] = IF @ = "sync_export" THEN "export" ELSE "derive"]
  /\ UNCHANGED <<surfVars, storeVars, workVars, seen, image>>

(* sync_surface_timeout without a limit: the thread wakes on the condition *)
(* of the surface, and returns its verdict of that moment.                 *)
sync_done(t) ==
  /\ pc[t] \in {"sync_export", "sync_derive"}
  /\ decode_failed \/ decoded
  /\ pc' = [pc EXCEPT ![t] = IF decode_failed THEN "idle"
                             ELSE IF @ = "sync_export" THEN "export"
                             ELSE "derive"]
  /\ UNCHANGED <<surfVars, storeVars, workVars, seen, image>>

Placeholder == ~decoded /\ frame = 0

Repacks == decoded /\ ~TenBit /\ ~Importable(hstride)

(* What a thread gets to see: the buffer, and the surface's own claim.     *)
Look(pic) ==
  seen' = [pic |-> pic, fence |-> fence, decoded |-> decoded]

(* Slip: the repacked copy is kept once it exists.                         *)
export_cached(t) ==
  /\ pc[t] = "export"
  /\ pc' = [pc EXCEPT ![t] = "idle"]
  /\ stable_export' = (stable_export \/ Placeholder)
  /\ IF Repacks
       THEN /\ export_buf' = IF export_buf.fence # 0 THEN export_buf
                             ELSE [pic |-> Content(Active), fence |-> fence]
            /\ Look(export_buf'.pic)
            /\ UNCHANGED retained
       ELSE /\ retained' = IF Active = 0 THEN retained \cup {hstride}
                                         ELSE retained
            /\ Look(Content(Active))
            /\ UNCHANGED export_buf
  /\ UNCHANGED <<surfVars, priv, priv_pitch, workVars, image>>

export_finish(t) ==
  /\ pc[t] = "export"
  /\ pc' = [pc EXCEPT ![t] = "idle"]
  /\ stable_export' = (stable_export \/ Placeholder)
  /\ IF Repacks
       THEN /\ export_buf' = IF export_buf.fence = fence THEN export_buf
                             ELSE [pic |-> Content(Active), fence |-> fence]
            /\ Look(export_buf'.pic)
            /\ UNCHANGED retained
       ELSE /\ retained' = IF Active = 0 THEN retained \cup {hstride}
                                         ELSE retained
            /\ Look(Content(Active))
            /\ UNCHANGED export_buf
  /\ UNCHANGED <<surfVars, priv, priv_pitch, workVars, image>>

(* No memory for the repacked copy or the copy failed, or, with the        *)
(* surface already marked, dup failed.                                     *)
export_failed(t) ==
  /\ pc[t] = "export"
  /\ pc' = [pc EXCEPT ![t] = "idle"]
  /\ stable_export' = (stable_export \/ Placeholder)
  /\ export_buf' = IF Repacks /\ export_buf.fence # fence
                     THEN [pic |-> 0, fence |-> 0] ELSE export_buf
  /\ UNCHANGED <<surfVars, priv, priv_pitch, retained, workVars, seen, image>>

(* vaDeriveImage's next section refuses provisional P010 whose pitch may   *)
(* still change, and the one after it describes the buffer.                *)
derive_check(t) ==
  /\ pc[t] = "derive"
  /\ pc' = [pc EXCEPT ![t] =
              IF TenBit /\ ~decoded /\ ~Importable(hstride) THEN "idle"
                                                            ELSE "describe"]
  /\ UNCHANGED <<surfVars, storeVars, workVars, seen, image>>

derive_finish(t) ==
  /\ pc[t] = "describe"
  /\ pc' = [pc EXCEPT ![t] = "idle"]
  /\ image' = [image EXCEPT ![t] = [pitch |-> hstride, fd |-> Active,
                                    map |-> NoFd, handle |-> NoFd]]
  /\ UNCHANGED <<surfVars, storeVars, workVars, seen>>

-----------------------------------------------------------------------------
(***************************************************************************)
(* The derived image: vaMapBuffer, vaAcquireBufferHandle and their ends.   *)
(***************************************************************************)

(* Slip: only the buffer is compared.                                      *)
derived_still_valid_by_fd(t) == TRUE

(* derived_still_valid: the geometry must be the one the image was given.  *)
derived_still_valid(t) == image[t].pitch = hstride

(* It also follows the surface to another buffer of the same geometry,     *)
(* giving up the mapping and the handle of the old one.                    *)
Follow(t) ==
  IF image[t].fd = Active THEN image[t]
  ELSE [image[t] EXCEPT !.fd = Active, !.map = NoFd, !.handle = NoFd]

(* First half of vaMapBuffer and of vaAcquireBufferHandle.                 *)
recheck(t, call) ==
  /\ pc[t] = "idle" /\ image[t] # NoImage
  /\ derived_still_valid(t)
  /\ image' = [image EXCEPT ![t] = Follow(t)]
  /\ pc' = [pc EXCEPT ![t] = call]
  /\ UNCHANGED <<surfVars, storeVars, workVars, seen>>

map_finish(t) ==
  /\ pc[t] = "map"
  /\ pc' = [pc EXCEPT ![t] = "idle"]
  /\ image' = [image EXCEPT ![t].map = IF @ = NoFd THEN image[t].fd ELSE @]
  /\ UNCHANGED <<surfVars, storeVars, workVars, seen>>

(* The fd is duplicated and the surface looked at once more; if it moved   *)
(* to another buffer meanwhile, the duplicate is closed and the call       *)
(* fails, and if its geometry changed the call fails and keeps it.         *)
acquire_finish(t) ==
  /\ pc[t] = "acquire"
  /\ pc' = [pc EXCEPT ![t] = "idle"]
  /\ image' = IF image[t].handle # NoFd THEN image
              ELSE IF ~derived_still_valid(t)
                THEN [image EXCEPT ![t].handle = image[t].fd]
              ELSE IF image[t].fd # Active
                THEN [image EXCEPT ![t] = Follow(t)]
              ELSE [image EXCEPT ![t].handle = image[t].fd]
  /\ UNCHANGED <<surfVars, storeVars, workVars, seen>>

rk_buffer_release_handle(t) ==
  /\ pc[t] = "idle" /\ image[t] # NoImage
  /\ image' = [image EXCEPT ![t].handle = NoFd]
  /\ UNCHANGED <<surfVars, storeVars, workVars, pc, seen>>

rk_DestroyImage(t) ==
  /\ pc[t] = "idle" /\ image[t] # NoImage
  /\ image' = [image EXCEPT ![t] = NoImage]
  /\ UNCHANGED <<surfVars, storeVars, workVars, pc, seen>>

(* vaGetImage copies the pixels out under the lock, without a sync.        *)
rk_GetImage(t) ==
  /\ pc[t] = "idle"
  /\ Look(Content(Active))
  /\ UNCHANGED <<surfVars, storeVars, workVars, pc, image>>

-----------------------------------------------------------------------------
WorkerStep ==
  \/ \E f \in flight : frame_arrives(f) \/ frame_fails(f)
  \/ rk_surface_copy_to_stable_export
  \/ assign_failed
  \/ bind

ThreadStep(t) ==
  \/ sync_done(t)
  \/ export_finish(t)
  \/ export_failed(t)
  \/ derive_check(t)
  \/ derive_finish(t)
  \/ map_finish(t)
  \/ acquire_finish(t)

Next ==
  \/ rk_BeginPicture
  \/ WorkerStep
  \/ \E t \in Threads :
       \/ \E call \in {"export", "derive"} : access_begin(t, call)
       \/ ThreadStep(t)
       \/ \E call \in {"map", "acquire"} : recheck(t, call)
       \/ rk_buffer_release_handle(t)
       \/ rk_DestroyImage(t)
       \/ rk_GetImage(t)

Spec == Init /\ [][Next]_vars

(* The worker settles what it was given (DecodeWorker, FencesSettle), and  *)
(* a thread inside a call goes on once the surface lets it.                *)
FairSpec ==
  /\ Spec
  /\ WF_vars(WorkerStep)
  /\ \A t \in Threads : WF_vars(ThreadStep(t))

-----------------------------------------------------------------------------
(***************************************************************************)
(* Properties.                                                             *)
(***************************************************************************)

(* The shape of the surface, its storage and the calls under way.          *)
TypeOK ==
  /\ fence \in Nat
  /\ decoded \in BOOLEAN
  /\ decode_failed \in BOOLEAN
  /\ frame \in Nat
  /\ hstride \in {PrivPitch, MppPitch}
  /\ stable_export \in BOOLEAN
  /\ priv \in Nat
  /\ priv_pitch \in {PrivPitch, MppPitch}
  /\ retained \subseteq {PrivPitch, MppPitch}
  /\ export_buf \in [pic : Nat, fence : Nat]
  /\ flight \subseteq 1..MaxFence
  /\ wpc \in {"idle", "copy", "bind"}
  /\ job \in Nat
  /\ copied \in BOOLEAN
  /\ pc \in [Threads -> {"idle", "sync_export", "sync_derive", "export",
                         "derive", "describe", "map", "acquire"}]
  /\ seen \in [pic : Nat, fence : Nat, decoded : BOOLEAN]
  /\ image \in [Threads -> Image \cup {NoImage}]
  /\ \A t \in Threads : pc[t] \in {"map", "acquire"} => image[t] # NoImage

(* "Completed pictures must be copied back into priv_buf instead of        *)
(* replacing the surface's externally visible storage"                     *)
(* (driver_internal.h:178): once the placeholder was exported, a decoded   *)
(* surface has its picture in there and nowhere else.                      *)
RetainedFdShowsPicture ==
  stable_export /\ decoded => priv = fence /\ frame = 0

(* Whoever keeps an exported priv_buf was told the pitch its pictures are  *)
(* written with, for as long as the surface lives.                         *)
RetainedGeometry ==
  stable_export => \A p \in retained : p = priv_pitch /\ p = hstride

(* "The surface lock and generation fence cover the copy, so reuse cannot  *)
(* publish a late frame into a newer picture" (docs/DEVELOPMENT.md:340).   *)
NoLateCopy == [][priv' # priv => priv' = fence /\ ~decoded]_vars

(* What a thread reads or is handed from a surface that says decoded is    *)
(* the picture last begun on it: neither an older frame, nor the blank     *)
(* placeholder, nor a repacked copy of an earlier picture.                 *)
SeesCurrentPicture == seen.decoded => seen.pic = seen.fence

(* "the call fails rather than reading pixels through the wrong geometry"  *)
(* (docs/DEVELOPMENT.md:286): whatever a derived image maps or hands out   *)
(* has, if there are pixels in it, the pitch the image was given.          *)
LayoutOf(b) == IF b = 0 THEN priv_pitch ELSE MppPitch

ImageGeometry ==
  \A t \in Threads : image[t] # NoImage =>
    \A b \in {image[t].map, image[t].handle} \ {NoFd} :
      Content(b) # 0 => LayoutOf(b) = image[t].pitch

(* A thread that waits for the surface in an export or a derive gets on:   *)
(* the worker settles the picture it waits for or a later one.             *)
AccessReturns ==
  \A t \in Threads :
    (pc[t] \in {"sync_export", "sync_derive"}) ~> (pc[t] = "idle")
=============================================================================
