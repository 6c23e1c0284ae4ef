------------------------- MODULE SurfaceExportProofs -------------------------
(***************************************************************************)
(* What a surface shows, for any number of threads and pictures and for    *)
(* every pair of pitches.                                                  *)
(*                                                                         *)
(* FenceInv holds for every application.  StableInv needs one that does    *)
(* not begin a picture on a surface while a call of its own on that        *)
(* surface is under way: otherwise an export that found the surface idle   *)
(* marks it stable behind the worker's back.                               *)
(***************************************************************************)
EXTENDS SurfaceExport, TLAPS

-----------------------------------------------------------------------------
(***************************************************************************)
(* The inductive invariants.                                               *)
(***************************************************************************)

(* A picture is in flight, with the worker, or settled, never two of them; *)
(* a decoded surface has the picture of its fence in the bound frame or,   *)
(* after a copy, in priv_buf; so has a repacked copy under its own fence.  *)
FenceInv ==
  /\ flight \subseteq 1..fence
  /\ wpc = "idle" => job = 0
  /\ wpc # "idle" => job \in 1..fence /\ job \notin flight
  /\ decoded => fence # 0 /\ fence \notin flight /\ job # fence
  /\ frame # 0 => decoded /\ frame = fence /\ hstride = MppPitch
  /\ decoded /\ frame = 0 => priv = fence /\ stable_export
  /\ wpc = "bind" /\ copied => stable_export /\ (job = fence => priv = job)
  /\ export_buf.fence # 0 => export_buf.pic = export_buf.fence

(* A surface turns stable before its first picture or not at all, so the   *)
(* worker's copy decision is never overtaken and priv_buf keeps the pitch  *)
(* it was created with.                                                    *)
StableInv ==
  /\ \A t \in Threads : pc[t] = "export" => decoded \/ fence = 0
  /\ wpc = "bind" /\ ~copied /\ job = fence => ~stable_export
  /\ fence = 0 \/ stable_export => hstride = PrivPitch
  /\ priv_pitch = PrivPitch
  /\ retained \subseteq {PrivPitch}
  /\ priv # 0 => stable_export

(* An image with another pitch than priv_buf's belongs to a surface that   *)
(* can no longer turn stable; one that saw an MPP buffer has its pitch.    *)
ImageInv ==
  \A t \in Threads : image[t] # NoImage =>
    /\ image[t].pitch # PrivPitch => fence # 0 /\ ~stable_export
    /\ \A b \in {image[t].fd, image[t].map, image[t].handle} :
         b = NoFd \/ b = 0 \/ image[t].pitch = MppPitch

SafeInv == TypeOK /\ FenceInv /\ SeesCurrentPicture

StorageInv == StableInv /\ RetainedFdShowsPicture /\ ImageInv

-----------------------------------------------------------------------------
(***************************************************************************)
(* Types.                                                                  *)
(***************************************************************************)

(* An image that follows its surface is still an image.                    *)
LEMMA FollowType ==
  ASSUME TypeOK, NEW t \in Threads, image[t] # NoImage
  PROVE  Follow(t) \in Image /\ Follow(t) # NoImage
<1>1. image[t] \in Image
  BY DEF TypeOK
<1>2. Follow(t) \in Image
  <2>1. [image[t] EXCEPT !.fd = Active] \in Image
    BY <1>1 DEF TypeOK, Active, Image
  <2>2. NoFd \in Int
    BY DEF NoFd
  <2>3. \A m \in Image : [m EXCEPT !.map = NoFd] \in Image
    BY <2>2 DEF Image
  <2>4. \A m \in Image : [m EXCEPT !.handle = NoFd] \in Image
    BY <2>2 DEF Image
  <2> QED
    BY <1>1, <2>1, <2>3, <2>4 DEF Follow
<1> QED
  BY <1>2, ExportAssumption

(* Every step of the surface keeps the types.                              *)
LEMMA TypeStep == TypeOK /\ [Next]_vars => TypeOK'
<1> SUFFICES ASSUME TypeOK, [Next]_vars PROVE TypeOK'
  OBVIOUS
<1> USE ExportAssumption DEF surfVars, storeVars, workVars, userVars
<1>1. CASE UNCHANGED vars
  BY <1>1 DEF TypeOK, vars
<1>2. CASE rk_BeginPicture
  <2>1. fence + 1 \in 1..MaxFence
    BY <1>2 DEF TypeOK, rk_BeginPicture
  <2>2. flight' \subseteq 1..MaxFence
    BY <1>2, <2>1 DEF TypeOK, rk_BeginPicture
  <2>3. fence' \in Nat
    BY <1>2 DEF TypeOK, rk_BeginPicture
  <2> QED
    BY <1>2, <2>2, <2>3 DEF TypeOK, rk_BeginPicture
<1>3. ASSUME NEW f \in flight, frame_arrives(f) PROVE TypeOK'
  BY <1>3 DEF TypeOK, frame_arrives
<1>4. ASSUME NEW f \in flight, frame_fails(f) PROVE TypeOK'
  BY <1>4 DEF TypeOK, frame_fails, Fail
<1>5. CASE rk_surface_copy_to_stable_export
  BY <1>5 DEF TypeOK, rk_surface_copy_to_stable_export
<1>6. CASE assign_failed
  BY <1>6 DEF TypeOK, assign_failed, Fail
<1>7. CASE bind
  <2>1. /\ fence' = fence /\ pc' = pc /\ image' = image /\ seen' = seen
        /\ frame' \in Nat /\ hstride' \in {PrivPitch, MppPitch}
    BY <1>7 DEF TypeOK, bind
  <2>2. decoded' \in BOOLEAN /\ decode_failed' \in BOOLEAN
    BY <1>7 DEF TypeOK, bind
  <2> QED
    BY <1>7, <2>1, <2>2 DEF TypeOK, bind
<1>8. ASSUME NEW t \in Threads, NEW call \in {"export", "derive"},
             access_begin(t, call)
      PROVE  TypeOK'
  BY <1>8 DEF TypeOK, access_begin, SyncFor
<1>9. ASSUME NEW t \in Threads, ThreadStep(t) PROVE TypeOK'
  <2>1. CASE sync_done(t)
    BY <2>1 DEF TypeOK, sync_done
  <2>2. CASE export_finish(t)
    BY <2>2 DEF TypeOK, export_finish, Look, Content, Active
  <2>3. CASE export_failed(t)
    BY <2>3 DEF TypeOK, export_failed
  <2>4. CASE derive_check(t)
    BY <2>4 DEF TypeOK, derive_check
  <2>5. CASE derive_finish(t)
    BY <2>5 DEF TypeOK, Image, derive_finish, Active, NoFd
  <2>6. CASE map_finish(t)
    BY <2>6 DEF TypeOK, Image, map_finish
  <2>7. CASE acquire_finish(t)
    <3>1. image[t] \in Image /\ image[t] # NoImage
      BY <2>7 DEF TypeOK, acquire_finish
    <3>2. [image[t] EXCEPT !.handle = image[t].fd] \in Image
      BY <3>1 DEF Image
    <3>3. /\ image' \in [Threads -> Image \cup {NoImage}]
          /\ \A u \in Threads : image[u] # NoImage => image'[u] # NoImage
      BY <2>7, <3>1, <3>2, FollowType DEF TypeOK, acquire_finish
    <3> QED
      BY <2>7, <3>3 DEF TypeOK, acquire_finish
  <2> QED
    BY <1>9, <2>1, <2>2, <2>3, <2>4, <2>5, <2>6, <2>7 DEF ThreadStep
<1>10. ASSUME NEW t \in Threads, NEW call \in {"map", "acquire"},
              recheck(t, call)
       PROVE  TypeOK'
  BY <1>10, FollowType DEF TypeOK, recheck
<1>11. ASSUME NEW t \in Threads, rk_buffer_release_handle(t) PROVE TypeOK'
  BY <1>11 DEF TypeOK, Image, rk_buffer_release_handle, NoFd
<1>12. ASSUME NEW t \in Threads, rk_DestroyImage(t) PROVE TypeOK'
  BY <1>12 DEF TypeOK, rk_DestroyImage
<1>13. ASSUME NEW t \in Threads, rk_GetImage(t) PROVE TypeOK'
  BY <1>13 DEF TypeOK, rk_GetImage, Look, Content, Active
<1> QED
  BY <1>1, <1>2, <1>3, <1>4, <1>5, <1>6, <1>7, <1>8, <1>9, <1>10, <1>11,
     <1>12, <1>13 DEF Next, WorkerStep

-----------------------------------------------------------------------------
(***************************************************************************)
(* The picture of a fence.                                                 *)
(***************************************************************************)

(* On a decoded surface the active buffer holds the picture of the fence.  *)
LEMMA ActivePicture ==
  ASSUME TypeOK, FenceInv, decoded
  PROVE  Content(Active) = fence /\ fence # 0
BY DEF FenceInv, Content, Active

(* Every step keeps FenceInv and shows current pictures only.              *)
LEMMA FenceStep ==
  ASSUME TypeOK, FenceInv, SeesCurrentPicture, [Next]_vars
  PROVE  FenceInv' /\ SeesCurrentPicture'
<1> USE DEF surfVars, storeVars, workVars, userVars
<1>1. CASE UNCHANGED vars
  BY <1>1 DEF FenceInv, SeesCurrentPicture, vars
<1>2. CASE rk_BeginPicture
  BY <1>2 DEF TypeOK, FenceInv, SeesCurrentPicture, rk_BeginPicture
<1>3. ASSUME NEW f \in flight, frame_arrives(f)
      PROVE  FenceInv' /\ SeesCurrentPicture'
  BY <1>3 DEF TypeOK, FenceInv, SeesCurrentPicture, frame_arrives
<1>4. ASSUME NEW f \in flight, frame_fails(f)
      PROVE  FenceInv' /\ SeesCurrentPicture'
  BY <1>4 DEF TypeOK, FenceInv, SeesCurrentPicture, frame_fails, Fail
<1>5. CASE rk_surface_copy_to_stable_export
  BY <1>5 DEF TypeOK, FenceInv, SeesCurrentPicture,
              rk_surface_copy_to_stable_export
<1>6. CASE assign_failed
  BY <1>6 DEF TypeOK, FenceInv, SeesCurrentPicture, assign_failed, Fail
<1>7. CASE bind
  BY <1>7 DEF TypeOK, FenceInv, SeesCurrentPicture, bind
<1>8. ASSUME NEW t \in Threads, NEW call \in {"export", "derive"},
             access_begin(t, call)
      PROVE  FenceInv' /\ SeesCurrentPicture'
  BY <1>8 DEF FenceInv, SeesCurrentPicture, access_begin
<1>9. ASSUME NEW t \in Threads, ThreadStep(t)
      PROVE  FenceInv' /\ SeesCurrentPicture'
  <2>1. CASE sync_done(t)
    BY <2>1 DEF FenceInv, SeesCurrentPicture, sync_done
  <2>2. CASE export_finish(t)
    <3>1. CASE Repacks
      <4>1. decoded /\ Content(Active) = fence /\ fence # 0
        BY <3>1, ActivePicture DEF Repacks
      <4>2. export_buf' \in [pic : Nat, fence : Nat]
        BY <2>2, <3>1, <4>1 DEF TypeOK, export_finish
      <4>3. export_buf'.fence = fence /\ export_buf'.pic = fence
        BY <2>2, <3>1, <4>1 DEF TypeOK, FenceInv, export_finish
      <4>4. seen' = [pic |-> fence, fence |-> fence, decoded |-> decoded]
        BY <2>2, <3>1, <4>3 DEF export_finish, Look
      <4> QED
        BY <2>2, <3>1, <4>3, <4>4
           DEF FenceInv, SeesCurrentPicture, export_finish
    <3>2. CASE ~Repacks
      <4>1. SeesCurrentPicture'
        BY <2>2, <3>2, ActivePicture
           DEF SeesCurrentPicture, export_finish, Look
      <4> QED
        BY <2>2, <3>2, <4>1 DEF TypeOK, FenceInv, export_finish
    <3> QED
      BY <3>1, <3>2
  <2>3. CASE export_failed(t)
    BY <2>3 DEF TypeOK, FenceInv, SeesCurrentPicture, export_failed
  <2>4. CASE derive_check(t)
    BY <2>4 DEF FenceInv, SeesCurrentPicture, derive_check
  <2>5. CASE derive_finish(t)
    BY <2>5 DEF FenceInv, SeesCurrentPicture, derive_finish
  <2>6. CASE map_finish(t)
    BY <2>6 DEF FenceInv, SeesCurrentPicture, map_finish
  <2>7. CASE acquire_finish(t)
    BY <2>7 DEF FenceInv, SeesCurrentPicture, acquire_finish
  <2> QED
    BY <1>9, <2>1, <2>2, <2>3, <2>4, <2>5, <2>6, <2>7 DEF ThreadStep
<1>10. ASSUME NEW t \in Threads, NEW call \in {"map", "acquire"},
              recheck(t, call)
       PROVE  FenceInv' /\ SeesCurrentPicture'
  BY <1>10 DEF FenceInv, SeesCurrentPicture, recheck
<1>11. ASSUME NEW t \in Threads, rk_buffer_release_handle(t)
       PROVE  FenceInv' /\ SeesCurrentPicture'
  BY <1>11 DEF FenceInv, SeesCurrentPicture, rk_buffer_release_handle
<1>12. ASSUME NEW t \in Threads, rk_DestroyImage(t)
       PROVE  FenceInv' /\ SeesCurrentPicture'
  BY <1>12 DEF FenceInv, SeesCurrentPicture, rk_DestroyImage
<1>13. ASSUME NEW t \in Threads, rk_GetImage(t)
       PROVE  FenceInv' /\ SeesCurrentPicture'
  <2>1. SeesCurrentPicture'
    BY <1>13, ActivePicture DEF SeesCurrentPicture, rk_GetImage, Look
  <2> QED
    BY <1>13, <2>1 DEF FenceInv, rk_GetImage
<1> QED
  BY <1>1, <1>2, <1>3, <1>4, <1>5, <1>6, <1>7, <1>8, <1>9, <1>10, <1>11,
     <1>12, <1>13 DEF Next, WorkerStep

(* Types, FenceInv and what is seen, for every application.                *)
LEMMA SafeCorrect == Spec => []SafeInv
<1>1. Init => SafeInv
  <2> SUFFICES ASSUME Init PROVE SafeInv
    OBVIOUS
  <2>1. TypeOK
    BY DEF Init, TypeOK, Nothing
  <2>2. FenceInv /\ SeesCurrentPicture
    BY DEF Init, FenceInv, SeesCurrentPicture, Nothing
  <2> QED
    BY <2>1, <2>2 DEF SafeInv
<1>2. SafeInv /\ [Next]_vars => SafeInv'
  BY TypeStep, FenceStep DEF SafeInv
<1> QED
  BY <1>1, <1>2, PTL DEF Spec

(* The surface, its storage, its readers and its worker keep their types.  *)
THEOREM ExportTypes == Spec => []TypeOK
BY SafeCorrect, PTL DEF SafeInv

(* Whatever a thread reads or is handed from a surface that says decoded   *)
(* is the picture last begun on it.                                        *)
THEOREM ReadersSeeCurrent == Spec => []SeesCurrentPicture
BY SafeCorrect, PTL DEF SafeInv

(* Only the picture of the current fence is copied into priv_buf, and not  *)
(* after it was reported as decoded.                                       *)
THEOREM NoCopyIsLate == Spec => NoLateCopy
<1>1. SafeInv /\ [Next]_vars =>
        [priv' # priv => priv' = fence /\ ~decoded]_vars
  <2> SUFFICES ASSUME SafeInv, [Next]_vars, priv' # priv
               PROVE  priv' = fence /\ ~decoded
    OBVIOUS
  <2>1. rk_surface_copy_to_stable_export
    BY DEF Next, WorkerStep, ThreadStep, vars, surfVars, storeVars,
           workVars, userVars, rk_BeginPicture, frame_arrives, frame_fails,
           assign_failed, bind, access_begin, sync_done, export_finish,
           export_failed, derive_check, derive_finish, map_finish,
           acquire_finish, recheck, rk_buffer_release_handle,
           rk_DestroyImage, rk_GetImage
  <2> QED
    BY <2>1 DEF SafeInv, FenceInv, rk_surface_copy_to_stable_export
<1> QED
  BY <1>1, SafeCorrect, PTL DEF Spec, NoLateCopy

-----------------------------------------------------------------------------
(***************************************************************************)
(* The retained placeholder and derived images.                            *)
(***************************************************************************)

(* Steps that leave the storage, the worker and the surface alone, and put *)
(* no further thread into an export, cannot disturb StableInv.             *)
LEMMA StableKept ==
  ASSUME StableInv, RetainedFdShowsPicture,
         UNCHANGED <<surfVars, storeVars, workVars>>,
         \A t \in Threads : pc'[t] = "export" => pc[t] = "export"
  PROVE  StableInv' /\ RetainedFdShowsPicture'
BY DEF StableInv, RetainedFdShowsPicture, surfVars, storeVars, workVars

(* While no call overlaps a BeginPicture, every step keeps StableInv.      *)
LEMMA StableStep ==
  ASSUME ~BeginDuringAccess, TypeOK, FenceInv, StableInv,
         RetainedFdShowsPicture, [Next]_vars
  PROVE  StableInv' /\ RetainedFdShowsPicture'
<1> USE DEF surfVars, storeVars, workVars, userVars
<1>1. CASE UNCHANGED vars
  BY <1>1, StableKept DEF vars
<1>2. CASE rk_BeginPicture
  BY <1>2 DEF TypeOK, FenceInv, StableInv, RetainedFdShowsPicture,
              rk_BeginPicture
<1>3. ASSUME NEW f \in flight, frame_arrives(f)
      PROVE  StableInv' /\ RetainedFdShowsPicture'
  BY <1>3 DEF StableInv, RetainedFdShowsPicture, frame_arrives
<1>4. ASSUME NEW f \in flight, frame_fails(f)
      PROVE  StableInv' /\ RetainedFdShowsPicture'
  BY <1>4 DEF TypeOK, FenceInv, StableInv, RetainedFdShowsPicture,
              frame_fails, Fail
<1>5. CASE rk_surface_copy_to_stable_export
  BY <1>5 DEF TypeOK, FenceInv, StableInv, RetainedFdShowsPicture,
              rk_surface_copy_to_stable_export
<1>6. CASE assign_failed
  BY <1>6 DEF TypeOK, FenceInv, StableInv, RetainedFdShowsPicture,
              assign_failed, Fail
<1>7. CASE bind
  BY <1>7 DEF TypeOK, FenceInv, StableInv, RetainedFdShowsPicture, bind
<1>8. ASSUME NEW t \in Threads, NEW call \in {"export", "derive"},
             access_begin(t, call)
      PROVE  StableInv' /\ RetainedFdShowsPicture'
  <2>1. \A u \in Threads :
          pc'[u] = "export" => pc[u] = "export" \/ ~NeedsSync
    BY <1>8 DEF TypeOK, access_begin, SyncFor
  <2> QED
    BY <1>8, <2>1 DEF StableInv, RetainedFdShowsPicture, NeedsSync,
                      access_begin
<1>9. ASSUME NEW t \in Threads, sync_done(t)
      PROVE  StableInv' /\ RetainedFdShowsPicture'
  <2>1. \A u \in Threads : pc'[u] = "export" => pc[u] = "export" \/ decoded
    BY <1>9 DEF TypeOK, sync_done
  <2> QED
    BY <1>9, <2>1 DEF StableInv, RetainedFdShowsPicture, sync_done
<1>10. ASSUME NEW t \in Threads, export_finish(t) \/ export_failed(t)
       PROVE  StableInv' /\ RetainedFdShowsPicture'
  <2>1. Placeholder => fence = 0
    BY <1>10 DEF StableInv, Placeholder, export_finish, export_failed
  <2>2. \A u \in Threads : pc'[u] = "export" => pc[u] = "export"
    BY <1>10 DEF TypeOK, export_finish, export_failed
  <2>3. /\ UNCHANGED <<surfVars, priv, priv_pitch, workVars>>
        /\ stable_export' = (stable_export \/ Placeholder)
    BY <1>10 DEF export_finish, export_failed
  <2>4. Active = 0 => hstride = PrivPitch
    BY <1>10 DEF FenceInv, StableInv, Active, export_finish, export_failed
  <2>5. retained' \subseteq {PrivPitch}
    BY <1>10, <2>4 DEF StableInv, export_finish, export_failed
  <2>6. wpc # "idle" => fence # 0
    BY DEF TypeOK, FenceInv
  <2> QED
    BY <2>1, <2>2, <2>3, <2>5, <2>6
       DEF TypeOK, StableInv, RetainedFdShowsPicture, Placeholder
<1>11. ASSUME NEW t \in Threads,
              \/ derive_check(t) \/ derive_finish(t) \/ map_finish(t)
              \/ acquire_finish(t) \/ rk_buffer_release_handle(t)
              \/ rk_DestroyImage(t) \/ rk_GetImage(t)
              \/ \E call \in {"map", "acquire"} : recheck(t, call)
       PROVE  StableInv' /\ RetainedFdShowsPicture'
  <2>1. /\ UNCHANGED <<surfVars, storeVars, workVars>>
        /\ \A u \in Threads : pc'[u] = "export" => pc[u] = "export"
    BY <1>11 DEF TypeOK, derive_check, derive_finish, map_finish,
                 acquire_finish, rk_buffer_release_handle, rk_DestroyImage,
                 rk_GetImage, recheck
  <2> QED
    BY <2>1, StableKept
<1> QED
  BY <1>1, <1>2, <1>3, <1>4, <1>5, <1>6, <1>7, <1>8, <1>9, <1>10, <1>11
     DEF Next, WorkerStep, ThreadStep

(* What ImageInv asks of one image.                                        *)
ImageFits(m) ==
  /\ m.pitch # PrivPitch => fence # 0 /\ ~stable_export
  /\ \A b \in {m.fd, m.map, m.handle} :
       b = NoFd \/ b = 0 \/ m.pitch = MppPitch

(* A step that changes no image and does not make a surface stable after   *)
(* its first picture keeps ImageInv.                                       *)
LEMMA ImageKept ==
  ASSUME ImageInv, UNCHANGED image,
         stable_export' => stable_export \/ fence = 0,
         fence # 0 => fence' # 0
  PROVE  ImageInv'
BY DEF ImageInv

(* So does one that gives thread t an image that fits, or none.            *)
LEMMA ImageChanged ==
  ASSUME TypeOK, ImageInv, NEW t \in Threads, NEW m,
         m # NoImage => ImageFits(m),
         image' = [image EXCEPT ![t] = m],
         UNCHANGED <<stable_export, fence>>
  PROVE  ImageInv'
BY DEF TypeOK, ImageInv, ImageFits

(* What derived_still_valid leaves of an image fits.                       *)
LEMMA FollowFits ==
  ASSUME TypeOK, FenceInv, StableInv, ImageInv, NEW t \in Threads,
         image[t] # NoImage, derived_still_valid(t)
  PROVE  ImageFits(Follow(t))
<1>1. image[t] \in Image /\ ImageFits(image[t])
  BY DEF TypeOK, ImageInv, ImageFits
<1>2. CASE image[t].fd = Active
  BY <1>1, <1>2 DEF Follow
<1>3. CASE image[t].fd # Active
  <2>1. Follow(t) = [image[t] EXCEPT !.fd = Active, !.map = NoFd,
                                     !.handle = NoFd]
    BY <1>3 DEF Follow
  <2>2. /\ Follow(t).pitch = image[t].pitch /\ Follow(t).fd = Active
        /\ Follow(t).map = NoFd /\ Follow(t).handle = NoFd
    BY <1>1, <2>1 DEF Image
  <2> QED
    BY <1>1, <2>2 DEF ImageFits, FenceInv, Active, derived_still_valid
<1> QED
  BY <1>2, <1>3

(* While no call overlaps a BeginPicture, every step keeps ImageInv.       *)
LEMMA ImageStep ==
  ASSUME ~BeginDuringAccess, TypeOK, FenceInv, StableInv, ImageInv,
         [Next]_vars
  PROVE  ImageInv'
<1> USE DEF surfVars, storeVars, workVars, userVars
<1>1. CASE UNCHANGED vars
  BY <1>1, ImageKept DEF vars
<1>2. CASE rk_BeginPicture
  BY <1>2, ImageKept DEF TypeOK, rk_BeginPicture
<1>3. CASE WorkerStep
  BY <1>3, ImageKept
     DEF WorkerStep, frame_arrives, frame_fails, assign_failed, bind,
         rk_surface_copy_to_stable_export
<1>4. ASSUME NEW t \in Threads,
             \/ \E call \in {"export", "derive"} : access_begin(t, call)
             \/ sync_done(t) \/ derive_check(t) \/ rk_GetImage(t)
      PROVE  ImageInv'
  BY <1>4, ImageKept DEF access_begin, sync_done, derive_check, rk_GetImage
<1>5. ASSUME NEW t \in Threads, export_finish(t) \/ export_failed(t)
      PROVE  ImageInv'
  <2>1. Placeholder => fence = 0
    BY <1>5 DEF StableInv, Placeholder, export_finish, export_failed
  <2> QED
    BY <1>5, <2>1, ImageKept DEF export_finish, export_failed
<1>6. ASSUME NEW t \in Threads, derive_finish(t) PROVE ImageInv'
  <2> DEFINE m == [pitch |-> hstride, fd |-> Active, map |-> NoFd,
                   handle |-> NoFd]
  <2>1. ImageFits(m)
    BY DEF ImageFits, FenceInv, StableInv, Active
  <2> QED
    BY <1>6, <2>1, ImageChanged DEF derive_finish
<1>7. ASSUME NEW t \in Threads, map_finish(t) PROVE ImageInv'
  <2>1. image[t] \in Image /\ image[t] # NoImage /\ ImageFits(image[t])
    BY <1>7 DEF TypeOK, ImageInv, ImageFits, map_finish
  <2> DEFINE m == [image[t] EXCEPT !.map = IF @ = NoFd THEN image[t].fd
                                                       ELSE @]
  <2>2. ImageFits(m)
    BY <2>1 DEF ImageFits, Image
  <2>3. image' = [image EXCEPT ![t] = m]
    BY <1>7, <2>1 DEF TypeOK, map_finish
  <2> QED
    BY <1>7, <2>2, <2>3, ImageChanged DEF map_finish
<1>8. ASSUME NEW t \in Threads, acquire_finish(t) PROVE ImageInv'
  <2>1. image[t] \in Image /\ image[t] # NoImage /\ ImageFits(image[t])
    BY <1>8 DEF TypeOK, ImageInv, ImageFits, acquire_finish
  <2> DEFINE m == [image[t] EXCEPT !.handle = image[t].fd]
  <2>2. ImageFits(m)
    BY <2>1 DEF ImageFits, Image
  <2>3. derived_still_valid(t) => ImageFits(Follow(t))
    BY <2>1, FollowFits
  <2>4. \/ image' = image
        \/ image' = [image EXCEPT ![t] = m]
        \/ /\ derived_still_valid(t)
           /\ image' = [image EXCEPT ![t] = Follow(t)]
    BY <1>8 DEF TypeOK, acquire_finish
  <2>5. UNCHANGED <<stable_export, fence>>
    BY <1>8 DEF acquire_finish
  <2> HIDE DEF m
  <2> QED
    BY <2>2, <2>3, <2>4, <2>5, ImageChanged, ImageKept
<1>9. ASSUME NEW t \in Threads, NEW call \in {"map", "acquire"},
             recheck(t, call)
      PROVE  ImageInv'
  BY <1>9, FollowFits, ImageChanged DEF recheck
<1>10. ASSUME NEW t \in Threads, rk_buffer_release_handle(t)
       PROVE  ImageInv'
  <2>1. image[t] \in Image /\ ImageFits(image[t])
    BY <1>10 DEF TypeOK, ImageInv, ImageFits, rk_buffer_release_handle
  <2> DEFINE m == [image[t] EXCEPT !.handle = NoFd]
  <2>2. ImageFits(m)
    BY <2>1 DEF ImageFits, Image
  <2>3. image' = [image EXCEPT ![t] = m]
    BY <1>10, <2>1 DEF TypeOK, rk_buffer_release_handle
  <2> QED
    BY <1>10, <2>2, <2>3, ImageChanged DEF rk_buffer_release_handle
<1>11. ASSUME NEW t \in Threads, rk_DestroyImage(t) PROVE ImageInv'
  BY <1>11, ImageChanged DEF rk_DestroyImage
<1> QED
  BY <1>1, <1>2, <1>3, <1>4, <1>5, <1>6, <1>7, <1>8, <1>9, <1>10, <1>11
     DEF Next, ThreadStep

(* StorageInv for every application that keeps its calls apart.            *)
LEMMA StorageCorrect == ~BeginDuringAccess => (Spec => []StorageInv)
<1> SUFFICES ASSUME ~BeginDuringAccess PROVE Spec => []StorageInv
  OBVIOUS
<1>1. Init => StorageInv
  BY DEF Init, StorageInv, StableInv, RetainedFdShowsPicture, ImageInv
<1>2. SafeInv /\ StorageInv /\ [Next]_vars => StorageInv'
  BY StableStep, ImageStep DEF SafeInv, StorageInv
<1> QED
  BY <1>1, <1>2, SafeCorrect, PTL DEF Spec

(* Once the placeholder was exported, a decoded surface has its picture in *)
(* it and nowhere else, unless the application reuses a surface during its *)
(* own call on it.                                                         *)
THEOREM RetainedFdCorrect ==
  ~BeginDuringAccess => (Spec => []RetainedFdShowsPicture)
BY StorageCorrect, PTL DEF StorageInv

(* The pitch a retained buffer was exported with stays the pitch its       *)
(* pictures are written with.                                              *)
THEOREM RetainedGeometryCorrect ==
  ~BeginDuringAccess => (Spec => []RetainedGeometry)
<1>1. StorageInv => RetainedGeometry
  BY DEF StorageInv, StableInv, RetainedGeometry
<1> QED
  BY <1>1, StorageCorrect, PTL

(* Derived images never map or hand out pixels of another geometry.        *)
THEOREM ImageGeometryCorrect ==
  ~BeginDuringAccess => (Spec => []ImageGeometry)
<1>1. StorageInv => ImageGeometry
  <2> SUFFICES ASSUME StorageInv, NEW t \in Threads, image[t] # NoImage,
                      NEW b \in {image[t].map, image[t].handle} \ {NoFd},
                      Content(b) # 0
               PROVE  LayoutOf(b) = image[t].pitch
    BY DEF ImageGeometry
  <2>1. CASE b = 0
    BY <2>1 DEF StorageInv, StableInv, ImageInv, Content, LayoutOf
  <2>2. CASE b # 0
    BY <2>2 DEF StorageInv, ImageInv, LayoutOf
  <2> QED
    BY <2>1, <2>2
<1> QED
  BY <1>1, StorageCorrect, PTL
=============================================================================
