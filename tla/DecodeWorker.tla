---------------------------- MODULE DecodeWorker ----------------------------
(***************************************************************************)
(* One decode context: the application's BeginPicture / EndPicture calls   *)
(* (context.c), the job queue, the worker thread that feeds MPP and routes *)
(* its output frames back to VA surfaces, the stall timer, and the bounded *)
(* drain of vaDestroyContext (mpp_dec.c).                                  *)
(*                                                                         *)
(* A critical section on picture_lock, work_lock or a surface's lock is    *)
(* one step, together with the thread-local work next to it.  Routes and   *)
(* outstanding_frames belong to the worker thread alone.                   *)
(*                                                                         *)
(* Pictures are numbered as the application begins them; the numbers that  *)
(* travel with jobs, routes and packets are ghosts, no guard reads them.   *)
(***************************************************************************)
EXTENDS Integers, Sequences, FiniteSets

CONSTANTS
  Surfaces,       \* VA surfaces the application decodes into
  NoSurface,      \* VA_INVALID_SURFACE
  Codecs,         \* the codecs of the context: among "AVC", "HEVC", "VP9"
  Kinds,          \* the kinds of picture the stream holds, see KindsOf
  ApiThreads,     \* how many VA calls may be under way at once
  MaxBegins,      \* bound: BeginPicture calls of the application
  ReuseInFlight,  \* codecs for which the application may begin a new picture
                  \* on a surface whose last one is not settled yet
  MppLoses,       \* codecs for which MPP may never return a frame
  MppStalls       \* codecs for which MPP may be silent for longer than
                  \* the stall timeout

KindsOf(codec) ==
  CASE codec = "AVC"  -> {"frame", "field"}
    [] codec = "HEVC" -> {"frame"}
    [] codec = "VP9"  -> {"frame", "altref", "unref", "empty"}

ASSUME DecodeAssumption ==
  /\ NoSurface \notin Surfaces
  /\ Codecs \subseteq {"AVC", "HEVC", "VP9"}
  /\ Kinds \subseteq UNION {KindsOf(codec) : codec \in Codecs}
  /\ ApiThreads \in Nat \ {0}
  /\ MaxBegins \in Nat
  /\ ReuseInFlight \cup MppLoses \cup MppStalls \subseteq Codecs

VARIABLES
  \* RKSurface
  fence, decoded, decode_failed, h264_field_pending,
  bound,          \* ghost: the picture in s->frame, 0 for NULL
  want,           \* ghost: the picture the application last began here
  fields,         \* ghost: fields of that picture ended so far
  \* RKContext, API side
  coding,         \* chosen by CreateContext
  ctx,            \* "live", "stopping" (in rk_mpp_dec_stop), "destroyed"
  render,         \* the picture between Begin and End, or NoPicture
  built,          \* what calls that let go of picture_lock still have in
                  \* hand: a job to enqueue, or an "abandoned" picture
  jobs,           \* job_head .. job_tail
  next_token,
  begins,         \* ghost: BeginPicture calls so far; numbers new pictures
  \* RKContext, worker side
  pc,             \* "loop", "put", "after", "assign", "eos", "exited"
  cur,            \* the job being submitted, or NoPicture
  new_route,      \* worker_submit_job's local of that name
  own_route,      \* ghost: the route cur added is still allocated
  h264_routes,    \* token routes (a set: tokens tell them apart)
  generic,        \* VP9 routes, a FIFO
  outstanding,    \* outstanding_frames
  asg,            \* the route and frame in assign_mpp_frame, or NoAssign
  back,           \* where drain_output_frame returns to
  stalled,        \* stalled_since_ns # 0
  eos_signalled, saw_eos,
  expired,        \* the drain deadline has passed
  freed_twice,    \* ghost: a route was destroyed a second time
  \* MPP
  mpp,            \* packets accepted whose frame is not out yet
  mpp_eos         \* the end-of-stream packet was accepted

surfVars   == <<fence, decoded, decode_failed, h264_field_pending, bound>>
appVars    == <<want, fields, begins>>
apiVars    == <<ctx, render, built, next_token>>
submitVars == <<cur, new_route, own_route, freed_twice>>
routeVars  == <<h264_routes, generic, outstanding>>
frameVars  == <<asg, back, stalled, saw_eos>>
clockVars  == <<coding, eos_signalled, expired>>
mppVars    == <<mpp, mpp_eos>>

vars == <<surfVars, appVars, apiVars, jobs, pc, submitVars, routeVars,
          frameVars, clockVars, mppVars>>

NoPicture == [surf |-> NoSurface, fence |-> 0, pic |-> 0, kind |-> "none",
              tok |-> 0]
NoAssign  == [route |-> NoPicture, frame |-> [tok |-> 0, pic |-> 0]]

codec_uses_token_routes == coding \in {"AVC", "HEVC"}

Init ==
  /\ fence = [s \in Surfaces |-> 0]
  /\ decoded = [s \in Surfaces |-> FALSE]
  /\ decode_failed = [s \in Surfaces |-> FALSE]
  /\ h264_field_pending = [s \in Surfaces |-> FALSE]
  /\ bound = [s \in Surfaces |-> 0]
  /\ want = [s \in Surfaces |-> 0]
  /\ fields = [s \in Surfaces |-> 0]
  /\ begins = 0
  /\ ctx = "live"
  /\ render = NoPicture
  /\ built = {}
  /\ jobs = <<>>
  /\ next_token = 0
  /\ pc = "loop"
  /\ cur = NoPicture
  /\ new_route = FALSE
  /\ own_route = FALSE
  /\ freed_twice = FALSE
  /\ h264_routes = {}
  /\ generic = <<>>
  /\ outstanding = 0
  /\ asg = NoAssign
  /\ back = "loop"
  /\ stalled = FALSE
  /\ saw_eos = FALSE
  /\ coding \in Codecs
  /\ eos_signalled = FALSE
  /\ expired = FALSE
  /\ mpp = {}
  /\ mpp_eos = FALSE

(***************************************************************************)
(* Settling a fence, under the surface's lock.                             *)
(***************************************************************************)

(* Slip: the fence is not compared.                                        *)
Complete_any_fence(s, f, success) ==
  /\ decoded' = [decoded EXCEPT ![s] = success]
  /\ decode_failed' = [decode_failed EXCEPT ![s] = ~success]
  /\ h264_field_pending' = [h264_field_pending EXCEPT ![s] = FALSE]

(* complete_surface_ref(surface, fence, success).                          *)
Complete(s, f, success) ==
  IF fence[s] = f
    THEN /\ decoded' = [decoded EXCEPT ![s] = success]
         /\ decode_failed' = [decode_failed EXCEPT ![s] = ~success]
         /\ h264_field_pending' = [h264_field_pending EXCEPT ![s] = FALSE]
    ELSE UNCHANGED <<decoded, decode_failed, h264_field_pending>>

(* rk_mpp_dec_fail_surface on every element of a set of routes or jobs: it *)
(* leaves a decoded surface and a later fence alone.                       *)
FailAll(R, fen, dec, fail) ==
  [s \in Surfaces |->
     fail[s] \/ (~dec[s] /\ \E r \in R : r.surf = s /\ r.fence = fen[s])]

-----------------------------------------------------------------------------
(***************************************************************************)
(* The application's calls.                                                *)
(***************************************************************************)

Settled(s) == decoded[s] \/ decode_failed[s]

(* What the application starts on s: a new picture, or (second) the other  *)
(* field of the picture it began there before.                             *)
MayBegin(s, second) ==
  /\ begins < MaxBegins
  /\ IF second THEN "field" \in Kinds \cap KindsOf(coding) /\ fields[s] = 1
               ELSE coding \in ReuseInFlight \/ fence[s] = 0 \/ Settled(s)

Continuation(s) ==
  /\ coding = "AVC"
  /\ h264_field_pending[s]
  /\ ~decoded[s] /\ ~decode_failed[s]
  /\ fence[s] # 0

(* The picture in render, which the call will fail.                        *)
Abandoned == {[render EXCEPT !.kind = "abandoned"]}

(* A picture begun before and never ended is failed after picture_lock is  *)
(* released.  Until it is queued a picture's tok only tells calls apart.   *)
rk_BeginPicture(s, second) ==
  LET cont == Continuation(s)
      pic  == IF second THEN want[s] ELSE begins + 1
  IN  /\ ctx = "live"
      /\ Cardinality(built) < ApiThreads
      /\ MayBegin(s, second)
      /\ fence' = [fence EXCEPT ![s] = IF cont THEN @ ELSE @ + 1]
      /\ decoded' = [decoded EXCEPT ![s] = FALSE]
      /\ decode_failed' = [decode_failed EXCEPT ![s] = FALSE]
      /\ h264_field_pending' = [h264_field_pending EXCEPT ![s] = cont]
      /\ bound' = [bound EXCEPT ![s] = IF cont THEN @ ELSE 0]
      /\ want' = [want EXCEPT ![s] = pic]
      /\ fields' = IF second THEN fields ELSE [fields EXCEPT ![s] = 0]
      /\ begins' = begins + 1
      /\ render' = [surf |-> s, fence |-> fence'[s], pic |-> pic,
                    kind |-> IF second THEN "second" ELSE "first",
                    tok |-> begins + 1]
      /\ built' = IF render = NoPicture THEN built ELSE built \cup Abandoned
      /\ UNCHANGED <<ctx, next_token, jobs, pc, submitVars, routeVars,
                     frameVars, clockVars, mppVars>>

(* EndPicture up to the unlock of picture_lock, when a job was assembled.  *)
end_build(kind) ==
  LET s == render.surf
  IN  /\ ctx = "live"
      /\ render # NoPicture
      /\ Cardinality(built) < ApiThreads
      /\ render.kind = "second" => kind = "field"
      /\ built' = built \cup {[render EXCEPT !.kind = kind]}
      /\ h264_field_pending' =
           IF fence[s] = render.fence
             THEN [h264_field_pending EXCEPT ![s] = kind = "field"]
             ELSE h264_field_pending
      /\ fields' = [fields EXCEPT ![s] =
                      IF kind = "field" /\ want[s] = render.pic
                        THEN @ + 1 ELSE @]
      /\ render' = NoPicture
      /\ UNCHANGED <<fence, decoded, decode_failed, bound, want, begins, ctx,
                     next_token, jobs, pc, submitVars, routeVars, frameVars,
                     clockVars, mppVars>>

(* EndPicture up to the unlock when the job cannot be assembled (missing   *)
(* or malformed buffers, no memory).                                       *)
end_failed ==
  /\ ctx = "live"
  /\ render # NoPicture
  /\ Cardinality(built) < ApiThreads
  /\ built' = built \cup Abandoned
  /\ render' = NoPicture
  /\ UNCHANGED <<surfVars, appVars, ctx, next_token, jobs, pc, submitVars,
                 routeVars, frameVars, clockVars, mppVars>>

(* The call fails the picture it took out of render, by now perhaps on a   *)
(* surface that has been begun again.                                      *)
rk_mpp_dec_fail_surface(j) ==
  /\ j.kind = "abandoned"
  /\ decode_failed' = FailAll({j}, fence, decoded, decode_failed)
  /\ built' = built \ {j}
  /\ UNCHANGED <<fence, decoded, h264_field_pending, bound, appVars, ctx,
                 render, next_token, jobs, pc, submitVars, routeVars,
                 frameVars, clockVars, mppVars>>

(* worker_stop cannot be set here: the call holds a context reference, and *)
(* rk_mpp_dec_stop runs when the last one is gone.                         *)
rk_mpp_dec_enqueue_job(j) ==
  /\ j.kind # "abandoned"
  /\ built' = built \ {j}
  /\ next_token' = next_token + 1
  /\ jobs' = Append(jobs, [j EXCEPT !.tok = next_token + 1])
  /\ UNCHANGED <<surfVars, appVars, ctx, render, pc, submitVars, routeVars,
                 frameVars, clockVars, mppVars>>

(* vaDestroyContext: the last reference is dropped once no call is under   *)
(* way; rk_mpp_dec_stop starts the drain and joins the worker.             *)
rk_DestroyContext ==
  /\ ctx = "live"
  /\ built = {}
  /\ ctx' = "stopping"
  /\ UNCHANGED <<surfVars, appVars, render, built, next_token, jobs, pc,
                 submitVars, routeVars, frameVars, clockVars, mppVars>>

(* The wall clock passes drain_deadline_ns.                                *)
drain_deadline ==
  /\ ctx = "stopping" /\ ~expired
  /\ expired' = TRUE
  /\ UNCHANGED <<surfVars, appVars, apiVars, jobs, pc, submitVars, routeVars,
                 frameVars, coding, eos_signalled, mppVars>>

RoutesOf == h264_routes \cup {generic[i] : i \in DOMAIN generic}
JobsOf   == {jobs[i] : i \in DOMAIN jobs}

(* rk_mpp_dec_stop after the join: whatever is left is failed.             *)
stop_joined ==
  /\ ctx = "stopping" /\ pc = "exited"
  /\ ctx' = "destroyed"
  /\ decode_failed' = FailAll(JobsOf \cup RoutesOf \cup {render}, fence,
                              decoded, decode_failed)
  /\ jobs' = <<>>
  /\ h264_routes' = {}
  /\ generic' = <<>>
  /\ outstanding' = 0
  /\ render' = NoPicture
  /\ mpp' = {}
  /\ UNCHANGED <<fence, decoded, h264_field_pending, bound, appVars, built,
                 next_token, pc, submitVars, frameVars, clockVars, mpp_eos>>

-----------------------------------------------------------------------------
(***************************************************************************)
(* The worker thread: submitting a job.                                    *)
(***************************************************************************)
draining == ctx = "stopping"

(* The three ways rk_mpp_dec_worker_main leaves its loop.                  *)
LoopEnds ==
  /\ draining
  /\ expired \/ saw_eos \/ (jobs = <<>> /\ outstanding = 0)

RoutesFor(s, f) == {r \in h264_routes : r.surf = s /\ r.fence = f}

(* The token worker_submit_job puts on the packet: that of the route it    *)
(* found for a paired field, or the job's own.                             *)
route_token == cur.tok

(* worker_submit_job up to the first put: the route is added before the    *)
(* packet.  A hidden VP9 picture has none yet, a job with no data is       *)
(* completed at once.                                                      *)
submit_token_job(job) ==
  LET found == IF coding = "AVC" /\ job.kind = "field"
                 THEN RoutesFor(job.surf, job.fence) ELSE {}
  IN  /\ new_route' = (found = {})
      /\ own_route' = (found = {})
      /\ h264_routes' = IF found = {} THEN h264_routes \cup {job}
                                      ELSE h264_routes
      /\ cur' = IF found = {} THEN job
                ELSE [job EXCEPT !.tok = (CHOOSE r \in found : TRUE).tok]
      /\ pc' = "put"
      /\ UNCHANGED <<decoded, decode_failed, h264_field_pending, generic>>

submit_generic_job(job) ==
  IF job.kind = "empty"
    THEN /\ Complete(job.surf, job.fence, TRUE)
         /\ UNCHANGED <<pc, cur, new_route, own_route, generic, h264_routes>>
    ELSE /\ cur' = job
         /\ pc' = "put"
         /\ new_route' = TRUE
         /\ own_route' = (job.kind = "frame")
         /\ generic' = IF job.kind = "frame" THEN Append(generic, job)
                                             ELSE generic
         /\ UNCHANGED <<decoded, decode_failed, h264_field_pending,
                        h264_routes>>

take_job ==
  /\ pc = "loop" /\ ~LoopEnds
  /\ jobs # <<>>
  /\ jobs' = Tail(jobs)
  /\ stalled' = FALSE
  /\ IF codec_uses_token_routes THEN submit_token_job(Head(jobs))
                                ELSE submit_generic_job(Head(jobs))
  /\ UNCHANGED <<fence, bound, appVars, apiVars, freed_twice, outstanding,
                 asg, back, saw_eos, clockVars, mppVars>>

decode_worker_stopping == draining /\ expired

(* The packet is in; its output is tracked.  A paired field whose route    *)
(* was consumed by the draining meanwhile gets a replacement, or fails if  *)
(* there is no memory for one.                                             *)
put_token_accepted ==
  LET lost == ~new_route /\ RoutesFor(cur.surf, cur.fence) = {}
  IN  /\ mpp' = mpp \cup {[tok |-> route_token, pic |-> cur.pic]}
      /\ \/ /\ h264_routes' = IF lost THEN h264_routes \cup {cur}
                                       ELSE h264_routes
            /\ outstanding' = IF new_route \/ lost THEN outstanding + 1
                                                   ELSE outstanding
            /\ UNCHANGED <<decoded, decode_failed, h264_field_pending>>
         \/ /\ lost
            /\ Complete(cur.surf, cur.fence, FALSE)
            /\ UNCHANGED <<h264_routes, outstanding>>
      /\ pc' = IF coding = "HEVC" THEN "after" ELSE "loop"
      /\ cur' = NoPicture
      /\ own_route' = FALSE
      /\ UNCHANGED generic

(* A hidden picture goes in without output.  If it refreshes a reference   *)
(* slot, the synthetic show-existing packet follows with a route.          *)
put_generic_accepted ==
  /\ CASE cur.kind = "unref" ->
            /\ Complete(cur.surf, cur.fence, TRUE)
            /\ pc' = "loop" /\ cur' = NoPicture /\ own_route' = FALSE
            /\ UNCHANGED <<mpp, generic, outstanding>>
       [] cur.kind = "altref" ->
            /\ cur' = [cur EXCEPT !.kind = "repeat"]
            /\ generic' = Append(generic, cur')
            /\ own_route' = TRUE
            /\ UNCHANGED <<decoded, decode_failed, h264_field_pending, pc,
                           mpp, outstanding>>
       [] OTHER ->
            /\ mpp' = mpp \cup {[tok |-> cur.tok, pic |-> cur.pic]}
            /\ outstanding' = outstanding + 1
            /\ pc' = "loop" /\ cur' = NoPicture /\ own_route' = FALSE
            /\ UNCHANGED <<decoded, decode_failed, h264_field_pending,
                           generic>>
  /\ UNCHANGED h264_routes

put_accepted ==
  /\ pc = "put" /\ ~decode_worker_stopping
  /\ IF codec_uses_token_routes THEN put_token_accepted
                                ELSE put_generic_accepted
  /\ UNCHANGED <<fence, bound, appVars, apiVars, jobs, new_route,
                 freed_twice, frameVars, clockVars, mpp_eos>>

MinusOne(n) == IF n > 0 THEN n - 1 ELSE 0

(* The FIFO without the route of a token, which it may have lost already.  *)
generic_route_remove(token) ==
  LET places == {i \in DOMAIN generic : generic[i].tok = token}
      at     == CHOOSE i \in places : TRUE
  IN  IF places = {} THEN generic
      ELSE [i \in 1 .. Len(generic) - 1 |->
              IF i < at THEN generic[i] ELSE generic[i + 1]]

(* Slip: the failing submission leaves its fence pending.                  *)
put_failed_silent ==
  /\ pc = "put"
  /\ h264_routes' = {r \in h264_routes : r.tok # route_token}
  /\ generic' = generic_route_remove(cur.tok)
  /\ pc' = "loop"
  /\ cur' = NoPicture
  /\ own_route' = FALSE
  /\ UNCHANGED <<surfVars, appVars, apiVars, jobs, new_route, freed_twice,
                 outstanding, frameVars, clockVars, mppVars>>

(* put_packet_draining gives up: the retries are used up, the output pool  *)
(* cannot grow, or the drain deadline has passed.  The token path looks    *)
(* its route up again; the VP9 path destroys the one it remembers.         *)
put_failed ==
  /\ pc = "put"
  /\ LET mine == {r \in h264_routes : r.tok = route_token}
     IN  /\ h264_routes' = h264_routes \ mine
         /\ outstanding' = IF codec_uses_token_routes /\ ~new_route
                              /\ mine # {}
                             THEN MinusOne(outstanding) ELSE outstanding
  /\ generic' = generic_route_remove(cur.tok)
  /\ freed_twice' = (freed_twice \/ (~codec_uses_token_routes /\ ~own_route
                                     /\ cur.kind \in {"frame", "repeat"}))
  /\ Complete(cur.surf, cur.fence, FALSE)
  /\ pc' = "loop"
  /\ cur' = NoPicture
  /\ own_route' = FALSE
  /\ UNCHANGED <<fence, bound, appVars, apiVars, jobs, new_route, frameVars,
                 clockVars, mppVars>>

-----------------------------------------------------------------------------
(***************************************************************************)
(* The worker thread: draining MPP's output.  drain_output_frame is called *)
(* from the main loop when no job waits, from put_packet_draining when MPP *)
(* rejects the packet, after every HEVC submission, and while the          *)
(* end-of-stream packet is being rejected.                                 *)
(***************************************************************************)
MayDrain ==
  \/ /\ pc = "loop" /\ ~LoopEnds
     /\ jobs = <<>>
     /\ outstanding > 0 \/ draining
     /\ draining => eos_signalled
  \/ pc = "put" /\ ~decode_worker_stopping
  \/ pc = "after" /\ outstanding > 0
  \/ pc = "eos"

ReturnTo == IF pc = "after" THEN "loop" ELSE pc

(* The route of a frame: by token, or the oldest one.                      *)
Candidates(frame) ==
  IF codec_uses_token_routes
    THEN {r \in h264_routes : r.tok = frame.tok}
    ELSE IF generic = <<>> THEN {} ELSE {Head(generic)}

(* Slip: the frame of a reused surface is dropped without being counted.   *)
route_frame_uncounted(frame) ==
  LET route == CHOOSE r \in Candidates(frame) : TRUE
      stale == fence[route.surf] # route.fence
  IN  IF Candidates(frame) = {}
        THEN /\ pc' = ReturnTo
             /\ UNCHANGED <<routeVars, asg, back, own_route>>
        ELSE /\ h264_routes' = h264_routes \ {route}
             /\ generic' = IF codec_uses_token_routes THEN generic
                                                      ELSE Tail(generic)
             /\ own_route' = (own_route /\ route.tok # cur.tok)
             /\ UNCHANGED outstanding
             /\ IF stale
                  THEN pc' = ReturnTo /\ UNCHANGED <<asg, back>>
                  ELSE /\ pc' = "assign"
                       /\ asg' = [route |-> route, frame |-> frame]
                       /\ back' = ReturnTo

(* assign_mpp_frame up to the first check of the fence.                    *)
route_frame(frame) ==
  LET route == CHOOSE r \in Candidates(frame) : TRUE
      stale == fence[route.surf] # route.fence
  IN  IF Candidates(frame) = {}
        THEN /\ pc' = ReturnTo
             /\ UNCHANGED <<routeVars, asg, back, own_route>>
        ELSE /\ h264_routes' = h264_routes \ {route}
             /\ generic' = IF codec_uses_token_routes THEN generic
                                                      ELSE Tail(generic)
             /\ own_route' = (own_route /\ route.tok # cur.tok)
             /\ IF stale
                  THEN /\ pc' = ReturnTo
                       /\ outstanding' = MinusOne(outstanding)
                       /\ UNCHANGED <<asg, back>>
                  ELSE /\ pc' = "assign"
                       /\ asg' = [route |-> route, frame |-> frame]
                       /\ back' = ReturnTo
                       /\ UNCHANGED outstanding

Drained ==
  /\ stalled' = IF pc = "loop" THEN FALSE ELSE stalled
  /\ UNCHANGED <<surfVars, appVars, apiVars, jobs, cur, new_route,
                 freed_twice, clockVars, mpp_eos>>

(* MPP returns the frame of one packet: the oldest for VP9, any for the    *)
(* token codecs.  After the end-of-stream packet the last one says so.     *)
Deliverable(packet) ==
  codec_uses_token_routes \/ \A q \in mpp : packet.tok <= q.tok

drain_frame(packet) ==
  /\ MayDrain
  /\ Deliverable(packet)
  /\ mpp' = mpp \ {packet}
  /\ saw_eos' = (saw_eos \/ (mpp_eos /\ mpp' = {}))
  /\ route_frame(packet)
  /\ Drained

(* The end-of-stream frame with no picture in it.                          *)
drain_eos_marker ==
  /\ MayDrain
  /\ mpp_eos /\ mpp = {} /\ ~saw_eos
  /\ saw_eos' = TRUE
  /\ route_frame([tok |-> 0, pic |-> 0])
  /\ UNCHANGED mpp
  /\ Drained

(* A HEVC submission is followed by one output wait, which may time out.   *)
after_submit_timeout ==
  /\ pc = "after"
  /\ pc' = "loop"
  /\ UNCHANGED <<surfVars, appVars, apiVars, jobs, submitVars, routeVars,
                 frameVars, clockVars, mppVars>>

Assigned ==
  /\ outstanding' = MinusOne(outstanding)
  /\ asg' = NoAssign
  /\ pc' = back
  /\ UNCHANGED <<fence, appVars, apiVars, jobs, submitVars, h264_routes,
                 generic, back, stalled, saw_eos, clockVars, mppVars>>

(* Slip: the fence is not compared again after the conversion.             *)
assign_bind_unchecked ==
  LET s == asg.route.surf
  IN  /\ pc = "assign" /\ asg.frame.pic # 0
      /\ bound' = [bound EXCEPT ![s] = asg.frame.pic]
      /\ decoded' = [decoded EXCEPT ![s] = TRUE]
      /\ decode_failed' = [decode_failed EXCEPT ![s] = FALSE]
      /\ h264_field_pending' = [h264_field_pending EXCEPT ![s] = FALSE]
      /\ Assigned

(* assign_mpp_frame, last section: the frame is usable; it is bound if the *)
(* surface still carries the route's fence, and dropped otherwise.         *)
assign_bind ==
  LET s == asg.route.surf
  IN  /\ pc = "assign" /\ asg.frame.pic # 0
      /\ IF fence[s] = asg.route.fence
           THEN /\ bound' = [bound EXCEPT ![s] = asg.frame.pic]
                /\ Complete(s, asg.route.fence, TRUE)
           ELSE UNCHANGED <<bound, decoded, decode_failed,
                            h264_field_pending>>
      /\ Assigned

(* errinfo, discard, an unsafe layout, a foreign pool buffer, or a failed  *)
(* conversion or stable-export copy: the fence fails.                      *)
assign_reject ==
  /\ pc = "assign"
  /\ Complete(asg.route.surf, asg.route.fence, FALSE)
  /\ UNCHANGED bound
  /\ Assigned

-----------------------------------------------------------------------------
(***************************************************************************)
(* The worker thread: the stall timer, end of stream and the way out.      *)
(***************************************************************************)
OutputTimesOut ==
  /\ pc = "loop" /\ ~LoopEnds
  /\ jobs = <<>>
  /\ outstanding > 0 /\ ~draining

stall_begin ==
  /\ OutputTimesOut
  /\ ~stalled
  /\ stalled' = TRUE
  /\ UNCHANGED <<surfVars, appVars, apiVars, jobs, pc, submitVars, routeVars,
                 asg, back, saw_eos, clockVars, mppVars>>

(* Slip: one missing frame does not trip the timer.                        *)
stall_timeout_two ==
  /\ coding \in MppStalls
  /\ OutputTimesOut
  /\ stalled
  /\ outstanding > 1
  /\ stalled' = FALSE
  /\ decode_failed' = FailAll(RoutesOf, fence, decoded, decode_failed)
  /\ h264_routes' = {}
  /\ generic' = <<>>
  /\ outstanding' = 0
  /\ UNCHANGED <<fence, decoded, h264_field_pending, bound, appVars, apiVars,
                 jobs, pc, submitVars, asg, back, saw_eos, clockVars, mppVars>>

(* Ten seconds without output: fail_pending_routes.                        *)
stall_timeout ==
  /\ coding \in MppStalls
  /\ OutputTimesOut
  /\ stalled
  /\ stalled' = FALSE
  /\ decode_failed' = FailAll(RoutesOf, fence, decoded, decode_failed)
  /\ h264_routes' = {}
  /\ generic' = <<>>
  /\ outstanding' = 0
  /\ UNCHANGED <<fence, decoded, h264_field_pending, bound, appVars, apiVars,
                 jobs, pc, submitVars, asg, back, saw_eos, clockVars, mppVars>>

(* Slip: end of stream is signalled ahead of the queued jobs.              *)
eos_begin_early ==
  /\ pc = "loop" /\ ~LoopEnds
  /\ draining /\ ~eos_signalled
  /\ eos_signalled' = TRUE
  /\ pc' = "eos"
  /\ UNCHANGED <<surfVars, appVars, apiVars, jobs, submitVars, routeVars,
                 frameVars, coding, expired, mppVars>>

(* Slip: end of stream is signalled again and again, before the loop looks *)
(* at the deadline.                                                        *)
eos_begin_again ==
  /\ pc = "loop"
  /\ draining /\ jobs = <<>>
  /\ eos_signalled' = TRUE
  /\ pc' = "eos"
  /\ UNCHANGED <<surfVars, appVars, apiVars, jobs, submitVars, routeVars,
                 frameVars, coding, expired, mppVars>>

(* worker_signal_eos, once, when the last job has been submitted.          *)
eos_begin ==
  /\ pc = "loop" /\ ~LoopEnds
  /\ draining /\ jobs = <<>> /\ ~eos_signalled
  /\ eos_signalled' = TRUE
  /\ pc' = "eos"
  /\ UNCHANGED <<surfVars, appVars, apiVars, jobs, submitVars, routeVars,
                 frameVars, coding, expired, mppVars>>

(* MPP takes the end-of-stream packet, or the retries are used up.         *)
eos_end(accepted) ==
  /\ pc = "eos"
  /\ mpp_eos' = accepted
  /\ pc' = "loop"
  /\ UNCHANGED <<surfVars, appVars, apiVars, jobs, submitVars, routeVars,
                 frameVars, clockVars, mpp>>

worker_exit ==
  /\ pc = "loop" /\ LoopEnds
  /\ pc' = "exited"
  /\ UNCHANGED <<surfVars, appVars, apiVars, jobs, submitVars, routeVars,
                 frameVars, clockVars, mppVars>>

(* MPP swallows a packet it cannot decode.                                 *)
mpp_lose(packet) ==
  /\ coding \in MppLoses
  /\ mpp' = mpp \ {packet}
  /\ UNCHANGED <<surfVars, appVars, apiVars, jobs, pc, submitVars, routeVars,
                 frameVars, clockVars, mpp_eos>>

-----------------------------------------------------------------------------
WorkerStep ==
  \/ take_job
  \/ put_accepted
  \/ put_failed
  \/ \E packet \in mpp : drain_frame(packet)
  \/ drain_eos_marker
  \/ after_submit_timeout
  \/ assign_bind
  \/ assign_reject
  \/ stall_begin
  \/ stall_timeout
  \/ eos_begin
  \/ \E accepted \in BOOLEAN : eos_end(accepted)
  \/ worker_exit

(* The context is gone and nothing more happens to it.                     *)
Finished == ctx = "destroyed" /\ UNCHANGED vars

Next ==
  \/ \E s \in Surfaces, second \in BOOLEAN : rk_BeginPicture(s, second)
  \/ \E kind \in Kinds \cap KindsOf(coding) : end_build(kind)
  \/ end_failed
  \/ \E j \in built : rk_mpp_dec_fail_surface(j)
  \/ \E j \in built : rk_mpp_dec_enqueue_job(j)
  \/ rk_DestroyContext
  \/ drain_deadline
  \/ stop_joined
  \/ WorkerStep
  \/ \E packet \in mpp : mpp_lose(packet)
  \/ Finished

Spec == Init /\ [][Next]_vars

(* The worker thread keeps running (its waits on MPP are bounded by the    *)
(* 20 ms output timeout and the retry limits), a call under way enqueues   *)
(* its job or fails its picture, the clock advances, and pthread_join      *)
(* returns.  Nothing obliges the application to begin, end or destroy      *)
(* anything.                                                               *)
Fairness ==
  /\ WF_vars(WorkerStep)
  /\ WF_vars(\E j \in built : \/ rk_mpp_dec_fail_surface(j)
                             \/ rk_mpp_dec_enqueue_job(j))
  /\ WF_vars(drain_deadline)
  /\ WF_vars(stop_joined)

FairSpec == Spec /\ Fairness

-----------------------------------------------------------------------------
(***************************************************************************)
(* Properties.                                                             *)
(***************************************************************************)
Pictures == [surf : Surfaces, fence : Nat, pic : Nat,
             kind : {"first", "second", "frame", "field", "altref", "unref",
                     "empty", "repeat", "abandoned"},
             tok : Nat]
Packets  == [tok : Nat, pic : Nat]

(* The shape of the surfaces', the context's and the worker's state.       *)
TypeOK ==
  /\ fence \in [Surfaces -> Nat]
  /\ decoded \in [Surfaces -> BOOLEAN]
  /\ decode_failed \in [Surfaces -> BOOLEAN]
  /\ h264_field_pending \in [Surfaces -> BOOLEAN]
  /\ bound \in [Surfaces -> Nat]
  /\ want \in [Surfaces -> Nat]
  /\ fields \in [Surfaces -> Nat]
  /\ begins \in Nat
  /\ ctx \in {"live", "stopping", "destroyed"}
  /\ render \in Pictures \cup {NoPicture}
  /\ built \subseteq Pictures
  /\ jobs \in Seq(Pictures)
  /\ next_token \in Nat
  /\ pc \in {"loop", "put", "after", "assign", "eos", "exited"}
  /\ cur \in Pictures \cup {NoPicture}
  /\ new_route \in BOOLEAN
  /\ own_route \in BOOLEAN
  /\ freed_twice \in BOOLEAN
  /\ h264_routes \subseteq Pictures
  /\ generic \in Seq(Pictures)
  /\ outstanding \in Nat
  /\ asg \in [route : Pictures \cup {NoPicture}, frame : Packets]
  /\ back \in {"loop", "put", "eos"}
  /\ stalled \in BOOLEAN
  /\ saw_eos \in BOOLEAN
  /\ coding \in Codecs
  /\ eos_signalled \in BOOLEAN
  /\ expired \in BOOLEAN
  /\ mpp \subseteq Packets
  /\ mpp_eos \in BOOLEAN

(* "stale late frames cannot overwrite a reused surface" (README.md:74): a *)
(* surface that reports decoded and has a frame bound shows the picture    *)
(* the application last began on it, however late or out of order MPP's    *)
(* frames arrive and however the surface was reused meanwhile.             *)
ShowsItsOwnPicture ==
  \A s \in Surfaces : decoded[s] /\ bound[s] # 0 => bound[s] = want[s]

(* Everything that will still settle the current fence of s.               *)
Carriers ==
  built \cup JobsOf \cup RoutesOf \cup {cur, asg.route, render}

InFlight(s) == \E j \in Carriers : j.surf = s /\ j.fence = fence[s]

(* "no fence is left unsignalled either way" (mpp_dec.c:1520): a surface   *)
(* whose fence advanced is settled, or something that will settle it is    *)
(* still under way: a call, a queued job, the worker's job or a route.     *)
NoFenceLost ==
  \A s \in Surfaces : fence[s] # 0 => Settled(s) \/ InFlight(s)

(* outstanding_frames, which alone keeps the worker awake and arms the     *)
(* stall timer, equals the number of routes whenever the worker is back in *)
(* its loop, whatever was consumed while packets were being pushed; and no *)
(* route is destroyed twice: the one a failing submission gives back was   *)
(* not consumed while MPP's output was drained to make room.               *)
RoutesCounted ==
  /\ pc \in {"loop", "after", "eos"} =>
       outstanding = Cardinality(h264_routes) + Len(generic)
  /\ ~freed_twice

(* The end-of-stream packet reaches MPP only after every queued job, and   *)
(* nothing is submitted behind it.                                         *)
EosAfterAllInput ==
  mpp_eos \/ eos_signalled => jobs = <<>> /\ built = {} /\ cur = NoPicture

(* The context implements the verdicts of SurfaceFence: what vaSyncSurface *)
(* reports for a picture is given once, is never taken back or turned      *)
(* around before the next BeginPicture on that surface, and comes with the *)
(* picture that was asked for.  H.264 contexts are outside this promise    *)
(* and map to surfaces nobody uses: the two fields of a picture begin it   *)
(* twice, and either may give the verdict.                                 *)
Verdict(s) == IF fence[s] = 0 THEN "idle"
              ELSE IF decoded[s] THEN "decoded"
              ELSE IF decode_failed[s] THEN "failed"
              ELSE "pending"

Fence == INSTANCE SurfaceFence
  WITH verdict <- [s \in Surfaces |->
                     IF coding = "AVC" THEN "idle" ELSE Verdict(s)],
       asked <- [s \in Surfaces |-> IF coding = "AVC" THEN 0 ELSE want[s]],
       shown <- [s \in Surfaces |-> IF coding = "AVC" THEN 0 ELSE bound[s]]

ImplementsFence == Fence!Spec

(* vaSyncSurface has no timeout, so every fence whose picture was ended is *)
(* settled in the end, even if MPP swallows packets or stops answering.    *)
FencesSettle ==
  \A s \in Surfaces : \A f \in 1..MaxBegins :
    (fence[s] = f /\ InFlight(s) /\ render.surf # s)
      ~> (fence[s] # f \/ Settled(s) \/ render.surf = s)

(* "A one-second deadline bounds the drain so a wedged backend cannot      *)
(* block vaDestroyContext" (docs/DEVELOPMENT.md:242).                      *)
DestroyReturns == (ctx = "stopping") ~> (ctx = "destroyed")
=============================================================================
