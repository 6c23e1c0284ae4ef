------------------------- MODULE DecodeWorkerProofs -------------------------
(***************************************************************************)
(* The decode context for any number of surfaces, pictures and calls under *)
(* way.  End of stream comes last and no fence is lost, whatever MPP does. *)
(* Routes are counted, a surface shows its own picture and the context     *)
(* implements SurfaceFence if MPP answers VP9 packets before the stall     *)
(* timer, as nothing else tells a late VP9 frame from the next one, and,   *)
(* for the last two, if H.264 surfaces are not reused in flight.           *)
(***************************************************************************)
EXTENDS DecodeWorker, FiniteSetTheorems, TLAPS

(* Two jobs or routes for the same fence of the same surface.              *)
SameFence(j, k) == j.surf = k.surf /\ j.fence = k.fence

(* worker_submit_job is under way, possibly inside drain_output_frame.     *)
Pushing == pc = "put" \/ (pc = "assign" /\ back = "put")

(* Where the calls and the worker are.  Once end of stream is signalled    *)
(* no input is left anywhere ahead of it.                                  *)
Phased ==
  /\ cur # NoPicture <=> Pushing
  /\ pc # "assign" => asg.route = NoPicture
  /\ pc = "assign" => asg.route \in Pictures
  /\ own_route => Pushing
  /\ ctx # "live" => built = {}
  /\ mpp_eos => eos_signalled
  /\ eos_signalled => ctx # "live" /\ jobs = <<>> /\ ~Pushing
  /\ pc = "eos" \/ (pc = "assign" /\ back = "eos") => eos_signalled
  /\ pc = "exited" => ctx # "live"
  /\ IsFiniteSet(h264_routes)

-----------------------------------------------------------------------------
(***************************************************************************)
(* Facts about the operators of the model.                                 *)
(***************************************************************************)
Queued == {"frame", "field", "altref", "unref", "empty"}

(* The codecs, and the pictures that EndPicture can assemble for them.     *)
LEMMA CodecFacts ==
  ASSUME TypeOK
  PROVE  /\ coding \in {"AVC", "HEVC", "VP9"}
         /\ codec_uses_token_routes <=> coding # "VP9"
         /\ \A kind \in Kinds \cap KindsOf(coding) :
              /\ kind \in Queued
              /\ coding = "VP9" => kind \in {"frame", "altref", "unref", "empty"}
<1>1. coding \in {"AVC", "HEVC", "VP9"}
  BY DecodeAssumption DEF TypeOK
<1> QED
  BY <1>1 DEF codec_uses_token_routes, KindsOf, Queued

(* NoPicture is no picture.                                                *)
LEMMA NoPictureFacts ==
  /\ NoPicture \notin Pictures /\ NoPicture.surf = NoSurface
  /\ NoSurface \notin Surfaces
  /\ NoAssign.route = NoPicture /\ NoAssign.frame \in Packets
BY DecodeAssumption DEF NoPicture, Pictures, NoAssign, Packets

(* The oldest entry of a queue, and the queue without it.                  *)
LEMMA Oldest ==
  ASSUME NEW T, NEW q \in Seq(T), q # <<>>
  PROVE  /\ Head(q) \in T /\ Head(q) = q[1] /\ 1 \in DOMAIN q
         /\ Tail(q) \in Seq(T) /\ Len(Tail(q)) = Len(q) - 1
         /\ \A k \in DOMAIN Tail(q) :
              k + 1 \in DOMAIN q /\ Tail(q)[k] = q[k + 1]
         /\ \A k \in DOMAIN q : k = 1 \/
              (k - 1 \in DOMAIN Tail(q) /\ Tail(q)[k - 1] = q[k])
OBVIOUS

(* A queue with a new entry at its end.                                    *)
LEMMA Newest ==
  ASSUME NEW T, NEW q \in Seq(T), NEW e \in T
  PROVE  /\ Append(q, e) \in Seq(T) /\ Append(q, e) # <<>>
         /\ Len(Append(q, e)) = Len(q) + 1
         /\ \A k \in DOMAIN Append(q, e) :
              \/ k \in DOMAIN q /\ Append(q, e)[k] = q[k]
              \/ k = Len(q) + 1 /\ Append(q, e)[k] = e
         /\ \A k \in DOMAIN q :
              k \in DOMAIN Append(q, e) /\ Append(q, e)[k] = q[k]
         /\ Len(q) + 1 \in DOMAIN Append(q, e)
         /\ Append(q, e)[Len(q) + 1] = e
OBVIOUS

(* complete_surface_ref settles the fence if it is still current, and      *)
(* touches no other surface.                                               *)
LEMMA CompleteFacts ==
  ASSUME TypeOK, NEW s \in Surfaces, NEW f, NEW ok \in BOOLEAN,
         Complete(s, f, ok)
  PROVE  /\ decoded' \in [Surfaces -> BOOLEAN]
         /\ decode_failed' \in [Surfaces -> BOOLEAN]
         /\ h264_field_pending' \in [Surfaces -> BOOLEAN]
         /\ fence[s] = f => (decoded'[s] <=> ok) /\ (decode_failed'[s] <=> ~ok)
         /\ \A t \in Surfaces : t # s \/ fence[s] # f =>
              decoded'[t] = decoded[t] /\ decode_failed'[t] = decode_failed[t]
<1>1. /\ decoded \in [Surfaces -> BOOLEAN]
      /\ decode_failed \in [Surfaces -> BOOLEAN]
      /\ h264_field_pending \in [Surfaces -> BOOLEAN]
  BY DEF TypeOK
<1>2. CASE fence[s] = f
  <2>1. /\ decoded' = [decoded EXCEPT ![s] = ok]
        /\ decode_failed' = [decode_failed EXCEPT ![s] = ~ok]
        /\ h264_field_pending' = [h264_field_pending EXCEPT ![s] = FALSE]
    BY <1>2 DEF Complete
  <2> QED
    BY <1>1, <1>2, <2>1
<1>3. CASE fence[s] # f
  BY <1>1, <1>3 DEF Complete
<1> QED
  BY <1>2, <1>3

(* rk_mpp_dec_fail_surface on a set of routes: every one of them that is   *)
(* current and not decoded fails, no other surface changes.                *)
LEMMA FailAllFacts ==
  ASSUME NEW R, NEW fen, NEW dec \in [Surfaces -> BOOLEAN],
         NEW fail \in [Surfaces -> BOOLEAN]
  PROVE  /\ FailAll(R, fen, dec, fail) \in [Surfaces -> BOOLEAN]
         /\ \A s \in Surfaces : fail[s] => FailAll(R, fen, dec, fail)[s]
         /\ \A r \in R : r.surf \in Surfaces /\ r.fence = fen[r.surf] =>
              dec[r.surf] \/ FailAll(R, fen, dec, fail)[r.surf]
         /\ \A s \in Surfaces :
              \/ FailAll(R, fen, dec, fail)[s] = fail[s]
              \/ ~dec[s] /\ \E r \in R : r.surf = s /\ r.fence = fen[s]
BY DEF FailAll

(* What worker_submit_job does with the next job: it finds the route of a  *)
(* paired field, adds a route, completes a job without data, or pushes a   *)
(* hidden picture first.                                                   *)
TakePaired(job, r) ==
  /\ coding = "AVC" /\ r \in h264_routes /\ SameFence(r, job)
  /\ cur' = [job EXCEPT !.tok = r.tok]
  /\ pc' = "put" /\ new_route' = FALSE /\ own_route' = FALSE
  /\ UNCHANGED <<h264_routes, generic, decoded, decode_failed,
                 h264_field_pending>>

TakeRouted(job) ==
  /\ cur' = job /\ pc' = "put" /\ new_route' = TRUE /\ own_route' = TRUE
  /\ \/ /\ coding # "VP9"
        /\ h264_routes' = h264_routes \cup {job} /\ generic' = generic
     \/ /\ coding = "VP9" /\ job.kind = "frame"
        /\ generic' = Append(generic, job) /\ h264_routes' = h264_routes
  /\ UNCHANGED <<decoded, decode_failed, h264_field_pending>>

TakeEmpty(job) ==
  /\ coding = "VP9" /\ job.kind = "empty"
  /\ Complete(job.surf, job.fence, TRUE)
  /\ UNCHANGED <<pc, cur, new_route, own_route, generic, h264_routes>>

TakeHidden(job) ==
  /\ coding = "VP9" /\ job.kind \notin {"empty", "frame"}
  /\ cur' = job /\ pc' = "put" /\ new_route' = TRUE /\ own_route' = FALSE
  /\ UNCHANGED <<h264_routes, generic, decoded, decode_failed,
                 h264_field_pending>>

(* take_job does one of these with the head of the queue.                  *)
LEMMA TakeCases ==
  ASSUME TypeOK, take_job
  PROVE  /\ jobs # <<>> /\ Head(jobs) \in Pictures /\ jobs' = Tail(jobs)
         /\ pc = "loop" /\ ctx' = ctx
         /\ \/ \E r \in h264_routes : TakePaired(Head(jobs), r)
            \/ TakeRouted(Head(jobs))
            \/ TakeEmpty(Head(jobs))
            \/ TakeHidden(Head(jobs))
<1>1. /\ jobs # <<>> /\ Head(jobs) \in Pictures /\ jobs' = Tail(jobs)
      /\ pc = "loop" /\ ctx' = ctx
  BY Oldest DEF take_job, TypeOK, apiVars
<1>2. coding \in {"AVC", "HEVC", "VP9"}
      /\ (codec_uses_token_routes <=> coding # "VP9")
  BY CodecFacts
<1>3. CASE coding # "VP9"
  <2> DEFINE job == Head(jobs)
             found == IF coding = "AVC" /\ job.kind = "field"
                        THEN RoutesFor(job.surf, job.fence) ELSE {}
  <2>1. submit_token_job(job)
    BY <1>2, <1>3 DEF take_job
  <2>2. /\ new_route' = (found = {}) /\ own_route' = (found = {})
        /\ h264_routes' = IF found = {} THEN h264_routes \cup {job}
                                        ELSE h264_routes
        /\ cur' = IF found = {} THEN job
                  ELSE [job EXCEPT !.tok = (CHOOSE r \in found : TRUE).tok]
        /\ pc' = "put"
        /\ UNCHANGED <<decoded, decode_failed, h264_field_pending, generic>>
    BY <2>1, Zenon DEF submit_token_job
  <2>3. \A r \in found : coding = "AVC" /\ r \in h264_routes
                         /\ SameFence(r, job)
    BY DEF RoutesFor, SameFence
  <2> HIDE DEF job, found
  <2>4. CASE found = {}
    <3>1. TakeRouted(job)
      BY <1>3, <2>2, <2>4 DEF TakeRouted
    <3> QED
      BY <1>1, <3>1 DEF job
  <2>5. CASE found # {}
    <3> DEFINE r == CHOOSE q \in found : TRUE
    <3>1. r \in found
      BY <2>5
    <3>2. (found = {}) = FALSE
      BY <2>5
    <3>3. TakePaired(job, r)
      BY <2>2, <2>3, <2>5, <3>1, <3>2 DEF TakePaired
    <3> QED
      BY <1>1, <2>3, <3>1, <3>3 DEF job
  <2> QED
    BY <2>4, <2>5
<1>4. CASE coding = "VP9"
  <2>1. submit_generic_job(Head(jobs))
    BY <1>2, <1>4 DEF take_job
  <2> QED
    BY <1>1, <1>4, <2>1
       DEF submit_generic_job, TakeRouted, TakeEmpty, TakeHidden
<1> QED
  BY <1>3, <1>4

(* What an accepted packet of a token codec leads to: its own route counts *)
(* from now on, the route of its first field is there already, that route  *)
(* was consumed meanwhile and is replaced, or cannot be.                   *)
Put == mpp' = mpp \cup {[tok |-> cur.tok, pic |-> cur.pic]}

PutOwn ==
  /\ coding # "VP9" /\ new_route /\ Put
  /\ outstanding' = outstanding + 1
  /\ UNCHANGED <<h264_routes, decoded, decode_failed, h264_field_pending>>

PutPaired ==
  /\ coding # "VP9" /\ ~new_route /\ Put
  /\ RoutesFor(cur.surf, cur.fence) # {}
  /\ UNCHANGED <<h264_routes, outstanding, decoded, decode_failed,
                 h264_field_pending>>

PutReplaced ==
  /\ coding # "VP9" /\ ~new_route /\ Put
  /\ RoutesFor(cur.surf, cur.fence) = {}
  /\ h264_routes' = h264_routes \cup {cur}
  /\ outstanding' = outstanding + 1
  /\ UNCHANGED <<decoded, decode_failed, h264_field_pending>>

PutUnroutable ==
  /\ coding # "VP9" /\ ~new_route /\ Put
  /\ RoutesFor(cur.surf, cur.fence) = {}
  /\ Complete(cur.surf, cur.fence, FALSE)
  /\ UNCHANGED <<h264_routes, outstanding>>

(* The accepted packet of a VP9 picture: without output, hidden with its   *)
(* shown repeat to follow, or shown.                                       *)
PutUnref ==
  /\ coding = "VP9" /\ cur.kind = "unref"
  /\ Complete(cur.surf, cur.fence, TRUE)
  /\ UNCHANGED <<mpp, outstanding>>

PutShown ==
  /\ coding = "VP9" /\ cur.kind \notin {"unref", "altref"} /\ Put
  /\ outstanding' = outstanding + 1
  /\ UNCHANGED <<decoded, decode_failed, h264_field_pending>>

PutAltref ==
  /\ coding = "VP9" /\ cur.kind = "altref" /\ pc' = "put"
  /\ cur' = [cur EXCEPT !.kind = "repeat"]
  /\ generic' = Append(generic, cur') /\ own_route' = TRUE
  /\ UNCHANGED <<mpp, outstanding, h264_routes, decoded, decode_failed,
                 h264_field_pending>>

(* A push ends in one of these ways; all but the hidden picture's    *)
(* end the job.                                                            *)
LEMMA PutCases ==
  ASSUME TypeOK, put_accepted
  PROVE  /\ pc = "put" /\ ctx' = ctx /\ jobs' = jobs
         /\ \/ PutAltref
            \/ /\ pc' \in {"loop", "after"} /\ cur' = NoPicture
               /\ own_route' = FALSE /\ generic' = generic
               /\ \/ PutOwn \/ PutPaired \/ PutReplaced \/ PutUnroutable
                  \/ (PutUnref \/ PutShown) /\ h264_routes' = h264_routes
<1>1. pc = "put" /\ ctx' = ctx /\ jobs' = jobs
  BY DEF put_accepted, apiVars
<1>2. coding \in {"AVC", "HEVC", "VP9"}
      /\ (codec_uses_token_routes <=> coding # "VP9")
      /\ new_route \in BOOLEAN
  BY CodecFacts DEF TypeOK
<1>3. CASE coding # "VP9"
  <2>1. put_token_accepted
    BY <1>2, <1>3 DEF put_accepted
  <2>2. /\ Put /\ cur' = NoPicture /\ own_route' = FALSE
        /\ generic' = generic /\ pc' \in {"loop", "after"}
    BY <2>1 DEF put_token_accepted, Put, route_token
  <2>3. CASE new_route
    <3>1. ~(~new_route /\ RoutesFor(cur.surf, cur.fence) = {})
      BY <2>3
    <3>2. PutOwn
      BY <1>3, <2>1, <2>2, <2>3, <3>1 DEF put_token_accepted, PutOwn
    <3> QED
      BY <1>1, <2>2, <3>2
  <2>4. CASE ~new_route /\ RoutesFor(cur.surf, cur.fence) # {}
    <3>1. PutPaired
      BY <1>3, <2>1, <2>2, <2>4 DEF put_token_accepted, PutPaired
    <3> QED
      BY <1>1, <2>2, <3>1
  <2>5. CASE ~new_route /\ RoutesFor(cur.surf, cur.fence) = {}
    <3>1. PutReplaced \/ PutUnroutable
      BY <1>3, <2>1, <2>2, <2>5
         DEF put_token_accepted, PutReplaced, PutUnroutable
    <3> QED
      BY <1>1, <2>2, <3>1
  <2> QED
    BY <1>2, <2>3, <2>4, <2>5
<1>4. CASE coding = "VP9"
  <2>1. put_generic_accepted
    BY <1>2, <1>4 DEF put_accepted
  <2> QED
    BY <1>1, <1>4, <2>1
       DEF put_generic_accepted, PutUnref, PutAltref, PutShown, Put
<1> QED
  BY <1>3, <1>4

(* The route of a frame and where it goes: dropped if the surface has been *)
(* reused, or on to the second half of assign_mpp_frame.                   *)
Dropped(r) ==
  /\ fence[r.surf] # r.fence
  /\ pc' = ReturnTo /\ outstanding' = MinusOne(outstanding)
  /\ UNCHANGED <<asg, back>>

Assigning(r, frame) ==
  /\ fence[r.surf] = r.fence
  /\ pc' = "assign" /\ asg' = [route |-> r, frame |-> frame]
  /\ back' = ReturnTo /\ outstanding' = outstanding

Consumes(r, frame) ==
  /\ \/ coding # "VP9" /\ r \in h264_routes /\ r.tok = frame.tok
        /\ generic' = generic
     \/ coding = "VP9" /\ generic # <<>> /\ r = Head(generic)
        /\ generic' = Tail(generic)
  /\ h264_routes' = h264_routes \ {r}
  /\ own_route' = (own_route /\ r.tok # cur.tok)
  /\ Dropped(r) \/ Assigning(r, frame)

(* assign_mpp_frame finds no route for the frame, or consumes one.         *)
LEMMA RouteCases ==
  ASSUME TypeOK, NEW frame, route_frame(frame)
  PROVE  \/ /\ pc' = ReturnTo
            /\ UNCHANGED <<routeVars, asg, back, own_route>>
            /\ coding = "VP9" => generic = <<>>
            /\ coding # "VP9" => \A r \in h264_routes : r.tok # frame.tok
         \/ \E r \in RoutesOf : Consumes(r, frame)
<1>1. coding \in {"AVC", "HEVC", "VP9"}
      /\ (codec_uses_token_routes <=> coding # "VP9")
  BY CodecFacts
<1>2. CASE Candidates(frame) = {}
  BY <1>1, <1>2 DEF route_frame, Candidates
<1>3. CASE Candidates(frame) # {}
  <2> DEFINE r == CHOOSE q \in Candidates(frame) : TRUE
  <2>1. r \in Candidates(frame)
    BY <1>3
  <2>2. /\ h264_routes' = h264_routes \ {r}
        /\ generic' = IF codec_uses_token_routes THEN generic
                                                 ELSE Tail(generic)
        /\ own_route' = (own_route /\ r.tok # cur.tok)
        /\ Dropped(r) \/ Assigning(r, frame)
    BY <1>3 DEF route_frame, Dropped, Assigning
  <2> HIDE DEF r
  <2>3. /\ coding # "VP9" => r \in h264_routes /\ r.tok = frame.tok
        /\ coding = "VP9" => generic # <<>> /\ r = Head(generic)
    BY <1>1, <2>1 DEF Candidates
  <2>4. Consumes(r, frame)
    BY <1>1, <2>2, <2>3 DEF Consumes
  <2>5. r \in RoutesOf
    <3>1. CASE coding # "VP9"
      BY <2>3, <3>1 DEF RoutesOf
    <3>2. CASE coding = "VP9"
      <4>1. generic \in Seq(Pictures) /\ generic # <<>>
        BY <2>3, <3>2 DEF TypeOK
      <4>2. 1 \in DOMAIN generic /\ r = generic[1]
        BY <2>3, <3>2, <4>1, Oldest
      <4> QED
        BY <4>2 DEF RoutesOf
    <3> QED
      BY <3>1, <3>2
  <2> QED
    BY <2>4, <2>5
<1> QED
  BY <1>2, <1>3

-----------------------------------------------------------------------------
(***************************************************************************)
(* Types, and where the calls and the worker are.                          *)
(***************************************************************************)
Base == TypeOK /\ Phased

(* The job being pushed and the route being assigned are pictures.         *)
LEMMA AtWork ==
  ASSUME Base
  PROVE  /\ Pushing => cur \in Pictures /\ cur.surf \in Surfaces
         /\ pc = "assign" => /\ asg.route \in Pictures
                             /\ asg.route.surf \in Surfaces
BY DEF Base, TypeOK, Phased, Pictures

(* The FIFO without a route is a FIFO.                                     *)
LEMMA RemovedType ==
  ASSUME TypeOK, NEW t
  PROVE  generic_route_remove(t) \in Seq(Pictures)
<1> DEFINE places == {i \in DOMAIN generic : generic[i].tok = t}
           at == CHOOSE i \in places : TRUE
           rest == [i \in 1 .. Len(generic) - 1 |->
                      IF i < at THEN generic[i] ELSE generic[i + 1]]
<1>1. generic \in Seq(Pictures)
  BY DEF TypeOK
<1>2. CASE places = {}
  BY <1>1, <1>2, Zenon DEF generic_route_remove
<1>3. CASE places # {}
  <2>1. generic_route_remove(t) = rest
    BY <1>3, Zenon DEF generic_route_remove
  <2>2. at \in places
    BY <1>3
  <2>3. at \in DOMAIN generic /\ DOMAIN generic = 1 .. Len(generic)
        /\ Len(generic) \in Nat
    BY <1>1, <2>2
  <2> HIDE DEF at, places
  <2>4. Len(generic) - 1 \in Nat
    BY <2>3
  <2>5. \A i \in 1 .. Len(generic) - 1 : rest[i] \in Pictures
    BY <1>1, <2>3
  <2>6. rest \in [1 .. Len(generic) - 1 -> Pictures]
    BY <2>5
  <2>7. rest \in Seq(Pictures)
    BY <2>4, <2>6
  <2> QED
    BY <2>1, <2>7
<1> QED
  BY <1>2, <1>3

(* BeginPicture keeps the surfaces' types and makes a picture.             *)
LEMMA BeginTypes ==
  ASSUME TypeOK, NEW s \in Surfaces, NEW second \in BOOLEAN,
         rk_BeginPicture(s, second)
  PROVE  /\ fence' \in [Surfaces -> Nat]
         /\ decoded' \in [Surfaces -> BOOLEAN]
         /\ decode_failed' \in [Surfaces -> BOOLEAN]
         /\ h264_field_pending' \in [Surfaces -> BOOLEAN]
         /\ bound' \in [Surfaces -> Nat] /\ want' \in [Surfaces -> Nat]
         /\ fields' \in [Surfaces -> Nat] /\ begins' \in Nat
         /\ render' \in Pictures
<1> DEFINE cont == Continuation(s)
           new == IF second THEN want[s] ELSE begins + 1
<1>1. cont \in BOOLEAN
  BY DEF Continuation
<1>2. new \in Nat
  BY DEF TypeOK
<1>3. /\ fence' = [fence EXCEPT ![s] = IF cont THEN @ ELSE @ + 1]
      /\ decoded' = [decoded EXCEPT ![s] = FALSE]
      /\ decode_failed' = [decode_failed EXCEPT ![s] = FALSE]
      /\ h264_field_pending' = [h264_field_pending EXCEPT ![s] = cont]
      /\ bound' = [bound EXCEPT ![s] = IF cont THEN @ ELSE 0]
      /\ want' = [want EXCEPT ![s] = new]
      /\ fields' = IF second THEN fields ELSE [fields EXCEPT ![s] = 0]
      /\ begins' = begins + 1
      /\ render' = [surf |-> s, fence |-> fence'[s], pic |-> new,
                    kind |-> IF second THEN "second" ELSE "first",
                    tok |-> begins + 1]
  BY DEF rk_BeginPicture
<1> HIDE DEF cont, new
<1>4. /\ fence' \in [Surfaces -> Nat] /\ decoded' \in [Surfaces -> BOOLEAN]
      /\ h264_field_pending' \in [Surfaces -> BOOLEAN]
      /\ bound' \in [Surfaces -> Nat] /\ want' \in [Surfaces -> Nat]
      /\ fields' \in [Surfaces -> Nat] /\ begins' \in Nat
      /\ decode_failed' \in [Surfaces -> BOOLEAN]
  BY <1>1, <1>2, <1>3, SMTT(30) DEF TypeOK
<1>5. render' \in Pictures
  BY <1>2, <1>3, <1>4 DEF Pictures, TypeOK
<1> QED
  BY <1>4, <1>5

(* A picture taken out of render to be failed is the same picture on its   *)
(* way elsewhere.                                                          *)
LEMMA AbandonedFacts ==
  ASSUME TypeOK, render # NoPicture
  PROVE  /\ render \in Pictures
         /\ \E old \in Pictures :
              /\ Abandoned = {old} /\ old.kind = "abandoned"
              /\ old.surf = render.surf /\ old.fence = render.fence
              /\ old.pic = render.pic
<1>1. render \in Pictures
  BY DEF TypeOK
<1>2. [render EXCEPT !.kind = "abandoned"] \in Pictures
  BY <1>1 DEF Pictures
<1> QED
  BY <1>1, <1>2 DEF Abandoned, Pictures

(* Failing some routes leaves a verdict on every surface.                  *)
LEMMA FailTypes ==
  ASSUME TypeOK, NEW R
  PROVE  FailAll(R, fence, decoded, decode_failed) \in [Surfaces -> BOOLEAN]
BY FailAllFacts DEF TypeOK

(* Every step keeps the types.                                             *)
LEMMA TypesKept ==
  ASSUME Base, [Next]_vars
  PROVE  TypeOK'
<1> USE DEF Base
<1>1. ASSUME NEW s \in Surfaces, NEW second \in BOOLEAN,
             rk_BeginPicture(s, second)
      PROVE  TypeOK'
  <2>1. UNCHANGED <<ctx, next_token, jobs, pc, submitVars, routeVars,
                    frameVars, clockVars, mppVars>>
    BY <1>1 DEF rk_BeginPicture
  <2>2. /\ fence' \in [Surfaces -> Nat]
        /\ decoded' \in [Surfaces -> BOOLEAN]
        /\ decode_failed' \in [Surfaces -> BOOLEAN]
        /\ h264_field_pending' \in [Surfaces -> BOOLEAN]
        /\ bound' \in [Surfaces -> Nat] /\ want' \in [Surfaces -> Nat]
        /\ fields' \in [Surfaces -> Nat] /\ begins' \in Nat
        /\ render' \in Pictures
    BY <1>1, BeginTypes
  <2>3. built' \subseteq Pictures
    BY <1>1, AbandonedFacts DEF rk_BeginPicture, TypeOK
  <2> QED
    BY <2>1, <2>2, <2>3, SMTT(60) DEF TypeOK, submitVars, routeVars,
         frameVars, clockVars, mppVars
<1>2. ASSUME NEW kind \in Kinds \cap KindsOf(coding), end_build(kind)
      PROVE  TypeOK'
  <2>1. render \in Pictures /\ render.surf \in Surfaces /\ kind \in Queued
    BY <1>2, CodecFacts DEF end_build, TypeOK, Pictures
  <2>2. [render EXCEPT !.kind = kind] \in Pictures
    BY <2>1 DEF Pictures, Queued
  <2>3. (kind = "field") \in BOOLEAN
    OBVIOUS
  <2>4. h264_field_pending' \in [Surfaces -> BOOLEAN]
        /\ fields' \in [Surfaces -> Nat]
    BY <1>2, <2>1, <2>3 DEF end_build, TypeOK
  <2>5. /\ built' = built \cup {[render EXCEPT !.kind = kind]}
        /\ render' = NoPicture
        /\ UNCHANGED <<fence, decoded, decode_failed, bound, want, begins,
                       ctx, next_token, jobs, pc, submitVars, routeVars,
                       frameVars, clockVars, mppVars>>
    BY <1>2 DEF end_build
  <2>6. built' \subseteq Pictures /\ render' \in Pictures \cup {NoPicture}
    BY <2>2, <2>5 DEF TypeOK
  <2> QED
    BY <2>4, <2>5, <2>6 DEF TypeOK, submitVars, routeVars, frameVars,
         clockVars, mppVars
<1>3. CASE end_failed
  <2>1. built' \subseteq Pictures
    BY <1>3, AbandonedFacts DEF end_failed, TypeOK
  <2>2. /\ render' = NoPicture
        /\ UNCHANGED <<surfVars, appVars, ctx, next_token, jobs, pc,
                       submitVars, routeVars, frameVars, clockVars, mppVars>>
    BY <1>3 DEF end_failed
  <2> QED
    BY <2>1, <2>2 DEF TypeOK, surfVars, appVars, submitVars, routeVars,
         frameVars, clockVars, mppVars
<1>3f. ASSUME NEW j \in built, rk_mpp_dec_fail_surface(j)
       PROVE  TypeOK'
  <2>1. decode_failed' \in [Surfaces -> BOOLEAN]
    BY <1>3f, FailTypes DEF rk_mpp_dec_fail_surface
  <2>2. /\ built' \subseteq built
        /\ UNCHANGED <<fence, decoded, h264_field_pending, bound, appVars,
                       ctx, render, next_token, jobs, pc, submitVars,
                       routeVars, frameVars, clockVars, mppVars>>
    BY <1>3f DEF rk_mpp_dec_fail_surface
  <2> QED
    BY <2>1, <2>2 DEF TypeOK, appVars, submitVars, routeVars, frameVars,
         clockVars, mppVars
<1>4. ASSUME NEW j \in built, rk_mpp_dec_enqueue_job(j)
      PROVE  TypeOK'
  <2>1. j \in Pictures /\ next_token + 1 \in Nat
    BY DEF TypeOK
  <2>2. [j EXCEPT !.tok = next_token + 1] \in Pictures
    BY <2>1 DEF Pictures
  <2>3. jobs' \in Seq(Pictures)
    BY <1>4, <2>2, Newest DEF TypeOK, rk_mpp_dec_enqueue_job
  <2> QED
    BY <1>4, <2>1, <2>3 DEF TypeOK, rk_mpp_dec_enqueue_job, surfVars, appVars,
         submitVars, routeVars, frameVars, clockVars, mppVars
<1>5. CASE rk_DestroyContext \/ drain_deadline
  <2>1. CASE rk_DestroyContext
    BY <2>1 DEF TypeOK, rk_DestroyContext, surfVars, appVars, submitVars,
         routeVars, frameVars, clockVars, mppVars
  <2>2. CASE drain_deadline
    BY <2>2 DEF TypeOK, drain_deadline, surfVars, appVars, apiVars,
         submitVars, routeVars, frameVars, mppVars
  <2> QED
    BY <1>5, <2>1, <2>2
<1>6. CASE stop_joined
  <2>1. <<>> \in Seq(Pictures)
    OBVIOUS
  <2>2. decode_failed' \in [Surfaces -> BOOLEAN]
    BY <1>6, FailTypes DEF stop_joined
  <2>3. /\ ctx' = "destroyed" /\ jobs' = <<>> /\ h264_routes' = {}
        /\ generic' = <<>> /\ outstanding' = 0 /\ render' = NoPicture
        /\ mpp' = {}
        /\ UNCHANGED <<fence, decoded, h264_field_pending, bound, appVars,
                       built, next_token, pc, submitVars, frameVars,
                       clockVars, mpp_eos>>
    BY <1>6 DEF stop_joined
  <2> QED
    BY <2>1, <2>2, <2>3 DEF TypeOK, appVars, submitVars, frameVars, clockVars
<1>7. CASE take_job
  <2>1. Head(jobs) \in Pictures /\ jobs' \in Seq(Pictures)
        /\ Head(jobs).surf \in Surfaces
    <3>1. jobs # <<>> /\ jobs \in Seq(Pictures) /\ jobs' = Tail(jobs)
      BY <1>7 DEF take_job, TypeOK
    <3>2. Head(jobs) \in Pictures /\ Tail(jobs) \in Seq(Pictures)
      BY <3>1, Oldest
    <3> QED
      BY <3>1, <3>2 DEF Pictures
  <2>2. /\ UNCHANGED <<fence, bound, appVars, apiVars, freed_twice,
                       outstanding, asg, back, saw_eos, clockVars, mppVars>>
        /\ stalled' \in BOOLEAN
    BY <1>7 DEF take_job
  <2>3. ASSUME NEW r \in h264_routes, TakePaired(Head(jobs), r)
        PROVE  TypeOK'
    <3>1. [Head(jobs) EXCEPT !.tok = r.tok] \in Pictures
      BY <2>1, <2>3 DEF TypeOK, Pictures
    <3> QED
      BY <2>1, <2>2, <2>3, <3>1, ZenonT(30) DEF TypeOK, TakePaired, appVars,
           apiVars, clockVars, mppVars
  <2>4. CASE TakeRouted(Head(jobs))
    <3>1. generic' \in Seq(Pictures) /\ h264_routes' \subseteq Pictures
      <4>1. generic \in Seq(Pictures) /\ h264_routes \subseteq Pictures
        BY DEF TypeOK
      <4>2. Append(generic, Head(jobs)) \in Seq(Pictures)
        BY <2>1, <4>1, Newest
      <4> QED
        BY <2>1, <2>4, <4>1, <4>2 DEF TakeRouted
    <3> QED
      BY <2>1, <2>2, <2>4, <3>1 DEF TypeOK, TakeRouted, appVars, apiVars,
           clockVars, mppVars
  <2>5. CASE TakeEmpty(Head(jobs))
    <3>1. /\ decoded' \in [Surfaces -> BOOLEAN]
          /\ decode_failed' \in [Surfaces -> BOOLEAN]
          /\ h264_field_pending' \in [Surfaces -> BOOLEAN]
      BY <2>1, <2>5, CompleteFacts DEF TakeEmpty
    <3> QED
      BY <2>1, <2>2, <2>5, <3>1 DEF TypeOK, TakeEmpty, appVars, apiVars,
           clockVars, mppVars
  <2>6. CASE TakeHidden(Head(jobs))
    BY <2>1, <2>2, <2>6, ZenonT(30) DEF TypeOK, TakeHidden, appVars, apiVars,
         clockVars, mppVars
  <2> QED
    BY <1>7, <2>3, <2>4, <2>5, <2>6, TakeCases
<1>8. CASE put_accepted
  <2>1. cur \in Pictures /\ cur.surf \in Surfaces
    BY <1>8, AtWork DEF put_accepted, Pushing
  <2>2. UNCHANGED <<fence, bound, appVars, apiVars, jobs, new_route,
                    freed_twice, frameVars, clockVars, mpp_eos>>
    BY <1>8 DEF put_accepted
  <2>3. Put => mpp' \subseteq Packets
    BY <2>1 DEF Put, TypeOK, Packets, Pictures
  <2>4. CASE PutAltref
    <3>1. [cur EXCEPT !.kind = "repeat"] \in Pictures
      BY <2>1 DEF Pictures
    <3>2. generic' \in Seq(Pictures)
      BY <2>4, <3>1, Newest DEF PutAltref, TypeOK
    <3> QED
      BY <2>2, <2>4, <3>1, <3>2 DEF TypeOK, PutAltref, appVars, apiVars,
           frameVars, clockVars
  <2>5. ASSUME pc' \in {"loop", "after"}, cur' = NoPicture,
               own_route' = FALSE, generic' = generic,
               \/ PutOwn \/ PutPaired \/ PutReplaced \/ PutUnroutable
               \/ (PutUnref \/ PutShown) /\ h264_routes' = h264_routes
        PROVE  TypeOK'
    <3>1. /\ decoded' \in [Surfaces -> BOOLEAN]
          /\ decode_failed' \in [Surfaces -> BOOLEAN]
          /\ h264_field_pending' \in [Surfaces -> BOOLEAN]
      <4>1. CASE UNCHANGED <<decoded, decode_failed, h264_field_pending>>
        BY <4>1 DEF TypeOK
      <4>2. ASSUME NEW ok \in BOOLEAN, Complete(cur.surf, cur.fence, ok)
            PROVE  /\ decoded' \in [Surfaces -> BOOLEAN]
                   /\ decode_failed' \in [Surfaces -> BOOLEAN]
                   /\ h264_field_pending' \in [Surfaces -> BOOLEAN]
        BY <2>1, <4>2, CompleteFacts
      <4> QED
        BY <2>5, <4>1, <4>2 DEF PutOwn, PutPaired, PutReplaced,
             PutUnroutable, PutUnref, PutShown
    <3>2. mpp' \subseteq Packets
      BY <2>3, <2>5 DEF PutOwn, PutPaired, PutReplaced, PutUnroutable,
           PutUnref, PutShown, TypeOK
    <3>3. h264_routes' \subseteq Pictures /\ outstanding' \in Nat
      <4>1. h264_routes \subseteq Pictures /\ outstanding \in Nat
        BY DEF TypeOK
      <4>2. /\ h264_routes' \in {h264_routes, h264_routes \cup {cur}}
            /\ outstanding' \in {outstanding, outstanding + 1}
        BY <2>5 DEF PutOwn, PutPaired, PutReplaced, PutUnroutable, PutUnref,
             PutShown
      <4> QED
        BY <2>1, <4>1, <4>2
    <3> QED
      <4>1. /\ pc' \in {"loop", "after"} /\ cur' \in Pictures \cup {NoPicture}
            /\ own_route' \in BOOLEAN /\ generic' \in Seq(Pictures)
        BY <2>5 DEF TypeOK
      <4> QED
        BY <2>2, <3>1, <3>2, <3>3, <4>1 DEF TypeOK, appVars, apiVars,
             frameVars, clockVars
  <2> QED
    BY <1>8, <2>4, <2>5, PutCases
<1>9. CASE put_failed
  <2>1. cur \in Pictures /\ cur.surf \in Surfaces
    BY <1>9, AtWork DEF put_failed, Pushing
  <2>2. /\ decoded' \in [Surfaces -> BOOLEAN]
        /\ decode_failed' \in [Surfaces -> BOOLEAN]
        /\ h264_field_pending' \in [Surfaces -> BOOLEAN]
    BY <1>9, <2>1, CompleteFacts DEF put_failed
  <2>3. generic' \in Seq(Pictures)
    BY <1>9, RemovedType DEF put_failed
  <2>4. h264_routes' \subseteq Pictures /\ outstanding' \in Nat
    BY <1>9 DEF put_failed, MinusOne, TypeOK
  <2>5. freed_twice' \in BOOLEAN
    BY <1>9 DEF put_failed
  <2>6. /\ pc' = "loop" /\ cur' = NoPicture /\ own_route' = FALSE
        /\ UNCHANGED <<fence, bound, appVars, apiVars, jobs, new_route,
                       frameVars, clockVars, mppVars>>
    BY <1>9 DEF put_failed
  <2> QED
    BY <2>2, <2>3, <2>4, <2>5, <2>6, ZenonT(90) DEF TypeOK, appVars, apiVars,
         frameVars, clockVars, mppVars
<1>10. ASSUME NEW frame \in Packets, route_frame(frame), Drained, MayDrain,
              mpp' \subseteq mpp, saw_eos' \in BOOLEAN
       PROVE  TypeOK'
  <2>1. ReturnTo \in {"loop", "put", "eos"}
    BY <1>10 DEF MayDrain, ReturnTo
  <2>2. /\ UNCHANGED <<surfVars, appVars, apiVars, jobs, cur, new_route,
                       freed_twice, clockVars, mpp_eos>>
        /\ stalled' \in BOOLEAN
    BY <1>10 DEF Drained, TypeOK
  <2>3. CASE pc' = ReturnTo /\ UNCHANGED <<routeVars, asg, back, own_route>>
    BY <1>10, <2>1, <2>2, <2>3 DEF TypeOK, routeVars, surfVars, appVars,
         apiVars, clockVars
  <2>4. ASSUME NEW r \in RoutesOf, Consumes(r, frame)
        PROVE  TypeOK'
    <3>1. r \in Pictures
      BY DEF RoutesOf, TypeOK
    <3>2. generic' \in Seq(Pictures) /\ h264_routes' \subseteq Pictures
      <4>1. generic \in Seq(Pictures) /\ h264_routes \subseteq Pictures
        BY DEF TypeOK
      <4>2. generic # <<>> => Tail(generic) \in Seq(Pictures)
        BY <4>1, Oldest
      <4> QED
        BY <2>4, <4>1, <4>2 DEF Consumes
    <3>3. own_route' \in BOOLEAN
      BY <2>4 DEF Consumes
    <3>4. /\ outstanding' \in Nat
          /\ pc' \in {"loop", "put", "eos", "assign"}
          /\ back' \in {"loop", "put", "eos"}
          /\ asg' \in [route : Pictures \cup {NoPicture}, frame : Packets]
      BY <1>10, <2>1, <2>4, <3>1
         DEF Consumes, Dropped, Assigning, MinusOne, TypeOK
    <3> QED
      BY <1>10, <2>2, <3>2, <3>3, <3>4 DEF TypeOK, surfVars, appVars,
           apiVars, clockVars
  <2> QED
    BY <1>10, <2>3, <2>4, RouteCases
<1>11. ASSUME NEW packet \in mpp, drain_frame(packet)
       PROVE  TypeOK'
  <2>1. packet \in Packets /\ saw_eos' \in BOOLEAN /\ mpp' \subseteq mpp
    BY <1>11 DEF drain_frame, TypeOK
  <2> QED
    BY <1>10, <1>11, <2>1 DEF drain_frame
<1>12. CASE drain_eos_marker
  <2>1. [tok |-> 0, pic |-> 0] \in Packets
    BY DEF Packets
  <2> QED
    BY <1>10, <1>12, <2>1 DEF drain_eos_marker
<1>13. CASE assign_bind \/ assign_reject
  <2>1. asg.route.surf \in Surfaces /\ asg.frame \in Packets
    BY <1>13, AtWork DEF assign_bind, assign_reject, TypeOK
  <2>2. /\ decoded' \in [Surfaces -> BOOLEAN]
        /\ decode_failed' \in [Surfaces -> BOOLEAN]
        /\ h264_field_pending' \in [Surfaces -> BOOLEAN]
    <3>1. CASE UNCHANGED <<decoded, decode_failed, h264_field_pending>>
      BY <3>1 DEF TypeOK
    <3>2. ASSUME NEW ok \in BOOLEAN,
                 Complete(asg.route.surf, asg.route.fence, ok)
          PROVE  /\ decoded' \in [Surfaces -> BOOLEAN]
                 /\ decode_failed' \in [Surfaces -> BOOLEAN]
                 /\ h264_field_pending' \in [Surfaces -> BOOLEAN]
      BY <2>1, <3>2, CompleteFacts
    <3> QED
      BY <1>13, <3>1, <3>2 DEF assign_bind, assign_reject
  <2>3. bound' \in [Surfaces -> Nat]
    BY <1>13, <2>1 DEF assign_bind, assign_reject, TypeOK, Packets
  <2>4. Assigned
    BY <1>13 DEF assign_bind, assign_reject
  <2>5. outstanding' \in Nat /\ pc' \in {"loop", "put", "eos"}
        /\ asg' \in [route : Pictures \cup {NoPicture}, frame : Packets]
    <3>1. NoAssign \in [route : Pictures \cup {NoPicture}, frame : Packets]
      BY DEF NoAssign, Packets
    <3> QED
      BY <2>4, <3>1 DEF Assigned, MinusOne, TypeOK
  <2> QED
    BY <2>2, <2>3, <2>4, <2>5 DEF TypeOK, Assigned, appVars, apiVars,
         submitVars, clockVars, mppVars
<1>14. CASE stall_timeout
  <2>1. <<>> \in Seq(Pictures)
    OBVIOUS
  <2>2. decode_failed' \in [Surfaces -> BOOLEAN]
    BY <1>14, FailTypes DEF stall_timeout
  <2>3. /\ stalled' = FALSE /\ h264_routes' = {} /\ generic' = <<>>
        /\ outstanding' = 0
        /\ UNCHANGED <<fence, decoded, h264_field_pending, bound, appVars,
                       apiVars, jobs, pc, submitVars, asg, back, saw_eos,
                       clockVars, mppVars>>
    BY <1>14 DEF stall_timeout
  <2>4. stalled' \in BOOLEAN /\ h264_routes' \subseteq Pictures
        /\ generic' \in Seq(Pictures) /\ outstanding' \in Nat
    BY <2>1, <2>3
  <2> QED
    BY <2>2, <2>3, <2>4 DEF TypeOK, appVars, apiVars, submitVars, clockVars,
         mppVars
<1>15. CASE after_submit_timeout \/ stall_begin \/ eos_begin \/ worker_exit
  <2>1. CASE after_submit_timeout
    BY <2>1 DEF TypeOK, after_submit_timeout, surfVars, appVars, apiVars,
         submitVars, routeVars, frameVars, clockVars, mppVars
  <2>2. CASE stall_begin
    BY <2>2 DEF TypeOK, stall_begin, surfVars, appVars, apiVars, submitVars,
         routeVars, clockVars, mppVars
  <2>3. CASE eos_begin
    BY <2>3 DEF TypeOK, eos_begin, surfVars, appVars, apiVars, submitVars,
         routeVars, frameVars, mppVars
  <2>4. CASE worker_exit
    BY <2>4 DEF TypeOK, worker_exit, surfVars, appVars, apiVars, submitVars,
         routeVars, frameVars, clockVars, mppVars
  <2> QED
    BY <1>15, <2>1, <2>2, <2>3, <2>4
<1>16. ASSUME NEW accepted \in BOOLEAN, eos_end(accepted)
       PROVE  TypeOK'
  BY <1>16 DEF TypeOK, eos_end, surfVars, appVars, apiVars, submitVars,
       routeVars, frameVars, clockVars
<1>17. ASSUME NEW packet \in mpp, mpp_lose(packet)
       PROVE  TypeOK'
  BY <1>17 DEF TypeOK, mpp_lose, surfVars, appVars, apiVars, submitVars,
       routeVars, frameVars, clockVars
<1>18. CASE UNCHANGED vars
  BY <1>18 DEF TypeOK, vars, surfVars, appVars, apiVars, submitVars,
       routeVars, frameVars, clockVars, mppVars
<1> QED
  BY <1>1, <1>2, <1>3, <1>3f, <1>4, <1>5, <1>6, <1>7, <1>8, <1>9, <1>11,
     <1>12, <1>13, <1>14, <1>15, <1>16, <1>17, <1>18
     DEF Next, WorkerStep, Finished

(* Every step keeps the worker's phases.                                   *)
LEMMA PhasesKept ==
  ASSUME Base, [Next]_vars
  PROVE  Phased'
<1> USE DEF Base
<1>1. ASSUME UNCHANGED <<cur, pc, back, asg, own_route, built, mpp_eos,
                         eos_signalled, jobs, h264_routes, ctx>>
      PROVE  Phased'
  BY <1>1 DEF Phased, Pushing
<1>2. ASSUME NEW s \in Surfaces, NEW second \in BOOLEAN,
             rk_BeginPicture(s, second)
      PROVE  Phased'
  <2>1. /\ ctx = "live"
        /\ UNCHANGED <<ctx, jobs, pc, cur, own_route, h264_routes, asg, back,
                       eos_signalled, mpp_eos>>
    BY <1>2 DEF rk_BeginPicture, submitVars, routeVars, frameVars, clockVars,
         mppVars
  <2> QED
    BY <2>1 DEF Phased, Pushing
<1>3. ASSUME NEW kind, end_build(kind)
      PROVE  Phased'
  <2>1. /\ ctx = "live"
        /\ UNCHANGED <<ctx, jobs, pc, cur, own_route, h264_routes, asg, back,
                       eos_signalled, mpp_eos>>
    BY <1>3 DEF end_build, submitVars, routeVars, frameVars, clockVars, mppVars
  <2> QED
    BY <2>1 DEF Phased, Pushing
<1>4. CASE end_failed
  <2>1. /\ ctx = "live"
        /\ UNCHANGED <<ctx, jobs, pc, cur, own_route, h264_routes, asg, back,
                       eos_signalled, mpp_eos>>
    BY <1>4 DEF end_failed, submitVars, routeVars, frameVars, clockVars,
         mppVars
  <2> QED
    BY <2>1 DEF Phased, Pushing
<1>4f. ASSUME NEW j \in built, rk_mpp_dec_fail_surface(j)
       PROVE  Phased'
  <2>1. /\ built' = built \ {j}
        /\ UNCHANGED <<ctx, jobs, pc, cur, own_route, h264_routes, asg, back,
                       eos_signalled, mpp_eos>>
    BY <1>4f DEF rk_mpp_dec_fail_surface, submitVars, routeVars, frameVars,
         clockVars, mppVars
  <2> QED
    BY <2>1 DEF Phased, Pushing
<1>5. ASSUME NEW j \in built, rk_mpp_dec_enqueue_job(j)
      PROVE  Phased'
  <2>1. /\ built' = built \ {j}
        /\ UNCHANGED <<ctx, pc, cur, own_route, h264_routes, asg, back,
                       eos_signalled, mpp_eos>>
    BY <1>5 DEF rk_mpp_dec_enqueue_job, submitVars, routeVars, frameVars,
         clockVars, mppVars
  <2>2. ctx = "live" /\ ~eos_signalled
    BY DEF Phased
  <2> QED
    BY <2>1, <2>2 DEF Phased, Pushing
<1>6. CASE rk_DestroyContext
  <2>1. /\ built = {} /\ ctx' = "stopping" /\ ctx = "live"
        /\ UNCHANGED <<built, jobs, pc, cur, own_route, h264_routes, asg,
                       back, eos_signalled, mpp_eos>>
    BY <1>6 DEF rk_DestroyContext, submitVars, routeVars, frameVars,
         clockVars, mppVars
  <2> QED
    BY <2>1 DEF Phased, Pushing
<1>7. CASE drain_deadline
  BY <1>1, <1>7 DEF drain_deadline, apiVars, submitVars, routeVars, frameVars,
       mppVars
<1>8. CASE stop_joined
  <2>1. /\ ctx # "live" /\ ctx' = "destroyed" /\ jobs' = <<>>
        /\ h264_routes' = {} /\ IsFiniteSet({})
        /\ UNCHANGED <<built, pc, cur, own_route, asg, back, eos_signalled,
                       mpp_eos>>
    BY <1>8, FS_EmptySet DEF stop_joined, submitVars, frameVars, clockVars
  <2> QED
    BY <2>1 DEF Phased, Pushing
<1>9. CASE take_job
  <2>1. /\ pc = "loop" /\ jobs # <<>> /\ Head(jobs) \in Pictures
        /\ UNCHANGED <<ctx, built, asg, back, eos_signalled, mpp_eos>>
    BY <1>9, TakeCases DEF take_job, apiVars, clockVars, mppVars
  <2>2. ~eos_signalled /\ ~mpp_eos
    BY <2>1 DEF Phased
  <2>3. CASE pc' = "put" /\ cur' \in Pictures /\ IsFiniteSet(h264_routes')
    BY <2>1, <2>2, <2>3, NoPictureFacts DEF Phased, Pushing
  <2>4. ASSUME NEW r \in h264_routes, TakePaired(Head(jobs), r)
        PROVE  Phased'
    <3>1. [Head(jobs) EXCEPT !.tok = r.tok] \in Pictures
      BY <2>1, <2>4 DEF TypeOK, Pictures
    <3> QED
      BY <2>3, <2>4, <3>1 DEF TakePaired, Phased
  <2>5. CASE TakeRouted(Head(jobs))
    <3>1. IsFiniteSet(h264_routes \cup {Head(jobs)})
      BY FS_AddElement DEF Phased
    <3> QED
      BY <2>1, <2>3, <2>5, <3>1 DEF TakeRouted, Phased
  <2>6. CASE TakeEmpty(Head(jobs))
    BY <2>1, <2>2, <2>6 DEF TakeEmpty, Phased, Pushing
  <2>7. CASE TakeHidden(Head(jobs))
    BY <2>1, <2>3, <2>7 DEF TakeHidden, Phased
  <2> QED
    BY <1>9, <2>4, <2>5, <2>6, <2>7, TakeCases
<1>10. CASE put_accepted
  <2>1. /\ pc = "put"
        /\ UNCHANGED <<ctx, built, jobs, asg, back, eos_signalled, mpp_eos>>
    BY <1>10 DEF put_accepted, apiVars, frameVars, clockVars
  <2>2. cur \in Pictures /\ ~eos_signalled /\ ~mpp_eos
    BY <2>1, AtWork DEF Phased, Pushing
  <2>3. CASE PutAltref
    <3>1. [cur EXCEPT !.kind = "repeat"] \in Pictures
      BY <2>2 DEF Pictures
    <3> QED
      BY <2>1, <2>2, <2>3, <3>1, NoPictureFacts DEF PutAltref, Phased, Pushing
  <2>4. ASSUME pc' \in {"loop", "after"}, cur' = NoPicture,
               own_route' = FALSE,
               h264_routes' \in {h264_routes, h264_routes \cup {cur}}
        PROVE  Phased'
    <3>1. IsFiniteSet(h264_routes')
      BY <2>4, FS_AddElement DEF Phased
    <3> QED
      BY <2>1, <2>2, <2>4, <3>1 DEF Phased, Pushing
  <2> QED
    BY <1>10, <2>3, <2>4, PutCases DEF PutOwn, PutPaired, PutReplaced,
         PutUnroutable, PutUnref, PutShown
<1>11. CASE put_failed
  <2>1. /\ pc = "put" /\ pc' = "loop" /\ cur' = NoPicture
        /\ own_route' = FALSE /\ h264_routes' \subseteq h264_routes
        /\ UNCHANGED <<ctx, built, jobs, asg, back, eos_signalled, mpp_eos>>
    BY <1>11 DEF put_failed, apiVars, frameVars, clockVars, mppVars
  <2>2. IsFiniteSet(h264_routes')
    BY <2>1, FS_Subset DEF Phased
  <2> QED
    BY <2>1, <2>2 DEF Phased, Pushing
<1>12. ASSUME NEW frame, route_frame(frame), Drained, MayDrain
       PROVE  Phased'
  <2>1. UNCHANGED <<ctx, built, jobs, cur, eos_signalled, mpp_eos>>
    BY <1>12 DEF Drained, apiVars, clockVars
  <2>2. pc \in {"loop", "put", "after", "eos"}
        /\ ReturnTo = (IF pc = "after" THEN "loop" ELSE pc)
    BY <1>12 DEF MayDrain, ReturnTo
  <2>3. CASE pc' = ReturnTo /\ UNCHANGED <<routeVars, asg, back, own_route>>
    BY <2>1, <2>2, <2>3 DEF Phased, Pushing, routeVars
  <2>4. ASSUME NEW r \in RoutesOf, Consumes(r, frame)
        PROVE  Phased'
    <3>1. r \in Pictures
      BY DEF RoutesOf, TypeOK
    <3>2. h264_routes' \subseteq h264_routes /\ (own_route' => own_route)
      BY <2>4 DEF Consumes
    <3>3. IsFiniteSet(h264_routes')
      BY <3>2, FS_Subset DEF Phased
    <3>4. CASE Dropped(r)
      BY <2>1, <2>2, <3>2, <3>3, <3>4 DEF Dropped, Phased, Pushing
    <3>5. CASE Assigning(r, frame)
      <4>1. pc' = "assign" /\ asg'.route = r /\ back' = ReturnTo
        BY <3>5 DEF Assigning
      <4> QED
        BY <2>1, <2>2, <3>1, <3>2, <3>3, <4>1 DEF Phased, Pushing
    <3> QED
      BY <2>4, <3>4, <3>5 DEF Consumes
  <2> QED
    BY <1>12, <2>3, <2>4, RouteCases
<1>13. ASSUME NEW packet \in mpp, drain_frame(packet)
       PROVE  Phased'
  BY <1>12, <1>13 DEF drain_frame
<1>14. CASE drain_eos_marker
  BY <1>12, <1>14 DEF drain_eos_marker
<1>15. CASE after_submit_timeout
  <2>1. /\ pc = "after" /\ pc' = "loop"
        /\ UNCHANGED <<cur, back, asg, own_route, built, mpp_eos,
                       eos_signalled, jobs, h264_routes, ctx>>
    BY <1>15 DEF after_submit_timeout, apiVars, submitVars, routeVars,
         frameVars, clockVars, mppVars
  <2> QED
    BY <2>1 DEF Phased, Pushing
<1>16. CASE assign_bind \/ assign_reject
  <2>1. /\ pc = "assign" /\ asg' = NoAssign /\ pc' = back
        /\ UNCHANGED <<cur, back, own_route, built, mpp_eos,
                       eos_signalled, jobs, h264_routes, ctx>>
    BY <1>16 DEF assign_bind, assign_reject, Assigned, apiVars, submitVars,
         clockVars, mppVars
  <2>2. back \in {"loop", "put", "eos"}
    BY DEF TypeOK
  <2> QED
    BY <2>1, <2>2, NoPictureFacts DEF Phased, Pushing
<1>17. CASE stall_begin
  BY <1>1, <1>17 DEF stall_begin, apiVars, submitVars, routeVars,
       clockVars, mppVars
<1>18. CASE stall_timeout
  <2>1. /\ h264_routes' = {} /\ IsFiniteSet({})
        /\ UNCHANGED <<cur, pc, back, asg, own_route, built, mpp_eos,
                       eos_signalled, jobs, ctx>>
    BY <1>18, FS_EmptySet DEF stall_timeout, apiVars, submitVars, clockVars,
         mppVars
  <2> QED
    BY <2>1 DEF Phased, Pushing
<1>19. CASE eos_begin
  <2>1. /\ pc = "loop" /\ ctx = "stopping" /\ jobs = <<>>
        /\ eos_signalled' = TRUE /\ pc' = "eos"
        /\ UNCHANGED <<cur, back, asg, own_route, built, mpp_eos, jobs,
                       h264_routes, ctx>>
    BY <1>19 DEF eos_begin, draining, apiVars, submitVars, routeVars,
         frameVars, mppVars
  <2> QED
    BY <2>1 DEF Phased, Pushing
<1>20. ASSUME NEW accepted \in BOOLEAN, eos_end(accepted)
       PROVE  Phased'
  <2>1. /\ pc = "eos" /\ pc' = "loop"
        /\ UNCHANGED <<cur, back, asg, own_route, built, eos_signalled, jobs,
                       h264_routes, ctx>>
    BY <1>20 DEF eos_end, apiVars, submitVars, routeVars, frameVars, clockVars
  <2> QED
    BY <2>1 DEF Phased, Pushing
<1>21. CASE worker_exit
  <2>1. /\ pc = "loop" /\ ctx = "stopping" /\ pc' = "exited"
        /\ UNCHANGED <<cur, back, asg, own_route, built, mpp_eos,
                       eos_signalled, jobs, h264_routes, ctx>>
    BY <1>21 DEF worker_exit, LoopEnds, draining, apiVars, submitVars,
         routeVars, frameVars, clockVars, mppVars
  <2> QED
    BY <2>1 DEF Phased, Pushing
<1>22. ASSUME NEW packet \in mpp, mpp_lose(packet)
       PROVE  Phased'
  BY <1>1, <1>22 DEF mpp_lose, apiVars, submitVars, routeVars, frameVars,
       clockVars
<1>23. CASE UNCHANGED vars
  BY <1>1, <1>23 DEF vars, apiVars, submitVars, routeVars, frameVars,
       clockVars, mppVars
<1> QED
  BY <1>2, <1>3, <1>4, <1>4f, <1>5, <1>6, <1>7, <1>8, <1>9, <1>10, <1>11,
     <1>13, <1>14, <1>15, <1>16, <1>17, <1>18, <1>19, <1>20, <1>21, <1>22,
     <1>23 DEF Next, WorkerStep, Finished

(* The first state has these types and phases.                             *)
LEMMA BaseInit == Init => Base
<1> SUFFICES ASSUME Init PROVE Base
  OBVIOUS
<1>1. TypeOK
  <2>1. NoAssign \in [route : Pictures \cup {NoPicture}, frame : Packets]
    BY DEF NoAssign, Packets
  <2>2. <<>> \in Seq(Pictures)
    OBVIOUS
  <2> QED
    BY <2>1, <2>2 DEF Init, TypeOK
<1>2. Phased
  BY NoPictureFacts, FS_EmptySet DEF Init, Phased, Pushing
<1> QED
  BY <1>1, <1>2 DEF Base

(* The types and the phases hold throughout.                               *)
THEOREM BaseInvariant == Spec => []Base
<1>1. Base /\ [Next]_vars => Base'
  BY TypesKept, PhasesKept DEF Base
<1> QED
  BY BaseInit, <1>1, PTL DEF Spec

(* The state of the surfaces, of the context and of the worker keeps its   *)
(* shape, whatever MPP and the application do.                             *)
THEOREM DecodeTypes == Spec => []TypeOK
<1>1. Base => TypeOK
  BY DEF Base
<1> QED
  BY BaseInvariant, <1>1, PTL

(* worker_signal_eos sends the end-of-stream packet behind every job that  *)
(* was queued, and no job is taken or queued after it.                     *)
THEOREM EosComesLast == Spec => []EosAfterAllInput
<1>1. Base => EosAfterAllInput
  BY DEF Base, Phased, EosAfterAllInput
<1> QED
  BY BaseInvariant, <1>1, PTL

-----------------------------------------------------------------------------
(***************************************************************************)
(* What the steps do to jobs and routes, whichever variable holds them.    *)
(***************************************************************************)
Entries(q) == {q[i] : i \in DOMAIN q}

(* Tokens grow along a queue.                                              *)
Rising(q) == \A k, l \in DOMAIN q : k < l => q[k].tok < q[l].tok

(* The entries of a queue that loses its head or gets a new tail.          *)
LEMMA QueueMoves ==
  ASSUME NEW T, NEW q \in Seq(T)
  PROVE  /\ q # <<>> => Entries(q) = Entries(Tail(q)) \cup {Head(q)}
         /\ \A e \in T : Entries(Append(q, e)) = Entries(q) \cup {e}
<1>1. ASSUME q # <<>>
      PROVE  Entries(q) = Entries(Tail(q)) \cup {Head(q)}
  <2>1. /\ Head(q) = q[1] /\ 1 \in DOMAIN q
        /\ \A k \in DOMAIN Tail(q) :
             k + 1 \in DOMAIN q /\ Tail(q)[k] = q[k + 1]
        /\ \A k \in DOMAIN q : k = 1 \/
             (k - 1 \in DOMAIN Tail(q) /\ Tail(q)[k - 1] = q[k])
    BY <1>1, Oldest
  <2>2. Entries(q) \subseteq Entries(Tail(q)) \cup {Head(q)}
    BY <2>1 DEF Entries
  <2>3. Entries(Tail(q)) \cup {Head(q)} \subseteq Entries(q)
    BY <2>1 DEF Entries
  <2> QED
    BY <2>2, <2>3
<1>2. ASSUME NEW e \in T
      PROVE  Entries(Append(q, e)) = Entries(q) \cup {e}
  BY <1>2, Newest DEF Entries
<1> QED
  BY <1>1, <1>2

(* Jobs and routes as entries of their queues.                             *)
LEMMA AsEntries ==
  /\ RoutesOf = h264_routes \cup Entries(generic) /\ JobsOf = Entries(jobs)
  /\ RoutesOf' = h264_routes' \cup Entries(generic')
  /\ JobsOf' = Entries(jobs')
BY DEF RoutesOf, JobsOf, Entries

(* Jobs, routes, and whatever else will settle a fence, are pictures.      *)
LEMMA CarrierTypes ==
  ASSUME TypeOK
  PROVE  /\ JobsOf \subseteq Pictures /\ RoutesOf \subseteq Pictures
         /\ asg.route \in Pictures \cup {NoPicture}
         /\ Carriers \subseteq Pictures \cup {NoPicture}
BY DEF TypeOK, JobsOf, RoutesOf, Carriers

(* The FIFO without the route of a token: at most that route is gone, and  *)
(* the others keep their order.                                            *)
LEMMA Removed ==
  ASSUME TypeOK, NEW t
  PROVE  /\ Entries(generic_route_remove(t)) \subseteq Entries(generic)
         /\ \A r \in Entries(generic) :
              r.tok = t \/ r \in Entries(generic_route_remove(t))
         /\ (\E r \in Entries(generic) : r.tok = t) =>
              Len(generic_route_remove(t)) = Len(generic) - 1
         /\ (\A r \in Entries(generic) : r.tok # t) =>
              generic_route_remove(t) = generic
         /\ Rising(generic) =>
              /\ Rising(generic_route_remove(t))
              /\ \A r \in Entries(generic_route_remove(t)) : r.tok # t
<1> DEFINE places == {i \in DOMAIN generic : generic[i].tok = t}
           at == CHOOSE i \in places : TRUE
           rest == [i \in 1 .. Len(generic) - 1 |->
                      IF i < at THEN generic[i] ELSE generic[i + 1]]
<1>1. generic \in Seq(Pictures)
  BY DEF TypeOK
<1>2. CASE places = {}
  <2>1. generic_route_remove(t) = generic
    BY <1>2, Zenon DEF generic_route_remove
  <2> QED
    BY <1>2, <2>1 DEF Entries
<1>3. CASE places # {}
  <2>1. generic_route_remove(t) = rest
    BY <1>3, Zenon DEF generic_route_remove
  <2>2. at \in places
    BY <1>3
  <2>3. at \in DOMAIN generic /\ DOMAIN generic = 1 .. Len(generic)
        /\ Len(generic) \in Nat /\ at \in Nat /\ generic[at].tok = t
    BY <1>1, <2>2
  <2> HIDE DEF at, places
  <2>4. /\ DOMAIN rest = 1 .. Len(generic) - 1
        /\ Len(generic) - 1 \in Nat
        /\ \A i \in DOMAIN rest :
             rest[i] = IF i < at THEN generic[i] ELSE generic[i + 1]
    BY <2>3
  <2>5. Len(rest) = Len(generic) - 1
    BY <2>1, <2>4, RemovedType
  <2> HIDE DEF rest
  <2>6. \A i \in DOMAIN rest :
          /\ i < at => i \in DOMAIN generic
          /\ ~(i < at) => i + 1 \in DOMAIN generic
    BY <2>3, <2>4
  <2>7. Entries(rest) \subseteq Entries(generic)
    BY <2>4, <2>6 DEF Entries
  <2>8. \A i \in DOMAIN generic : i # at => generic[i] \in Entries(rest)
    <3> SUFFICES ASSUME NEW i \in DOMAIN generic, i # at
                 PROVE  generic[i] \in Entries(rest)
      OBVIOUS
    <3>1. CASE i < at
      BY <2>3, <2>4, <3>1 DEF Entries
    <3>2. CASE i > at
      <4>1. i - 1 \in DOMAIN rest /\ ~(i - 1 < at) /\ (i - 1) + 1 = i
        BY <2>3, <2>4, <3>2
      <4>2. rest[i - 1] = generic[i]
        BY <2>4, <4>1
      <4> QED
        BY <4>1, <4>2 DEF Entries
    <3> QED
      BY <2>3, <3>1, <3>2
  <2>9. ASSUME Rising(generic)
        PROVE  /\ Rising(rest)
               /\ \A r \in Entries(rest) : r.tok # t
    <3>1. \A i \in DOMAIN generic : generic[i].tok \in Nat
      <4>1. \A i \in DOMAIN generic : generic[i] \in Pictures
        BY <1>1
      <4> QED
        BY <4>1 DEF Pictures
    <3>2. ASSUME NEW k \in DOMAIN rest, NEW l \in DOMAIN rest, k < l
          PROVE  rest[k].tok < rest[l].tok
      <4> DEFINE m == IF k < at THEN k ELSE k + 1
                 n == IF l < at THEN l ELSE l + 1
      <4>1. m \in DOMAIN generic /\ n \in DOMAIN generic /\ m < n
        BY <2>3, <2>4, <2>6, <3>2
      <4>2. rest[k] = generic[m] /\ rest[l] = generic[n]
        BY <2>4
      <4> QED
        BY <2>9, <4>1, <4>2 DEF Rising
    <3>3. ASSUME NEW k \in DOMAIN rest
          PROVE  rest[k].tok # t
      <4> DEFINE m == IF k < at THEN k ELSE k + 1
      <4>1. m \in DOMAIN generic /\ (m < at \/ at < m)
        BY <2>3, <2>4, <2>6
      <4>2. rest[k] = generic[m]
        BY <2>4
      <4> HIDE DEF m
      <4>3. generic[m].tok < generic[at].tok \/ generic[at].tok < generic[m].tok
        BY <2>3, <2>9, <4>1 DEF Rising
      <4> QED
        BY <2>3, <3>1, <4>1, <4>2, <4>3
    <3> QED
      BY <3>2, <3>3 DEF Rising, Entries
  <2>10. \E r \in Entries(generic) : r.tok = t
    BY <2>3 DEF Entries
  <2> QED
    BY <2>1, <2>5, <2>7, <2>8, <2>9, <2>10, <2>3 DEF Entries
<1> QED
  BY <1>2, <1>3

(* Steps that move only the context's phase, a timer or the worker between *)
(* places where it holds no job and no frame.                              *)
Quiet ==
  /\ UNCHANGED <<surfVars, appVars, render, built, next_token, jobs,
                 submitVars, routeVars, asg, back, mpp>>
  /\ pc' = pc \/ (pc \in {"loop", "after", "eos"}
                  /\ pc' \in {"loop", "eos", "exited"})

(* drain_output_frame gets the frame of a packet, or the end-of-stream     *)
(* marker.                                                                 *)
Drains(frame) ==
  /\ MayDrain /\ route_frame(frame) /\ Drained
  /\ \/ frame \in mpp /\ Deliverable(frame) /\ mpp' = mpp \ {frame}
     \/ mpp_eos /\ mpp = {} /\ frame = [tok |-> 0, pic |-> 0] /\ mpp' = mpp

(* Every step is quiet or does one of the following.                       *)
LEMMA StepCases ==
  ASSUME TypeOK, [Next]_vars
  PROVE  /\ coding' = coding
         /\ \/ Quiet
            \/ \E s \in Surfaces, second \in BOOLEAN :
                 rk_BeginPicture(s, second)
            \/ \E kind \in Kinds \cap KindsOf(coding) : end_build(kind)
            \/ end_failed
            \/ \E j \in built : rk_mpp_dec_fail_surface(j)
            \/ \E j \in built : rk_mpp_dec_enqueue_job(j)
            \/ stop_joined
            \/ take_job
            \/ put_accepted
            \/ put_failed
            \/ \E frame \in Packets : Drains(frame)
            \/ assign_bind \/ assign_reject
            \/ stall_timeout
            \/ \E packet \in mpp : mpp_lose(packet)
<1> DEFINE Done ==
      /\ coding' = coding
      /\ \/ Quiet
         \/ \E s \in Surfaces, second \in BOOLEAN :
              rk_BeginPicture(s, second)
         \/ \E kind \in Kinds \cap KindsOf(coding) : end_build(kind)
         \/ end_failed
         \/ \E j \in built : rk_mpp_dec_fail_surface(j)
         \/ \E j \in built : rk_mpp_dec_enqueue_job(j)
         \/ stop_joined
         \/ take_job
         \/ put_accepted
         \/ put_failed
         \/ \E frame \in Packets : Drains(frame)
         \/ assign_bind \/ assign_reject
         \/ stall_timeout
         \/ \E packet \in mpp : mpp_lose(packet)
<1>1. ASSUME NEW s \in Surfaces, NEW second \in BOOLEAN,
             rk_BeginPicture(s, second)
      PROVE  coding' = coding
  BY <1>1 DEF rk_BeginPicture, clockVars
<1>2. ASSUME NEW kind, end_build(kind)
      PROVE  coding' = coding
  BY <1>2 DEF end_build, clockVars
<1>3. ASSUME NEW j \in built,
             rk_mpp_dec_fail_surface(j) \/ rk_mpp_dec_enqueue_job(j)
      PROVE  coding' = coding
  BY <1>3 DEF rk_mpp_dec_fail_surface, rk_mpp_dec_enqueue_job, clockVars
<1>4. ASSUME end_failed \/ stop_joined \/ take_job \/ put_accepted
             \/ put_failed \/ stall_timeout
      PROVE  coding' = coding
  BY <1>4 DEF end_failed, stop_joined, take_job, put_accepted, put_failed,
       stall_timeout, clockVars
<1>5. ASSUME assign_bind \/ assign_reject
      PROVE  coding' = coding
  BY <1>5 DEF assign_bind, assign_reject, Assigned, clockVars
<1>6. ASSUME NEW packet \in mpp, mpp_lose(packet)
      PROVE  coding' = coding
  BY <1>6 DEF mpp_lose, clockVars
<1>7. ASSUME NEW packet \in mpp, drain_frame(packet)
      PROVE  coding' = coding /\ packet \in Packets /\ Drains(packet)
  BY <1>7 DEF drain_frame, Drains, Drained, clockVars, TypeOK
<1>8. ASSUME drain_eos_marker
      PROVE  /\ coding' = coding
             /\ [tok |-> 0, pic |-> 0] \in Packets
             /\ Drains([tok |-> 0, pic |-> 0])
  BY <1>8 DEF drain_eos_marker, Drains, Drained, clockVars, Packets
<1>9. CASE drain_deadline \/ rk_DestroyContext
  <2>1. coding' = coding /\ Quiet
    BY <1>9 DEF drain_deadline, rk_DestroyContext, Quiet, apiVars, frameVars,
         clockVars, mppVars
  <2> QED
    BY <2>1
<1>10. CASE stall_begin
  <2>1. coding' = coding /\ Quiet
    BY <1>10 DEF stall_begin, Quiet, apiVars, clockVars, mppVars
  <2> QED
    BY <2>1
<1>11. CASE after_submit_timeout \/ eos_begin \/ worker_exit
  <2>1. coding' = coding /\ Quiet
    BY <1>11 DEF after_submit_timeout, eos_begin, worker_exit, Quiet, apiVars,
         frameVars, clockVars, mppVars
  <2> QED
    BY <2>1
<1>12. ASSUME NEW accepted \in BOOLEAN, eos_end(accepted)
       PROVE  coding' = coding /\ Quiet
  BY <1>12 DEF eos_end, Quiet, apiVars, frameVars, clockVars, mppVars
<1>13. CASE UNCHANGED vars
  <2>1. coding' = coding /\ Quiet
    BY <1>13 DEF Quiet, vars, apiVars, frameVars, clockVars, mppVars
  <2> QED
    BY <2>1
<1>14. CASE WorkerStep
  <2> HIDE DEF Done
  <2>1. (take_job \/ put_accepted \/ put_failed \/ stall_timeout) => Done
    BY <1>4 DEF Done
  <2>2. (assign_bind \/ assign_reject) => Done
    BY <1>5 DEF Done
  <2>3. (\E packet \in mpp : drain_frame(packet)) => Done
    BY <1>7 DEF Done
  <2>4. drain_eos_marker => Done
    BY <1>8 DEF Done
  <2>5. (after_submit_timeout \/ stall_begin \/ eos_begin \/ worker_exit
         \/ \E accepted \in BOOLEAN : eos_end(accepted)) => Done
    BY <1>10, <1>11, <1>12 DEF Done
  <2>6. Done
    BY <1>14, <2>1, <2>2, <2>3, <2>4, <2>5 DEF WorkerStep
  <2> QED
    BY <2>6 DEF Done
<1>15. CASE Next
  <2> HIDE DEF Done
  <2>1. (\E s \in Surfaces, second \in BOOLEAN : rk_BeginPicture(s, second))
          => Done
    BY <1>1 DEF Done
  <2>2. (\E kind \in Kinds \cap KindsOf(coding) : end_build(kind)) => Done
    BY <1>2 DEF Done
  <2>3. /\ (\E j \in built : rk_mpp_dec_fail_surface(j)) => Done
        /\ (\E j \in built : rk_mpp_dec_enqueue_job(j)) => Done
    BY <1>3 DEF Done
  <2>4. (end_failed \/ stop_joined) => Done
    BY <1>4 DEF Done
  <2>5. (rk_DestroyContext \/ drain_deadline) => Done
    BY <1>9 DEF Done
  <2>6. (\E packet \in mpp : mpp_lose(packet)) => Done
    BY <1>6 DEF Done
  <2>7. Finished => Done
    BY <1>13 DEF Done, Finished
  <2>8. WorkerStep => Done
    BY <1>14 DEF Done
  <2>9. Done
    BY <1>15, <2>1, <2>2, <2>3, <2>4, <2>5, <2>6, <2>7, <2>8 DEF Next
  <2> QED
    BY <2>9 DEF Done
<1> QED
  BY <1>13, <1>15

(* What the drained frame touches, and whether it consumed a route.        *)
LEMMA DrainCases ==
  ASSUME TypeOK, NEW frame \in Packets, Drains(frame)
  PROVE  /\ UNCHANGED <<fence, decoded, decode_failed, bound, want, begins,
                        render, built, next_token, jobs, cur, new_route,
                        freed_twice>>
         /\ pc \in {"loop", "put", "after", "eos"}
         /\ mpp' \subseteq mpp
         /\ \/ /\ pc' = ReturnTo
               /\ UNCHANGED <<h264_routes, generic, outstanding, asg, back,
                              own_route>>
               /\ coding = "VP9" => generic = <<>>
            \/ \E r \in RoutesOf : Consumes(r, frame)
<1>1. UNCHANGED <<fence, decoded, decode_failed, bound, want, begins, render,
                  built, next_token, jobs, cur, new_route, freed_twice>>
  BY DEF Drains, Drained, surfVars, appVars, apiVars
<1>2. pc \in {"loop", "put", "after", "eos"} /\ mpp' \subseteq mpp
  BY DEF Drains, MayDrain
<1> QED
  BY <1>1, <1>2, RouteCases DEF Drains, routeVars

(* The surface has a verdict after the step.                               *)
SettledNext(s) == decoded'[s] \/ decode_failed'[s]

(* The second half of assign_mpp_frame: if the fence is still current it   *)
(* is settled, and nothing else changes.                                   *)
LEMMA AssignCases ==
  ASSUME Base, assign_bind \/ assign_reject
  PROVE  /\ UNCHANGED <<fence, want, begins, render, built, next_token, jobs,
                        cur, new_route, own_route, freed_twice, h264_routes,
                        generic, mpp>>
         /\ pc = "assign" /\ pc' = back /\ asg' = NoAssign /\ back' = back
         /\ outstanding' = MinusOne(outstanding)
         /\ asg.route \in Pictures /\ asg.route.surf \in Surfaces
         /\ asg.route.fence = fence[asg.route.surf] =>
              /\ SettledNext(asg.route.surf)
              /\ \/ decoded'[asg.route.surf]
                    /\ bound'[asg.route.surf] = asg.frame.pic
                 \/ ~decoded'[asg.route.surf]
                    /\ bound'[asg.route.surf] = bound[asg.route.surf]
         /\ \A s \in Surfaces : s # asg.route.surf
                                \/ asg.route.fence # fence[asg.route.surf] =>
              /\ decoded'[s] = decoded[s]
              /\ decode_failed'[s] = decode_failed[s]
              /\ bound'[s] = bound[s]
<1>1. Assigned /\ pc = "assign"
  BY DEF assign_bind, assign_reject
<1>2. /\ UNCHANGED <<fence, want, begins, render, built, next_token, jobs,
                     cur, new_route, own_route, freed_twice, h264_routes,
                     generic, mpp>>
      /\ pc' = back /\ asg' = NoAssign /\ back' = back
      /\ outstanding' = MinusOne(outstanding)
  BY <1>1 DEF Assigned, appVars, apiVars, submitVars, mppVars
<1>3. asg.route \in Pictures /\ asg.route.surf \in Surfaces
  BY <1>1, AtWork
<1> DEFINE s == asg.route.surf
           f == asg.route.fence
<1>4. bound \in [Surfaces -> Nat] /\ TypeOK
  BY DEF Base, TypeOK
<1>5. CASE assign_reject
  <2>1. Complete(s, f, FALSE) /\ bound' = bound
    BY <1>5 DEF assign_reject
  <2>2. /\ fence[s] = f => ~decoded'[s] /\ decode_failed'[s]
        /\ \A t \in Surfaces : t # s \/ fence[s] # f =>
             decoded'[t] = decoded[t] /\ decode_failed'[t] = decode_failed[t]
    BY <1>3, <1>4, <2>1, CompleteFacts
  <2> QED
    BY <1>1, <1>2, <1>3, <2>1, <2>2 DEF SettledNext
<1>6. CASE assign_bind /\ fence[s] = f
  <2>1. Complete(s, f, TRUE) /\ bound' = [bound EXCEPT ![s] = asg.frame.pic]
    BY <1>6 DEF assign_bind
  <2>2. /\ fence[s] = f => decoded'[s] /\ ~decode_failed'[s]
        /\ \A t \in Surfaces : t # s \/ fence[s] # f =>
             decoded'[t] = decoded[t] /\ decode_failed'[t] = decode_failed[t]
    BY <1>3, <1>4, <2>1, CompleteFacts
  <2> QED
    BY <1>1, <1>2, <1>3, <1>4, <1>6, <2>1, <2>2 DEF SettledNext
<1>7. CASE assign_bind /\ fence[s] # f
  <2>1. UNCHANGED <<bound, decoded, decode_failed>>
    BY <1>7 DEF assign_bind
  <2> QED
    BY <1>1, <1>2, <1>3, <1>7, <2>1
<1> QED
  BY <1>5, <1>6, <1>7

(* Which routes a step adds or removes.                                    *)
LEMMA RouteMoves ==
  ASSUME TypeOK
  PROVE  /\ \A job \in Pictures :
              TakeRouted(job) => RoutesOf' = RoutesOf \cup {job}
         /\ \A r \in RoutesOf : \A frame : Consumes(r, frame) =>
              RoutesOf' \subseteq RoutesOf /\ RoutesOf \subseteq RoutesOf' \cup {r}
         /\ PutAltref /\ cur' \in Pictures => RoutesOf' = RoutesOf \cup {cur'}
         /\ put_failed =>
              /\ RoutesOf' \subseteq RoutesOf
              /\ \A r \in RoutesOf : r.tok = cur.tok \/ r \in RoutesOf'
<1>1. generic \in Seq(Pictures)
  BY DEF TypeOK
<1>2. ASSUME NEW job \in Pictures, TakeRouted(job)
      PROVE  RoutesOf' = RoutesOf \cup {job}
  <2>1. Entries(Append(generic, job)) = Entries(generic) \cup {job}
    BY <1>1, QueueMoves
  <2> QED
    BY <1>2, <2>1, AsEntries DEF TakeRouted
<1>3. ASSUME NEW r \in RoutesOf, NEW frame, Consumes(r, frame)
      PROVE  RoutesOf' \subseteq RoutesOf /\ RoutesOf \subseteq RoutesOf' \cup {r}
  <2>1. generic # <<>> =>
          Entries(generic) = Entries(Tail(generic)) \cup {Head(generic)}
    BY <1>1, QueueMoves
  <2>2. CASE coding = "VP9"
    BY <1>3, <2>1, <2>2, AsEntries DEF Consumes
  <2>3. CASE coding # "VP9"
    <3>1. generic' = generic /\ h264_routes' = h264_routes \ {r}
      BY <1>3, <2>3 DEF Consumes
    <3> QED
      BY <3>1, AsEntries
  <2> QED
    BY <2>2, <2>3
<1>4. ASSUME PutAltref, cur' \in Pictures
      PROVE  RoutesOf' = RoutesOf \cup {cur'}
  <2>1. \A e \in Pictures : Entries(Append(generic, e)) = Entries(generic) \cup {e}
    BY <1>1, QueueMoves
  <2>2. generic' = Append(generic, cur') /\ h264_routes' = h264_routes
    BY <1>4 DEF PutAltref
  <2>3. Entries(generic') = Entries(generic) \cup {cur'}
    BY <1>4, <2>1, <2>2
  <2> QED
    BY <2>2, <2>3, AsEntries
<1>5. ASSUME put_failed
      PROVE  /\ RoutesOf' \subseteq RoutesOf
             /\ \A r \in RoutesOf : r.tok = cur.tok \/ r \in RoutesOf'
  <2>1. /\ generic' = generic_route_remove(cur.tok)
        /\ h264_routes' = h264_routes \ {r \in h264_routes : r.tok = cur.tok}
    BY <1>5 DEF put_failed, route_token
  <2>2. /\ Entries(generic_route_remove(cur.tok)) \subseteq Entries(generic)
        /\ \A r \in Entries(generic) :
             r.tok = cur.tok \/ r \in Entries(generic_route_remove(cur.tok))
    BY Removed
  <2> QED
    BY <2>1, <2>2, AsEntries
<1> QED
  BY <1>2, <1>3, <1>4, <1>5

-----------------------------------------------------------------------------
(***************************************************************************)
(* Tokens: jobs are numbered in queue order, behind everything the worker  *)
(* already has.                                                            *)
(***************************************************************************)
Old(t) == t \in 1 .. next_token /\ \A k \in DOMAIN jobs : t < jobs[k].tok

Numbered ==
  /\ \A k \in DOMAIN jobs : jobs[k].tok \in 1 .. next_token
  /\ Rising(jobs)
  /\ \A r \in RoutesOf : Old(r.tok)
  /\ \A p \in mpp : Old(p.tok)
  /\ cur # NoPicture => Old(cur.tok)

(* The queue behind the job that is taken.                                 *)
LEMMA TakenIsOld ==
  ASSUME TypeOK, Numbered, jobs # <<>>, jobs' = Tail(jobs),
         next_token' = next_token
  PROVE  /\ \A k \in DOMAIN jobs' : jobs'[k].tok \in 1 .. next_token'
         /\ Rising(jobs')
         /\ \A t : Old(t) => Old(t)'
         /\ \A t : t = Head(jobs).tok => Old(t)'
<1>1. jobs \in Seq(Pictures)
  BY DEF TypeOK
<1>2. /\ Head(jobs) = jobs[1] /\ 1 \in DOMAIN jobs
      /\ \A k \in DOMAIN Tail(jobs) :
           k + 1 \in DOMAIN jobs /\ Tail(jobs)[k] = jobs[k + 1]
  BY <1>1, Oldest
<1>3. DOMAIN jobs \subseteq Nat \ {0} /\ DOMAIN Tail(jobs) \subseteq Nat \ {0}
  BY <1>1
<1>4. \A k \in DOMAIN jobs' : jobs'[k].tok \in 1 .. next_token'
  BY <1>2 DEF Numbered
<1>5. Rising(jobs')
  <2> SUFFICES ASSUME NEW k \in DOMAIN Tail(jobs), NEW l \in DOMAIN Tail(jobs),
                      k < l
               PROVE  Tail(jobs)[k].tok < Tail(jobs)[l].tok
    BY DEF Rising
  <2>1. k + 1 \in DOMAIN jobs /\ l + 1 \in DOMAIN jobs /\ k + 1 < l + 1
    BY <1>2, <1>3
  <2> QED
    BY <1>2, <2>1 DEF Numbered, Rising
<1>6. \A t : Old(t) => Old(t)'
  BY <1>2 DEF Old
<1>7. \A t : t = Head(jobs).tok => Old(t)'
  <2>1. jobs[1].tok \in 1 .. next_token
    BY <1>2 DEF Numbered
  <2>2. \A k \in DOMAIN Tail(jobs) : jobs[1].tok < Tail(jobs)[k].tok
    <3> SUFFICES ASSUME NEW k \in DOMAIN Tail(jobs)
                 PROVE  jobs[1].tok < Tail(jobs)[k].tok
      OBVIOUS
    <3>1. k + 1 \in DOMAIN jobs /\ 1 < k + 1
      BY <1>2, <1>3
    <3> QED
      BY <1>2, <3>1 DEF Numbered, Rising
  <2>3. /\ jobs[1].tok \in 1 .. next_token'
        /\ \A k \in DOMAIN jobs' : jobs[1].tok < jobs'[k].tok
    BY <2>1, <2>2
  <2> QED
    BY <1>2, <2>3 DEF Old
<1> QED
  BY <1>4, <1>5, <1>6, <1>7

(* The queue with a new job at its end.                                    *)
LEMMA QueuedIsNew ==
  ASSUME TypeOK, Numbered, NEW j \in built, rk_mpp_dec_enqueue_job(j)
  PROVE  /\ \A k \in DOMAIN jobs' : jobs'[k].tok \in 1 .. next_token'
         /\ Rising(jobs')
         /\ \A t : Old(t) => Old(t)'
<1> DEFINE new == [j EXCEPT !.tok = next_token + 1]
<1>1. /\ jobs \in Seq(Pictures) /\ new \in Pictures
      /\ new.tok = next_token + 1 /\ next_token \in Nat
  <2>1. jobs \in Seq(Pictures)
    BY DEF TypeOK
  <2>2. j \in Pictures /\ next_token \in Nat
    BY DEF TypeOK
  <2>3. new \in Pictures /\ new.tok = next_token + 1
    BY <2>2 DEF Pictures
  <2> QED
    BY <2>1, <2>2, <2>3
<1>2. jobs' = Append(jobs, new) /\ next_token' = next_token + 1
  BY DEF rk_mpp_dec_enqueue_job
<1> HIDE DEF new
<1>3. \A k \in DOMAIN jobs' :
        \/ k \in DOMAIN jobs /\ jobs'[k] = jobs[k]
        \/ k = Len(jobs) + 1 /\ jobs'[k] = new
  BY <1>1, <1>2, Newest
<1>4. DOMAIN jobs = 1 .. Len(jobs) /\ Len(jobs) \in Nat
  BY <1>1
<1>5. \A k \in DOMAIN jobs : jobs[k].tok \in 1 .. next_token
  BY DEF Numbered
<1>6. \A k \in DOMAIN jobs' : jobs'[k].tok \in 1 .. next_token'
  BY <1>1, <1>2, <1>3, <1>5
<1>7. Rising(jobs')
  <2> SUFFICES ASSUME NEW k \in DOMAIN jobs', NEW l \in DOMAIN jobs', k < l
               PROVE  jobs'[k].tok < jobs'[l].tok
    BY DEF Rising
  <2>1. k \in DOMAIN jobs /\ jobs'[k] = jobs[k]
    BY <1>3, <1>4
  <2>2. CASE l \in DOMAIN jobs /\ jobs'[l] = jobs[l]
    BY <2>1, <2>2 DEF Numbered, Rising
  <2>3. CASE jobs'[l] = new
    BY <1>1, <1>5, <2>1, <2>3
  <2> QED
    BY <1>3, <2>2, <2>3
<1>8. ASSUME NEW t, Old(t)
      PROVE  Old(t)'
  <2>1. t \in 1 .. next_token /\ \A k \in DOMAIN jobs : t < jobs[k].tok
    BY <1>8 DEF Old
  <2>2. t \in 1 .. next_token' /\ \A k \in DOMAIN jobs' : t < jobs'[k].tok
    BY <1>1, <1>2, <1>3, <2>1
  <2> QED
    BY <2>2 DEF Old
<1> QED
  BY <1>6, <1>7, <1>8

(* Every step keeps the numbering.                                         *)
LEMMA NumbersKept ==
  ASSUME Base, Numbered, [Next]_vars
  PROVE  Numbered'
<1>1. TypeOK
  BY DEF Base
<1>2. ASSUME jobs' = jobs, next_token' = next_token,
             \A r \in RoutesOf' : Old(r.tok), mpp' \subseteq mpp \/ Put,
             cur' # NoPicture => Old(cur'.tok), Put => cur # NoPicture
      PROVE  Numbered'
  <2>1. \A t : Old(t) => Old(t)'
    BY <1>2 DEF Old
  <2>2. \A p \in mpp' : Old(p.tok)
    BY <1>2 DEF Numbered, Put
  <2> QED
    BY <1>2, <2>1, <2>2 DEF Numbered
<1>3. ASSUME UNCHANGED <<jobs, next_token, cur>>, mpp' \subseteq mpp,
             RoutesOf' \subseteq RoutesOf, ~Put
      PROVE  Numbered'
  BY <1>2, <1>3 DEF Numbered
<1>4. ASSUME UNCHANGED <<jobs, next_token, cur, h264_routes, generic>>,
             mpp' \subseteq mpp
      PROVE  Numbered'
  <2>1. \A t : Old(t) => Old(t)'
    BY <1>4 DEF Old
  <2>2. RoutesOf' = RoutesOf
    BY <1>4 DEF RoutesOf
  <2> QED
    BY <1>4, <2>1, <2>2 DEF Numbered
<1>5. CASE Quiet
  BY <1>4, <1>5 DEF Quiet, submitVars, routeVars
<1>6. ASSUME NEW s \in Surfaces, NEW second \in BOOLEAN,
             rk_BeginPicture(s, second)
      PROVE  Numbered'
  BY <1>4, <1>6 DEF rk_BeginPicture, submitVars, routeVars, mppVars
<1>7. ASSUME NEW kind, end_build(kind)
      PROVE  Numbered'
  BY <1>4, <1>7 DEF end_build, submitVars, routeVars, mppVars
<1>8. CASE end_failed
  BY <1>4, <1>8 DEF end_failed, submitVars, routeVars, mppVars
<1>8f. ASSUME NEW j \in built, rk_mpp_dec_fail_surface(j)
       PROVE  Numbered'
  BY <1>4, <1>8f
     DEF rk_mpp_dec_fail_surface, submitVars, routeVars, mppVars
<1>9. ASSUME NEW j \in built, rk_mpp_dec_enqueue_job(j)
      PROVE  Numbered'
  <2>1. UNCHANGED <<cur, mpp, RoutesOf>>
    BY <1>9 DEF rk_mpp_dec_enqueue_job, submitVars, routeVars, mppVars,
         RoutesOf
  <2> QED
    BY <1>1, <1>9, <2>1, QueuedIsNew DEF Numbered
<1>10. CASE stop_joined
  <2>1. /\ jobs' = <<>> /\ RoutesOf' = {} /\ mpp' = {} /\ cur' = cur
        /\ next_token' = next_token
    BY <1>10 DEF stop_joined, submitVars, RoutesOf
  <2> QED
    BY <2>1 DEF Numbered, Old, Rising
<1>11. CASE take_job
  <2>1. /\ jobs # <<>> /\ jobs' = Tail(jobs) /\ Head(jobs) \in Pictures
        /\ next_token' = next_token /\ mpp' = mpp
    BY <1>1, <1>11, TakeCases DEF take_job, apiVars, mppVars
  <2>2. /\ \A k \in DOMAIN jobs' : jobs'[k].tok \in 1 .. next_token'
        /\ Rising(jobs')
        /\ \A t : Old(t) => Old(t)'
        /\ \A t : t = Head(jobs).tok => Old(t)'
    BY <1>1, <2>1, TakenIsOld
  <2>3. \A r \in RoutesOf : Old(r.tok)'
    BY <2>2 DEF Numbered
  <2>4. \A p \in mpp' : Old(p.tok)'
    BY <2>1, <2>2 DEF Numbered
  <2>5. ASSUME NEW r \in h264_routes, TakePaired(Head(jobs), r)
        PROVE  Numbered'
    <3>1. RoutesOf' = RoutesOf /\ cur'.tok = r.tok /\ r \in RoutesOf
      BY <2>1, <2>5 DEF TakePaired, RoutesOf, Pictures
    <3> QED
      BY <2>2, <2>3, <2>4, <3>1 DEF Numbered
  <2>6. CASE TakeRouted(Head(jobs))
    <3>1. RoutesOf' = RoutesOf \cup {Head(jobs)} /\ cur' = Head(jobs)
      BY <1>1, <2>1, <2>6, RouteMoves DEF TakeRouted
    <3> QED
      BY <2>2, <2>3, <2>4, <3>1 DEF Numbered
  <2>7. CASE TakeEmpty(Head(jobs))
    <3>1. RoutesOf' = RoutesOf /\ cur' = cur
      BY <2>7 DEF TakeEmpty, RoutesOf
    <3> QED
      BY <2>2, <2>3, <2>4, <3>1 DEF Numbered
  <2>8. CASE TakeHidden(Head(jobs))
    <3>1. RoutesOf' = RoutesOf /\ cur' = Head(jobs)
      BY <2>8 DEF TakeHidden, RoutesOf
    <3> QED
      BY <2>2, <2>3, <2>4, <3>1 DEF Numbered
  <2> QED
    BY <1>1, <1>11, <2>5, <2>6, <2>7, <2>8, TakeCases
<1>12. CASE put_accepted
  <2>1. cur \in Pictures /\ cur # NoPicture /\ Old(cur.tok)
    BY <1>12, AtWork, NoPictureFacts DEF put_accepted, Pushing, Numbered
  <2>2. jobs' = jobs /\ next_token' = next_token
    BY <1>12 DEF put_accepted, apiVars
  <2>3. CASE PutAltref
    <3>1. /\ cur' = [cur EXCEPT !.kind = "repeat"] /\ cur' \in Pictures
          /\ cur'.tok = cur.tok
      BY <2>1, <2>3 DEF PutAltref, Pictures
    <3>2. RoutesOf' = RoutesOf \cup {cur'} /\ mpp' = mpp
      BY <1>1, <2>3, <3>1, RouteMoves DEF PutAltref
    <3> QED
      BY <1>2, <2>1, <2>2, <3>1, <3>2 DEF Numbered
  <2>4. ASSUME cur' = NoPicture, mpp' = mpp \/ Put,
               RoutesOf' \subseteq RoutesOf \cup {cur}
        PROVE  Numbered'
    BY <1>2, <2>1, <2>2, <2>4 DEF Numbered
  <2>5. ASSUME cur' = NoPicture, generic' = generic,
               \/ PutOwn \/ PutPaired \/ PutReplaced \/ PutUnroutable
               \/ (PutUnref \/ PutShown) /\ h264_routes' = h264_routes
        PROVE  Numbered'
    <3>1. h264_routes' \in {h264_routes, h264_routes \cup {cur}}
      BY <2>5 DEF PutOwn, PutPaired, PutReplaced, PutUnroutable, PutUnref,
           PutShown
    <3>2. RoutesOf' \subseteq RoutesOf \cup {cur}
      BY <2>5, <3>1, AsEntries
    <3> QED
      BY <2>4, <2>5, <3>2 DEF PutOwn, PutPaired, PutReplaced, PutUnroutable,
           PutUnref, PutShown
  <2> QED
    BY <1>1, <1>12, <2>3, <2>5, PutCases
<1>13. CASE put_failed
  <2>1. cur' = NoPicture /\ UNCHANGED <<jobs, next_token, mpp>>
    BY <1>13 DEF put_failed, apiVars, mppVars
  <2>2. RoutesOf' \subseteq RoutesOf
    BY <1>1, <1>13, RouteMoves
  <2>3. cur # NoPicture
    BY <1>13, AtWork, NoPictureFacts DEF put_failed, Pushing
  <2> QED
    BY <1>2, <2>1, <2>2, <2>3 DEF Numbered
<1>14. ASSUME NEW frame \in Packets, Drains(frame)
       PROVE  Numbered'
  <2>1. UNCHANGED <<jobs, next_token, cur>> /\ mpp' \subseteq mpp
    BY <1>1, <1>14, DrainCases
  <2>2. RoutesOf' \subseteq RoutesOf
    <3>1. CASE UNCHANGED <<h264_routes, generic>>
      BY <3>1 DEF RoutesOf
    <3>2. ASSUME NEW r \in RoutesOf, Consumes(r, frame)
          PROVE  RoutesOf' \subseteq RoutesOf
      BY <1>1, <3>2, RouteMoves
    <3> QED
      BY <1>1, <1>14, <3>1, <3>2, DrainCases
  <2>3. \A t : Old(t) => Old(t)'
    BY <2>1 DEF Old
  <2> QED
    BY <2>1, <2>2, <2>3 DEF Numbered
<1>15. CASE assign_bind \/ assign_reject
  BY <1>4, <1>15, AssignCases
<1>16. CASE stall_timeout
  <2>1. UNCHANGED <<jobs, next_token, cur, mpp>> /\ RoutesOf' = {}
    BY <1>16 DEF stall_timeout, apiVars, submitVars, mppVars, RoutesOf
  <2>2. \A t : Old(t) => Old(t)'
    BY <2>1 DEF Old
  <2> QED
    BY <2>1, <2>2 DEF Numbered
<1>17. ASSUME NEW packet \in mpp, mpp_lose(packet)
       PROVE  Numbered'
  BY <1>4, <1>17 DEF mpp_lose, apiVars, submitVars, routeVars
<1> QED
  BY <1>1, <1>5, <1>6, <1>7, <1>8, <1>8f, <1>9, <1>10, <1>11, <1>12, <1>13,
     <1>14, <1>15, <1>16, <1>17, StepCases

-----------------------------------------------------------------------------
(***************************************************************************)
(* Routes and the job being pushed: a route with the job's token is for    *)
(* the job's fence, and a token route is not consumed before its packet is *)
(* in.                                                                     *)
(***************************************************************************)
Routed ==
  /\ coding # "VP9" => generic = <<>>
  /\ coding = "VP9" => h264_routes = {}
  /\ \A q, r \in h264_routes : q.tok = r.tok => q = r
  /\ cur # NoPicture =>
       \A r \in RoutesOf : r.tok = cur.tok => SameFence(r, cur)
  /\ own_route => \E r \in RoutesOf : r.tok = cur.tok
  /\ coding # "VP9" /\ cur # NoPicture => (own_route <=> new_route)
  /\ coding # "VP9" /\ own_route => \A p \in mpp : p.tok # cur.tok

(* The oldest job's token is on no route and no packet yet.                *)
LEMMA TakenIsNew ==
  ASSUME TypeOK, Numbered, jobs # <<>>
  PROVE  /\ \A r \in RoutesOf : r.tok < Head(jobs).tok
         /\ \A p \in mpp : p.tok < Head(jobs).tok
         /\ cur # NoPicture => cur.tok < Head(jobs).tok
         /\ Head(jobs).tok \in Nat
         /\ \A r \in RoutesOf : r.tok \in Nat
         /\ \A p \in mpp : p.tok \in Nat
<1>1. jobs \in Seq(Pictures)
  BY DEF TypeOK
<1>2. Head(jobs) = jobs[1] /\ 1 \in DOMAIN jobs /\ Head(jobs) \in Pictures
  BY <1>1, Oldest
<1>3. Head(jobs).tok \in Nat
  BY <1>2 DEF Pictures
<1> QED
  BY <1>2, <1>3 DEF Numbered, Old

(* Every step keeps the routes in order.                                   *)
LEMMA RoutesKept ==
  ASSUME Base, Numbered, Routed, [Next]_vars
  PROVE  Routed'
<1>1. TypeOK /\ coding' = coding
  BY StepCases DEF Base
<1>2. ASSUME UNCHANGED <<h264_routes, generic, cur, own_route, new_route>>,
             mpp' \subseteq mpp
      PROVE  Routed'
  <2>1. RoutesOf' = RoutesOf
    BY <1>2 DEF RoutesOf
  <2> QED
    BY <1>1, <1>2, <2>1 DEF Routed
<1>3. ASSUME h264_routes' = {}, generic' = <<>>, cur' = NoPicture,
             own_route' = FALSE
      PROVE  Routed'
  BY <1>3 DEF Routed
<1>4. pc \notin {"put", "assign"} => cur = NoPicture /\ own_route = FALSE
  BY DEF Base, Phased, Pushing, TypeOK
<1>5. CASE Quiet
  BY <1>2, <1>5 DEF Quiet, submitVars, routeVars
<1>6. ASSUME NEW s \in Surfaces, NEW second \in BOOLEAN,
             rk_BeginPicture(s, second)
      PROVE  Routed'
  BY <1>2, <1>6 DEF rk_BeginPicture, submitVars, routeVars, mppVars
<1>7. ASSUME NEW kind, end_build(kind)
      PROVE  Routed'
  BY <1>2, <1>7 DEF end_build, submitVars, routeVars, mppVars
<1>8. CASE end_failed
  BY <1>2, <1>8 DEF end_failed, submitVars, routeVars, mppVars
<1>8f. ASSUME NEW j \in built, rk_mpp_dec_fail_surface(j)
       PROVE  Routed'
  BY <1>2, <1>8f
     DEF rk_mpp_dec_fail_surface, submitVars, routeVars, mppVars
<1>9. ASSUME NEW j \in built, rk_mpp_dec_enqueue_job(j)
      PROVE  Routed'
  BY <1>2, <1>9 DEF rk_mpp_dec_enqueue_job, submitVars, routeVars, mppVars
<1>10. CASE stop_joined
  BY <1>3, <1>4, <1>10 DEF stop_joined, submitVars
<1>11. CASE take_job
  <2>1. /\ jobs # <<>> /\ Head(jobs) \in Pictures /\ pc = "loop"
        /\ mpp' = mpp /\ cur = NoPicture /\ own_route = FALSE
    BY <1>1, <1>4, <1>11, TakeCases DEF take_job, mppVars
  <2>2. /\ \A r \in RoutesOf : r.tok # Head(jobs).tok
        /\ \A p \in mpp : p.tok # Head(jobs).tok
    BY <1>1, <2>1, TakenIsNew
  <2>3. ASSUME NEW r \in h264_routes, TakePaired(Head(jobs), r)
        PROVE  Routed'
    <3>1. /\ coding # "VP9" /\ RoutesOf' = RoutesOf
          /\ own_route' = FALSE /\ new_route' = FALSE
          /\ UNCHANGED <<h264_routes, generic>>
          /\ cur'.tok = r.tok /\ SameFence(r, cur')
      BY <2>1, <2>3 DEF TakePaired, RoutesOf, Pictures, SameFence
    <3>2. \A q \in RoutesOf : q.tok = r.tok => q = r
      BY <3>1 DEF Routed, RoutesOf
    <3> QED
      BY <1>1, <3>1, <3>2 DEF Routed
  <2>4. CASE TakeRouted(Head(jobs))
    <3>1. /\ RoutesOf' = RoutesOf \cup {Head(jobs)} /\ cur' = Head(jobs)
          /\ own_route' = TRUE /\ new_route' = TRUE
      BY <1>1, <2>1, <2>4, RouteMoves DEF TakeRouted
    <3>2. /\ coding # "VP9" => generic' = <<>>
          /\ coding = "VP9" => h264_routes' = {}
          /\ h264_routes' \subseteq h264_routes \cup {Head(jobs)}
      BY <2>4 DEF TakeRouted, Routed
    <3>3. \A q, r \in h264_routes' : q.tok = r.tok => q = r
      BY <2>2, <3>2 DEF Routed, RoutesOf
    <3>4. \A r \in RoutesOf' : r.tok = cur'.tok => SameFence(r, cur')
      BY <2>2, <3>1 DEF SameFence
    <3> QED
      BY <1>1, <2>1, <2>2, <3>1, <3>2, <3>3, <3>4 DEF Routed
  <2>5. CASE TakeEmpty(Head(jobs))
    BY <1>2, <2>1, <2>5 DEF TakeEmpty
  <2>6. CASE TakeHidden(Head(jobs))
    <3>1. /\ RoutesOf' = RoutesOf /\ cur' = Head(jobs) /\ coding = "VP9"
          /\ own_route' = FALSE /\ UNCHANGED <<h264_routes, generic>>
      BY <2>6 DEF TakeHidden, RoutesOf
    <3> QED
      BY <1>1, <2>1, <2>2, <3>1 DEF Routed
  <2> QED
    BY <1>1, <1>11, <2>3, <2>4, <2>5, <2>6, TakeCases
<1>12. CASE put_accepted
  <2>1. cur \in Pictures /\ cur # NoPicture
    BY <1>12, AtWork, NoPictureFacts DEF put_accepted, Pushing
  <2>2. CASE PutAltref
    <3>1. /\ cur' \in Pictures /\ cur'.tok = cur.tok /\ coding = "VP9"
          /\ SameFence(cur, cur') /\ h264_routes' = h264_routes
      BY <2>1, <2>2 DEF PutAltref, Pictures, SameFence
    <3>2. RoutesOf' = RoutesOf \cup {cur'}
      BY <1>1, <2>2, <3>1, RouteMoves
    <3>3. \A r \in RoutesOf' : r.tok = cur'.tok => SameFence(r, cur')
      BY <2>1, <3>1, <3>2 DEF Routed, SameFence
    <3> QED
      BY <1>1, <2>1, <3>1, <3>2, <3>3 DEF Routed
  <2>3. ASSUME cur' = NoPicture, own_route' = FALSE, generic' = generic,
               \/ PutOwn \/ PutPaired \/ PutReplaced \/ PutUnroutable
               \/ (PutUnref \/ PutShown) /\ h264_routes' = h264_routes
        PROVE  Routed'
    <3>1. CASE h264_routes' = h264_routes
      BY <1>1, <2>3, <3>1 DEF Routed
    <3>2. CASE PutReplaced
      <4>1. /\ coding # "VP9" /\ h264_routes' = h264_routes \cup {cur}
            /\ \A r \in h264_routes : ~SameFence(r, cur)
        BY <3>2 DEF PutReplaced, RoutesFor, SameFence
      <4>2. \A r \in h264_routes : r.tok # cur.tok
        BY <2>1, <4>1 DEF Routed, RoutesOf
      <4> QED
        BY <1>1, <2>3, <4>1, <4>2 DEF Routed
    <3> QED
      BY <2>3, <3>1, <3>2 DEF PutOwn, PutPaired, PutUnroutable
  <2> QED
    BY <1>1, <1>12, <2>2, <2>3, PutCases
<1>13. CASE put_failed
  <2>1. /\ cur' = NoPicture /\ own_route' = FALSE
        /\ h264_routes' \subseteq h264_routes
    BY <1>13 DEF put_failed
  <2>2. coding # "VP9" => generic' = <<>>
    <3> SUFFICES ASSUME coding # "VP9" PROVE generic' = <<>>
      OBVIOUS
    <3>1. generic = <<>>
      BY DEF Routed
    <3>2. \A r \in Entries(generic) : r.tok # cur.tok
      BY <3>1 DEF Entries
    <3> QED
      BY <1>1, <1>13, <3>1, <3>2, Removed DEF put_failed
  <2> QED
    BY <1>1, <2>1, <2>2 DEF Routed
<1>14. ASSUME NEW frame \in Packets, Drains(frame)
       PROVE  Routed'
  <2>1. UNCHANGED <<cur, new_route>> /\ mpp' \subseteq mpp
    BY <1>1, <1>14, DrainCases
  <2>2. CASE UNCHANGED <<h264_routes, generic, own_route>>
    BY <1>2, <2>1, <2>2
  <2>3. ASSUME NEW r \in RoutesOf, Consumes(r, frame)
        PROVE  Routed'
    <3>1. /\ RoutesOf' \subseteq RoutesOf
          /\ RoutesOf \subseteq RoutesOf' \cup {r}
      BY <1>1, <2>3, RouteMoves
    <3>2. /\ own_route' <=> own_route /\ r.tok # cur.tok
          /\ h264_routes' \subseteq h264_routes
          /\ coding # "VP9" => generic' = generic /\ r.tok = frame.tok
      BY <2>3 DEF Consumes
    <3>3. coding # "VP9" /\ own_route => r.tok # cur.tok
      <4>1. own_route => ~mpp_eos
        BY DEF Base, Phased
      <4> QED
        BY <1>14, <3>2, <4>1 DEF Drains, Routed
    <3>4. /\ coding # "VP9" /\ cur # NoPicture => (own_route' <=> new_route)
          /\ coding # "VP9" /\ own_route' => \A p \in mpp : p.tok # cur.tok
      BY <3>2, <3>3 DEF Routed
    <3>5. own_route' => \E q \in RoutesOf' : q.tok = cur.tok
      BY <3>1, <3>2 DEF Routed
    <3>6. /\ coding # "VP9" => generic' = <<>>
          /\ coding = "VP9" => h264_routes' = {}
      BY <3>2 DEF Routed
    <3> QED
      BY <1>1, <2>1, <3>1, <3>2, <3>4, <3>5, <3>6 DEF Routed
  <2> QED
    BY <1>1, <1>14, <2>2, <2>3, DrainCases
<1>15. CASE assign_bind \/ assign_reject
  BY <1>2, <1>15, AssignCases
<1>16. CASE stall_timeout
  BY <1>3, <1>4, <1>16 DEF stall_timeout, OutputTimesOut, submitVars
<1>17. ASSUME NEW packet \in mpp, mpp_lose(packet)
       PROVE  Routed'
  BY <1>2, <1>17 DEF mpp_lose, submitVars, routeVars
<1> QED
  BY <1>1, <1>5, <1>6, <1>7, <1>8, <1>8f, <1>9, <1>10, <1>11, <1>12, <1>13,
     <1>14, <1>15, <1>16, <1>17, StepCases

-----------------------------------------------------------------------------
(***************************************************************************)
(* No fence is lost.                                                       *)
(***************************************************************************)

(* The pictures of a VP9 context, and the one being pushed.                *)
Kinded ==
  coding = "VP9" =>
    /\ \A j \in built :
         j.kind \in {"frame", "altref", "unref", "empty", "abandoned"}
    /\ \A j \in JobsOf : j.kind \in {"frame", "altref", "unref", "empty"}
    /\ cur # NoPicture => cur.kind \in {"frame", "repeat", "altref", "unref"}

(* A shown VP9 picture still has its route when its packet is accepted, or *)
(* the fence does not need it: a late frame that took the route before the *)
(* packet was in has settled the fence, is about to, or found it reused.   *)
Forgettable ==
  coding = "VP9" /\ cur # NoPicture /\ cur.kind \in {"frame", "repeat"} =>
    \/ own_route
    \/ Settled(cur.surf)
    \/ fence[cur.surf] # cur.fence
    \/ pc = "assign" /\ SameFence(asg.route, cur)

(* What carries a picture names a fence that has been given out.           *)
Behind ==
  \A j \in Carriers : j # NoPicture => j.fence <= fence[j.surf]

(* The same picture's fence, whatever its kind and token.                  *)
Kin(i, j) == SameFence(i, j) /\ i.pic = j.pic

Known(j) == j = NoPicture \/ \E i \in Carriers : i # NoPicture /\ Kin(i, j)

(* Whatever carries a picture comes from something that carried it, or is  *)
(* the one BeginPicture installs.                                          *)
LEMMA Lineage ==
  ASSUME Base, [Next]_vars
  PROVE  \/ /\ fence' = fence
            /\ \A j \in Carriers' : Known(j)
         \/ \E s \in Surfaces, second \in BOOLEAN :
              /\ rk_BeginPicture(s, second)
              /\ \A j \in Carriers' : Known(j) \/ j = render'
<1>1. TypeOK
  BY DEF Base
<1>2. \A j \in Carriers : Known(j)
  BY DEF Known, Kin, SameFence
<1>3. /\ \A j : j \in Carriers' <=>
           \/ j \in built' \/ j \in JobsOf' \/ j \in RoutesOf'
           \/ j = cur' \/ j = asg'.route \/ j = render'
      /\ \A j : j \in Carriers <=>
           \/ j \in built \/ j \in JobsOf \/ j \in RoutesOf
           \/ j = cur \/ j = asg.route \/ j = render
  BY DEF Carriers
<1>4. ASSUME NEW i, NEW j, i \in Carriers, i \in Pictures, Kin(i, j)
      PROVE  Known(j)
  BY <1>4, NoPictureFacts DEF Known
<1>5. Known(NoPicture)
  BY DEF Known
<1> DEFINE Held == fence' = fence /\ \A j \in Carriers' : Known(j)
<1>6a. ASSUME render # NoPicture
       PROVE  \A j \in Abandoned : Known(j)
  <2>1. PICK old \in Pictures :
          /\ Abandoned = {old} /\ old.surf = render.surf
          /\ old.fence = render.fence /\ old.pic = render.pic
    BY <1>1, <1>6a, AbandonedFacts
  <2>2. render \in Pictures
    BY <1>1, <1>6a, AbandonedFacts
  <2>3. Kin(render, old)
    BY <2>1 DEF Kin, SameFence
  <2> QED
    BY <1>3, <1>4, <2>1, <2>2, <2>3
<1>6. CASE Quiet
  <2>1. Carriers' = Carriers /\ fence' = fence
    BY <1>6 DEF Quiet, surfVars, submitVars, routeVars, Carriers, JobsOf,
         RoutesOf
  <2> QED
    BY <1>2, <2>1
<1>7. ASSUME NEW s \in Surfaces, NEW second \in BOOLEAN,
             rk_BeginPicture(s, second)
      PROVE  \A j \in Carriers' : Known(j) \/ j = render'
  <2>1. /\ UNCHANGED <<JobsOf, RoutesOf, cur, asg>>
        /\ built' = IF render = NoPicture THEN built ELSE built \cup Abandoned
    BY <1>7 DEF rk_BeginPicture, submitVars, routeVars, frameVars, JobsOf,
         RoutesOf
  <2>2. render # NoPicture => \A j \in Abandoned : Known(j)
    BY <1>6a
  <2> QED
    BY <1>2, <1>3, <2>1, <2>2
<1>8. ASSUME NEW kind, end_build(kind)
      PROVE  Held
  <2>1. /\ UNCHANGED <<fence, JobsOf, RoutesOf, cur, asg>>
        /\ built' = built \cup {[render EXCEPT !.kind = kind]}
        /\ render' = NoPicture /\ render \in Pictures
    BY <1>1, <1>8 DEF end_build, submitVars, routeVars, frameVars, JobsOf,
         RoutesOf, TypeOK
  <2>2. Kin(render, [render EXCEPT !.kind = kind])
    BY <2>1 DEF Kin, SameFence, Pictures
  <2>3. Known([render EXCEPT !.kind = kind])
    BY <1>3, <1>4, <2>1, <2>2
  <2> QED
    BY <1>2, <1>3, <1>5, <2>1, <2>3
<1>9. CASE end_failed
  <2>1. /\ UNCHANGED <<fence, JobsOf, RoutesOf, cur, asg>>
        /\ render # NoPicture /\ render' = NoPicture
        /\ built' = built \cup Abandoned
    BY <1>9 DEF end_failed, surfVars, submitVars, routeVars, frameVars,
         JobsOf, RoutesOf
  <2> QED
    BY <1>2, <1>3, <1>5, <1>6a, <2>1
<1>9f. ASSUME NEW j \in built, rk_mpp_dec_fail_surface(j)
       PROVE  Held
  <2>1. /\ UNCHANGED <<fence, JobsOf, RoutesOf, cur, asg, render>>
        /\ built' \subseteq built
    BY <1>9f DEF rk_mpp_dec_fail_surface, submitVars, routeVars, frameVars,
         JobsOf, RoutesOf
  <2> QED
    BY <1>2, <1>3, <2>1
<1>10. ASSUME NEW j \in built, rk_mpp_dec_enqueue_job(j)
       PROVE  Held
  <2> DEFINE new == [j EXCEPT !.tok = next_token + 1]
  <2>1. /\ UNCHANGED <<fence, RoutesOf, cur, asg, render>>
        /\ built' = built \ {j} /\ jobs' = Append(jobs, new)
    BY <1>10 DEF rk_mpp_dec_enqueue_job, surfVars, submitVars, routeVars,
         frameVars, RoutesOf
  <2>2. j \in Pictures /\ next_token \in Nat
    BY <1>1 DEF TypeOK
  <2>3. new \in Pictures /\ Kin(j, new)
    BY <2>2 DEF Kin, SameFence, Pictures
  <2> HIDE DEF new
  <2>4. JobsOf' = JobsOf \cup {new}
    <3>1. jobs \in Seq(Pictures)
      BY <1>1 DEF TypeOK
    <3>2. Entries(Append(jobs, new)) = Entries(jobs) \cup {new}
      BY <2>3, <3>1, QueueMoves
    <3> QED
      BY <2>1, <3>2, AsEntries
  <2>5. Known(new)
    BY <1>3, <1>4, <2>2, <2>3
  <2> QED
    BY <1>2, <1>3, <2>1, <2>4, <2>5
<1>11. CASE stop_joined
  <2>1. UNCHANGED <<fence, built, cur, asg>> /\ render' = NoPicture
        /\ JobsOf' = {} /\ RoutesOf' = {}
    BY <1>11 DEF stop_joined, submitVars, frameVars, JobsOf, RoutesOf
  <2> QED
    BY <1>2, <1>3, <1>5, <2>1
<1>12. CASE take_job
  <2>1. /\ jobs # <<>> /\ Head(jobs) \in Pictures /\ jobs' = Tail(jobs)
        /\ UNCHANGED <<fence, built, asg, render>>
    BY <1>1, <1>12, TakeCases DEF take_job, apiVars
  <2>2. JobsOf = JobsOf' \cup {Head(jobs)}
    <3>1. jobs \in Seq(Pictures)
      BY <1>1 DEF TypeOK
    <3>2. Entries(jobs) = Entries(Tail(jobs)) \cup {Head(jobs)}
      BY <2>1, <3>1, QueueMoves
    <3> QED
      BY <2>1, <3>2, AsEntries
  <2>3. Known(Head(jobs)) /\ Head(jobs) \in Carriers
    BY <1>2, <1>3, <2>2
  <2>4. ASSUME RoutesOf' \subseteq RoutesOf \cup {Head(jobs)},
               cur' = cur \/ cur' = Head(jobs) \/ Kin(Head(jobs), cur')
        PROVE  Held
    <3>1. Known(cur')
      BY <1>2, <1>3, <1>4, <2>1, <2>3, <2>4
    <3> QED
      BY <1>2, <1>3, <2>1, <2>2, <2>3, <2>4, <3>1
  <2>5. ASSUME NEW r \in h264_routes, TakePaired(Head(jobs), r)
        PROVE  Held
    <3>1. RoutesOf' = RoutesOf /\ Kin(Head(jobs), cur')
      BY <2>1, <2>5 DEF TakePaired, RoutesOf, Kin, SameFence, Pictures
    <3> QED
      BY <2>4, <3>1
  <2>6. CASE TakeRouted(Head(jobs))
    <3>1. RoutesOf' = RoutesOf \cup {Head(jobs)} /\ cur' = Head(jobs)
      BY <1>1, <2>1, <2>6, RouteMoves DEF TakeRouted
    <3> QED
      BY <2>4, <3>1
  <2>7. CASE TakeEmpty(Head(jobs)) \/ TakeHidden(Head(jobs))
    <3>1. RoutesOf' = RoutesOf /\ (cur' = cur \/ cur' = Head(jobs))
      BY <2>7 DEF TakeEmpty, TakeHidden, RoutesOf
    <3> QED
      BY <2>4, <3>1
  <2> QED
    BY <1>1, <1>12, <2>5, <2>6, <2>7, TakeCases
<1>13. CASE put_accepted
  <2>1. UNCHANGED <<fence, built, JobsOf, asg, render>>
    BY <1>13 DEF put_accepted, apiVars, frameVars, JobsOf
  <2>2. cur \in Pictures /\ cur \in Carriers /\ Known(cur)
    BY <1>2, <1>3, <1>13, AtWork DEF put_accepted, Pushing
  <2>3. CASE PutAltref
    <3>1. /\ cur' \in Pictures /\ Kin(cur, cur')
      BY <2>2, <2>3 DEF PutAltref, Pictures, Kin, SameFence
    <3>2. RoutesOf' = RoutesOf \cup {cur'}
      BY <1>1, <2>3, <3>1, RouteMoves
    <3>3. Known(cur')
      BY <1>4, <2>2, <3>1
    <3> QED
      BY <1>2, <1>3, <2>1, <3>2, <3>3
  <2>4. ASSUME cur' = NoPicture, generic' = generic,
               h264_routes' \in {h264_routes, h264_routes \cup {cur}}
        PROVE  Held
    <3>1. RoutesOf' \subseteq RoutesOf \cup {cur}
      BY <2>4, AsEntries
    <3> QED
      BY <1>2, <1>3, <1>5, <2>1, <2>2, <2>4, <3>1
  <2> QED
    BY <1>1, <1>13, <2>3, <2>4, PutCases DEF PutOwn, PutPaired, PutReplaced,
         PutUnroutable
<1>14. CASE put_failed
  <2>1. UNCHANGED <<fence, built, JobsOf, asg, render>> /\ cur' = NoPicture
    BY <1>14 DEF put_failed, apiVars, frameVars, JobsOf
  <2>2. RoutesOf' \subseteq RoutesOf
    BY <1>1, <1>14, RouteMoves
  <2> QED
    BY <1>2, <1>3, <1>5, <2>1, <2>2
<1>15. ASSUME NEW frame \in Packets, Drains(frame)
       PROVE  Held
  <2>1. UNCHANGED <<fence, built, JobsOf, cur, render>>
    BY <1>1, <1>15, DrainCases DEF JobsOf
  <2>2. CASE UNCHANGED <<h264_routes, generic, asg>>
    BY <1>2, <1>3, <2>1, <2>2 DEF RoutesOf
  <2>3. ASSUME NEW r \in RoutesOf, Consumes(r, frame)
        PROVE  Held
    <3>1. RoutesOf' \subseteq RoutesOf
      BY <1>1, <2>3, RouteMoves
    <3>2. asg' = asg \/ asg'.route = r
      BY <2>3 DEF Consumes, Dropped, Assigning
    <3> QED
      BY <1>2, <1>3, <2>1, <3>1, <3>2
  <2> QED
    BY <1>1, <1>15, <2>2, <2>3, DrainCases
<1>16. CASE assign_bind \/ assign_reject
  <2>1. /\ UNCHANGED <<fence, built, JobsOf, RoutesOf, cur, render>>
        /\ asg'.route = NoPicture
    BY <1>16, AssignCases, NoPictureFacts DEF JobsOf, RoutesOf
  <2> QED
    BY <1>2, <1>3, <1>5, <2>1
<1>17. CASE stall_timeout
  <2>1. UNCHANGED <<fence, built, JobsOf, cur, asg, render>> /\ RoutesOf' = {}
    BY <1>17 DEF stall_timeout, apiVars, submitVars, JobsOf, RoutesOf
  <2> QED
    BY <1>2, <1>3, <2>1
<1>18. ASSUME NEW packet \in mpp, mpp_lose(packet)
       PROVE  Held
  <2>1. UNCHANGED <<fence, built, JobsOf, RoutesOf, cur, asg, render>>
    BY <1>18 DEF mpp_lose, surfVars, apiVars, submitVars, routeVars,
         frameVars, JobsOf, RoutesOf
  <2> QED
    BY <1>2, <1>3, <2>1
<1> QED
  BY <1>1, <1>6, <1>7, <1>8, <1>9, <1>9f, <1>10, <1>11, <1>12, <1>13, <1>14,
     <1>15, <1>16, <1>17, <1>18, StepCases

(* BeginPicture moves one surface's fence, forward.                        *)
LEMMA BeginFence ==
  ASSUME TypeOK, NEW s \in Surfaces, NEW second \in BOOLEAN,
         rk_BeginPicture(s, second)
  PROVE  /\ fence' \in [Surfaces -> Nat]
         /\ \A t \in Surfaces : t # s => fence'[t] = fence[t]
         /\ fence'[s] = fence[s] + 1
            \/ (fence'[s] = fence[s] /\ Continuation(s))
         /\ ~Continuation(s) => fence'[s] = fence[s] + 1
         /\ render' \in Pictures /\ render'.surf = s
         /\ render'.fence = fence'[s]
<1>1. /\ fence' = [fence EXCEPT ![s] = IF Continuation(s) THEN @ ELSE @ + 1]
      /\ fence \in [Surfaces -> Nat]
      /\ render'.surf = s /\ render'.fence = fence'[s]
  BY DEF rk_BeginPicture, TypeOK
<1>2. render' \in Pictures
  BY BeginTypes
<1> QED
  BY <1>1, <1>2

(* No step hands out a fence ahead of its surface.                         *)
LEMMA BehindKept ==
  ASSUME Base, Behind, [Next]_vars
  PROVE  Behind'
<1>1. TypeOK /\ Carriers \subseteq Pictures \cup {NoPicture}
  BY CarrierTypes DEF Base
<1>2. ASSUME NEW j, Known(j), j # NoPicture
      PROVE  /\ j.surf \in Surfaces /\ j.fence <= fence[j.surf]
             /\ j.fence \in Nat
  <2>1. PICK i \in Carriers : i # NoPicture /\ Kin(i, j)
    BY <1>2 DEF Known
  <2>2. i \in Pictures /\ i.fence <= fence[i.surf]
    BY <1>1, <2>1 DEF Behind
  <2> QED
    BY <2>1, <2>2 DEF Kin, SameFence, Pictures
<1>3. CASE fence' = fence /\ \A j \in Carriers' : Known(j)
  BY <1>2, <1>3 DEF Behind
<1>4. ASSUME NEW s \in Surfaces, NEW second \in BOOLEAN,
             rk_BeginPicture(s, second),
             \A j \in Carriers' : Known(j) \/ j = render'
      PROVE  Behind'
  <2>1. /\ fence \in [Surfaces -> Nat] /\ fence' \in [Surfaces -> Nat]
        /\ \A t \in Surfaces : fence[t] <= fence'[t]
        /\ render'.surf = s /\ render'.fence = fence'[s]
    <3>1. fence \in [Surfaces -> Nat]
      BY <1>1 DEF TypeOK
    <3>2. /\ fence' \in [Surfaces -> Nat]
          /\ \A t \in Surfaces : t # s => fence'[t] = fence[t]
          /\ fence'[s] = fence[s] + 1 \/ fence'[s] = fence[s]
          /\ render'.surf = s /\ render'.fence = fence'[s]
      BY <1>1, <1>4, BeginFence
    <3> QED
      BY <3>1, <3>2
  <2>2. ASSUME NEW j \in Carriers', j # NoPicture
        PROVE  j.fence <= fence'[j.surf]
    <3>1. CASE Known(j)
      <4>1. /\ j.surf \in Surfaces /\ j.fence <= fence[j.surf]
            /\ j.fence \in Nat
        BY <1>2, <2>2, <3>1
      <4>2. fence[j.surf] \in Nat /\ fence'[j.surf] \in Nat
            /\ fence[j.surf] <= fence'[j.surf]
        BY <2>1, <4>1
      <4> QED
        BY <4>1, <4>2
    <3>2. CASE j = render'
      BY <2>1, <3>2
    <3> QED
      BY <1>4, <3>1, <3>2
  <2> QED
    BY <2>2 DEF Behind
<1> QED
  BY <1>3, <1>4, Lineage

(* Every step keeps the kinds of pictures a VP9 context has.               *)
LEMMA KindsKept ==
  ASSUME Base, Kinded, [Next]_vars
  PROVE  Kinded'
<1> SUFFICES ASSUME coding = "VP9"
             PROVE  Kinded'
  BY StepCases DEF Base, Kinded
<1>1. TypeOK /\ coding' = coding
  BY StepCases DEF Base
<1>2. /\ \A j \in built :
           j.kind \in {"frame", "altref", "unref", "empty", "abandoned"}
      /\ \A j \in JobsOf : j.kind \in {"frame", "altref", "unref", "empty"}
      /\ cur # NoPicture => cur.kind \in {"frame", "repeat", "altref", "unref"}
  BY DEF Kinded
<1>3. ASSUME built' \subseteq built, JobsOf' \subseteq JobsOf, cur' = cur
      PROVE  Kinded'
  BY <1>2, <1>3 DEF Kinded
<1>4. CASE Quiet
  BY <1>3, <1>4 DEF Quiet, submitVars, JobsOf
<1>5. ASSUME NEW s \in Surfaces, NEW second \in BOOLEAN,
             rk_BeginPicture(s, second)
      PROVE  Kinded'
  <2>1. /\ built' = IF render = NoPicture THEN built ELSE built \cup Abandoned
        /\ JobsOf' = JobsOf /\ cur' = cur
    BY <1>5 DEF rk_BeginPicture, submitVars, JobsOf
  <2>2. render # NoPicture => \A j \in Abandoned : j.kind = "abandoned"
    BY <1>1, AbandonedFacts
  <2> QED
    BY <1>2, <2>1, <2>2 DEF Kinded
<1>6. ASSUME NEW kind \in Kinds \cap KindsOf(coding), end_build(kind)
      PROVE  Kinded'
  <2>1. /\ built' = built \cup {[render EXCEPT !.kind = kind]}
        /\ JobsOf' = JobsOf /\ cur' = cur /\ render \in Pictures
    BY <1>1, <1>6 DEF end_build, submitVars, JobsOf, TypeOK
  <2>2. [render EXCEPT !.kind = kind].kind
          \in {"frame", "altref", "unref", "empty"}
    BY <1>1, <2>1, CodecFacts DEF Pictures
  <2> QED
    BY <1>2, <2>1, <2>2 DEF Kinded
<1>7. CASE end_failed
  <2>1. /\ built' = built \cup Abandoned /\ render # NoPicture
        /\ JobsOf' = JobsOf /\ cur' = cur
    BY <1>7 DEF end_failed, submitVars, JobsOf
  <2>2. \A j \in Abandoned : j.kind = "abandoned"
    BY <1>1, <2>1, AbandonedFacts
  <2> QED
    BY <1>2, <2>1, <2>2 DEF Kinded
<1>7f. ASSUME NEW j \in built, rk_mpp_dec_fail_surface(j)
       PROVE  Kinded'
  BY <1>3, <1>7f DEF rk_mpp_dec_fail_surface, submitVars, JobsOf
<1>8. ASSUME NEW j \in built, rk_mpp_dec_enqueue_job(j)
      PROVE  Kinded'
  <2> DEFINE new == [j EXCEPT !.tok = next_token + 1]
  <2>1. /\ built' = built \ {j} /\ jobs' = Append(jobs, new) /\ cur' = cur
        /\ j.kind # "abandoned"
    BY <1>8 DEF rk_mpp_dec_enqueue_job, submitVars
  <2>2. j \in Pictures /\ next_token \in Nat
    BY <1>1 DEF TypeOK
  <2>3. new \in Pictures /\ new.kind = j.kind
    BY <2>2 DEF Pictures
  <2> HIDE DEF new
  <2>4. JobsOf' = JobsOf \cup {new}
    <3>1. jobs \in Seq(Pictures)
      BY <1>1 DEF TypeOK
    <3>2. Entries(Append(jobs, new)) = Entries(jobs) \cup {new}
      BY <2>3, <3>1, QueueMoves
    <3> QED
      BY <2>1, <3>2, AsEntries
  <2> QED
    BY <1>2, <2>1, <2>3, <2>4 DEF Kinded
<1>9. CASE stop_joined
  BY <1>3, <1>9 DEF stop_joined, submitVars, JobsOf
<1>10. CASE take_job
  <2>1. jobs # <<>> /\ jobs' = Tail(jobs) /\ built' = built
    BY <1>10 DEF take_job, apiVars
  <2>2. JobsOf = JobsOf' \cup {Head(jobs)}
    <3>1. jobs \in Seq(Pictures)
      BY <1>1 DEF TypeOK
    <3>2. Entries(jobs) = Entries(Tail(jobs)) \cup {Head(jobs)}
      BY <2>1, <3>1, QueueMoves
    <3> QED
      BY <2>1, <3>2, AsEntries
  <2>3. cur' = cur
        \/ (cur' = Head(jobs) /\ Head(jobs).kind # "empty")
    BY <1>1, <1>10, TakeCases DEF TakePaired, TakeRouted, TakeEmpty, TakeHidden
  <2> QED
    BY <1>2, <2>1, <2>2, <2>3 DEF Kinded
<1>11. CASE put_accepted
  <2>1. built' = built /\ JobsOf' = JobsOf
    BY <1>11 DEF put_accepted, apiVars, JobsOf
  <2>2. cur \in Pictures
    BY <1>11, AtWork DEF put_accepted, Pushing
  <2>3. cur' = NoPicture \/ cur'.kind = "repeat"
    BY <1>1, <1>11, <2>2, PutCases DEF PutAltref, Pictures
  <2> QED
    BY <1>2, <2>1, <2>3 DEF Kinded
<1>12. CASE put_failed
  BY <1>2, <1>12 DEF put_failed, apiVars, JobsOf, Kinded
<1>13. ASSUME NEW frame \in Packets, Drains(frame)
       PROVE  Kinded'
  BY <1>1, <1>3, <1>13, DrainCases DEF JobsOf
<1>14. CASE assign_bind \/ assign_reject
  BY <1>3, <1>14, AssignCases DEF JobsOf
<1>15. CASE stall_timeout
  BY <1>3, <1>15 DEF stall_timeout, apiVars, submitVars, JobsOf
<1>16. ASSUME NEW packet \in mpp, mpp_lose(packet)
       PROVE  Kinded'
  BY <1>3, <1>16 DEF mpp_lose, apiVars, submitVars, JobsOf
<1> QED
  BY <1>1, <1>4, <1>5, <1>6, <1>7, <1>7f, <1>8, <1>9, <1>10, <1>11, <1>12,
     <1>13, <1>14, <1>15, <1>16, StepCases

(* complete_surface_ref gives a verdict and takes none back.               *)
LEMMA CompleteSettles ==
  ASSUME TypeOK, NEW s \in Surfaces, NEW f, NEW ok \in BOOLEAN,
         Complete(s, f, ok)
  PROVE  /\ \A t \in Surfaces : Settled(t) => SettledNext(t)
         /\ fence[s] = f => SettledNext(s)
<1>1. /\ fence[s] = f => (decoded'[s] <=> ok) /\ (decode_failed'[s] <=> ~ok)
      /\ \A t \in Surfaces : t # s \/ fence[s] # f =>
           decoded'[t] = decoded[t] /\ decode_failed'[t] = decode_failed[t]
  BY CompleteFacts
<1> QED
  BY <1>1 DEF Settled, SettledNext

(* rk_mpp_dec_fail_surface gives a verdict and takes none back.            *)
LEMMA FailSettles ==
  ASSUME TypeOK, NEW R,
         decode_failed' = FailAll(R, fence, decoded, decode_failed),
         decoded' = decoded
  PROVE  /\ \A t \in Surfaces : Settled(t) => SettledNext(t)
         /\ \A r \in R : r.surf \in Surfaces /\ fence[r.surf] = r.fence =>
              SettledNext(r.surf)
<1>1. /\ \A s \in Surfaces : decode_failed[s] => decode_failed'[s]
      /\ \A r \in R : r.surf \in Surfaces /\ r.fence = fence[r.surf] =>
           decoded[r.surf] \/ decode_failed'[r.surf]
  BY FailAllFacts DEF TypeOK
<1> QED
  BY <1>1 DEF Settled, SettledNext

(* What carries the current fence of a surface is followed by something    *)
(* that does, or by a verdict.                                             *)
Survives(j) ==
  j.surf \in Surfaces /\ fence[j.surf] = j.fence =>
    SettledNext(j.surf) \/ \E i \in Carriers' : SameFence(i, j)

(* Between two BeginPicture calls no verdict is taken back and no fence is *)
(* forgotten: by the calls, the queue, the worker or its routes.           *)
LEMMA Survival ==
  ASSUME Base, Routed, Kinded, Forgettable, [Next]_vars
  PROVE  \/ /\ fence' = fence
            /\ \A s \in Surfaces : Settled(s) => SettledNext(s)
            /\ \A j \in Carriers : Survives(j)
         \/ \E s \in Surfaces, second \in BOOLEAN : rk_BeginPicture(s, second)
<1>1. TypeOK
  BY DEF Base
<1>2. \A j \in Carriers' : Survives(j)
  BY DEF Survives, SameFence
<1>3. /\ \A j : j \in Carriers' <=>
           \/ j \in built' \/ j \in JobsOf' \/ j \in RoutesOf'
           \/ j = cur' \/ j = asg'.route \/ j = render'
      /\ \A j : j \in Carriers <=>
           \/ j \in built \/ j \in JobsOf \/ j \in RoutesOf
           \/ j = cur \/ j = asg.route \/ j = render
  BY DEF Carriers
<1>4. ASSUME NEW i \in Carriers', NEW j, SameFence(i, j)
      PROVE  Survives(j)
  BY <1>4 DEF Survives
<1>5. Survives(NoPicture)
  BY NoPictureFacts DEF Survives
<1>6. pc \notin {"put", "assign"} => cur = NoPicture
  BY DEF Base, Phased, Pushing
<1>7. pc # "assign" => asg.route = NoPicture
  BY DEF Base, Phased
<1> DEFINE Kept == /\ fence' = fence
                   /\ \A s \in Surfaces : Settled(s) => SettledNext(s)
                   /\ \A j \in Carriers : Survives(j)
<1>8. ASSUME UNCHANGED <<fence, decoded, decode_failed>>
      PROVE  fence' = fence /\ \A s \in Surfaces : Settled(s) => SettledNext(s)
  BY <1>8 DEF Settled, SettledNext
<1>9. CASE Quiet
  <2>1. Carriers' = Carriers /\ UNCHANGED <<fence, decoded, decode_failed>>
    BY <1>9 DEF Quiet, surfVars, submitVars, routeVars, Carriers, JobsOf,
         RoutesOf
  <2> QED
    BY <1>2, <1>8, <2>1
<1>10. ASSUME NEW kind, end_build(kind)
       PROVE  Kept
  <2>1. /\ UNCHANGED <<fence, decoded, decode_failed, JobsOf, RoutesOf, cur,
                       asg>>
        /\ built' = built \cup {[render EXCEPT !.kind = kind]}
        /\ render \in Pictures
    BY <1>1, <1>10 DEF end_build, submitVars, routeVars, frameVars, JobsOf,
         RoutesOf, TypeOK
  <2>2. SameFence([render EXCEPT !.kind = kind], render)
    BY <2>1 DEF SameFence, Pictures
  <2>3. Survives(render)
    BY <1>3, <1>4, <2>1, <2>2
  <2> QED
    BY <1>2, <1>3, <1>8, <2>1, <2>3
<1>11. CASE end_failed
  <2>1. /\ UNCHANGED <<fence, decoded, decode_failed, JobsOf, RoutesOf, cur,
                       asg>>
        /\ built' = built \cup Abandoned /\ render # NoPicture
    BY <1>11 DEF end_failed, surfVars, submitVars, routeVars, frameVars,
         JobsOf, RoutesOf
  <2>2. PICK old \in Pictures : /\ Abandoned = {old}
                                /\ old.surf = render.surf
                                /\ old.fence = render.fence
    BY <1>1, <2>1, AbandonedFacts
  <2>3. Survives(render)
    BY <1>3, <1>4, <2>1, <2>2 DEF SameFence
  <2> QED
    BY <1>2, <1>3, <1>8, <2>1, <2>3
<1>11f. ASSUME NEW j \in built, rk_mpp_dec_fail_surface(j)
        PROVE  Kept
  <2>1. /\ UNCHANGED <<fence, decoded, JobsOf, RoutesOf, cur, asg, render>>
        /\ built' = built \ {j}
        /\ decode_failed' = FailAll({j}, fence, decoded, decode_failed)
    BY <1>11f DEF rk_mpp_dec_fail_surface, submitVars, routeVars, frameVars,
         JobsOf, RoutesOf
  <2>2. /\ \A t \in Surfaces : Settled(t) => SettledNext(t)
        /\ \A r \in {j} : r.surf \in Surfaces /\ fence[r.surf] = r.fence
             => SettledNext(r.surf)
    BY <1>1, <2>1, FailSettles
  <2>3. Survives(j)
    BY <2>2 DEF Survives
  <2> QED
    BY <1>2, <1>3, <2>1, <2>2, <2>3
<1>12. ASSUME NEW j \in built, rk_mpp_dec_enqueue_job(j)
       PROVE  Kept
  <2> DEFINE new == [j EXCEPT !.tok = next_token + 1]
  <2>1. /\ UNCHANGED <<fence, decoded, decode_failed, RoutesOf, cur, asg,
                       render>>
        /\ built' = built \ {j} /\ jobs' = Append(jobs, new)
    BY <1>12 DEF rk_mpp_dec_enqueue_job, surfVars, submitVars, routeVars,
         frameVars, RoutesOf
  <2>2. j \in Pictures /\ next_token \in Nat
    BY <1>1 DEF TypeOK
  <2>3. new \in Pictures /\ SameFence(new, j)
    BY <2>2 DEF SameFence, Pictures
  <2> HIDE DEF new
  <2>4. JobsOf' = JobsOf \cup {new}
    <3>1. jobs \in Seq(Pictures)
      BY <1>1 DEF TypeOK
    <3>2. Entries(Append(jobs, new)) = Entries(jobs) \cup {new}
      BY <2>3, <3>1, QueueMoves
    <3> QED
      BY <2>1, <3>2, AsEntries
  <2>5. Survives(j)
    BY <1>3, <1>4, <2>3, <2>4
  <2> QED
    BY <1>2, <1>3, <1>8, <2>1, <2>4, <2>5
<1>13. CASE stop_joined
  <2>1. /\ UNCHANGED <<fence, decoded, built, cur, asg>>
        /\ decode_failed' = FailAll(JobsOf \cup RoutesOf \cup {render}, fence,
                                    decoded, decode_failed)
    BY <1>13 DEF stop_joined, submitVars, frameVars
  <2>2. /\ \A t \in Surfaces : Settled(t) => SettledNext(t)
        /\ \A r \in JobsOf \cup RoutesOf \cup {render} :
             r.surf \in Surfaces /\ fence[r.surf] = r.fence
             => SettledNext(r.surf)
    BY <1>1, <2>1, FailSettles
  <2>3. \A r \in JobsOf \cup RoutesOf \cup {render} : Survives(r)
    BY <2>2 DEF Survives
  <2> QED
    BY <1>2, <1>3, <2>1, <2>2, <2>3
<1>14. CASE take_job
  <2>1. /\ jobs # <<>> /\ Head(jobs) \in Pictures /\ jobs' = Tail(jobs)
        /\ UNCHANGED <<fence, built, asg, render>> /\ cur = NoPicture
        /\ Head(jobs).surf \in Surfaces
    BY <1>1, <1>6, <1>14, TakeCases DEF take_job, apiVars, Pictures
  <2>2. JobsOf = JobsOf' \cup {Head(jobs)}
    <3>1. jobs \in Seq(Pictures)
      BY <1>1 DEF TypeOK
    <3>2. Entries(jobs) = Entries(Tail(jobs)) \cup {Head(jobs)}
      BY <2>1, <3>1, QueueMoves
    <3> QED
      BY <2>1, <3>2, AsEntries
  <2>3. ASSUME RoutesOf \subseteq RoutesOf', SameFence(cur', Head(jobs)),
               UNCHANGED <<decoded, decode_failed>>
        PROVE  Kept
    <3>1. Survives(Head(jobs))
      BY <1>3, <1>4, <2>3
    <3> QED
      BY <1>2, <1>3, <1>5, <1>8, <2>1, <2>2, <2>3, <3>1
  <2>4. ASSUME NEW r \in h264_routes, TakePaired(Head(jobs), r)
        PROVE  Kept
    <3>1. RoutesOf' = RoutesOf /\ SameFence(cur', Head(jobs))
          /\ UNCHANGED <<decoded, decode_failed>>
      BY <2>1, <2>4 DEF TakePaired, RoutesOf, SameFence, Pictures
    <3> QED
      BY <2>3, <3>1
  <2>5. CASE TakeRouted(Head(jobs))
    <3>1. /\ RoutesOf' = RoutesOf \cup {Head(jobs)} /\ cur' = Head(jobs)
          /\ UNCHANGED <<decoded, decode_failed>>
      BY <1>1, <2>1, <2>5, RouteMoves DEF TakeRouted
    <3> QED
      BY <2>3, <3>1 DEF SameFence
  <2>6. CASE TakeHidden(Head(jobs))
    <3>1. /\ RoutesOf' = RoutesOf /\ cur' = Head(jobs)
          /\ UNCHANGED <<decoded, decode_failed>>
      BY <2>6 DEF TakeHidden, RoutesOf
    <3> QED
      BY <2>3, <3>1 DEF SameFence
  <2>7. CASE TakeEmpty(Head(jobs))
    <3>1. /\ RoutesOf' = RoutesOf
          /\ Complete(Head(jobs).surf, Head(jobs).fence, TRUE)
      BY <2>7 DEF TakeEmpty, RoutesOf
    <3>2. /\ \A t \in Surfaces : Settled(t) => SettledNext(t)
          /\ fence[Head(jobs).surf] = Head(jobs).fence
               => SettledNext(Head(jobs).surf)
      BY <1>1, <2>1, <3>1, CompleteSettles
    <3>3. Survives(Head(jobs))
      BY <3>2 DEF Survives
    <3> QED
      BY <1>2, <1>3, <1>5, <2>1, <2>2, <3>1, <3>2, <3>3
  <2> QED
    BY <1>1, <1>14, <2>4, <2>5, <2>6, <2>7, TakeCases
<1>15. CASE put_accepted
  <2>1. UNCHANGED <<fence, built, JobsOf, asg, render>> /\ pc = "put"
    BY <1>15 DEF put_accepted, apiVars, frameVars, JobsOf
  <2>2. /\ cur \in Pictures /\ cur \in Carriers /\ cur # NoPicture
        /\ cur.surf \in Surfaces
    BY <1>3, <1>15, AtWork, NoPictureFacts DEF put_accepted, Pushing
  <2>3. CASE PutAltref
    <3>1. /\ cur' \in Pictures /\ SameFence(cur', cur)
          /\ UNCHANGED <<decoded, decode_failed>>
      BY <2>2, <2>3 DEF PutAltref, Pictures, SameFence
    <3>2. RoutesOf' = RoutesOf \cup {cur'}
      BY <1>1, <2>3, <3>1, RouteMoves
    <3>3. Survives(cur)
      BY <1>3, <1>4, <3>1
    <3> QED
      BY <1>2, <1>3, <1>8, <2>1, <3>1, <3>2, <3>3
  <2>4. ASSUME generic' = generic,
               \/ PutOwn \/ PutPaired \/ PutReplaced \/ PutUnroutable
               \/ (PutUnref \/ PutShown) /\ h264_routes' = h264_routes
        PROVE  Kept
    <3>1. RoutesOf \subseteq RoutesOf'
      <4>1. h264_routes \subseteq h264_routes'
        BY <2>4 DEF PutOwn, PutPaired, PutReplaced, PutUnroutable
      <4> QED
        BY <2>4, <4>1, AsEntries
    <3>2. ASSUME NEW r \in RoutesOf', SameFence(r, cur)
          PROVE  Survives(cur)
      BY <1>3, <1>4, <3>2
    <3>3. ASSUME \A s \in Surfaces : Settled(s) => SettledNext(s),
                 Survives(cur)
          PROVE  Kept
      BY <1>2, <1>3, <2>1, <3>1, <3>3
    <3>4. own_route => Survives(cur)
      BY <2>2, <3>1, <3>2 DEF Routed
    <3>5. CASE PutOwn
      <4>1. own_route /\ UNCHANGED <<decoded, decode_failed>>
        BY <2>2, <3>5 DEF PutOwn, Routed
      <4> QED
        BY <1>8, <2>1, <3>3, <3>4, <4>1
    <3>6. CASE PutPaired
      <4>1. PICK r \in h264_routes : SameFence(r, cur)
        BY <3>6 DEF PutPaired, RoutesFor, SameFence
      <4>2. r \in RoutesOf' /\ UNCHANGED <<decoded, decode_failed>>
        BY <3>1, <3>6, <4>1 DEF PutPaired, RoutesOf
      <4> QED
        BY <1>8, <2>1, <3>2, <3>3, <4>1, <4>2
    <3>7. CASE PutReplaced
      <4>1. cur \in RoutesOf' /\ UNCHANGED <<decoded, decode_failed>>
        BY <3>7, AsEntries DEF PutReplaced
      <4> QED
        BY <1>8, <2>1, <3>2, <3>3, <4>1 DEF SameFence
    <3>8. ASSUME NEW ok \in BOOLEAN, Complete(cur.surf, cur.fence, ok)
          PROVE  Kept
      <4>1. /\ \A t \in Surfaces : Settled(t) => SettledNext(t)
            /\ fence[cur.surf] = cur.fence => SettledNext(cur.surf)
        BY <1>1, <2>2, <3>8, CompleteSettles
      <4> QED
        BY <3>3, <4>1 DEF Survives
    <3>9. CASE PutUnroutable \/ PutUnref
      BY <3>8, <3>9 DEF PutUnroutable, PutUnref
    <3>10. CASE PutShown
      <4>1. /\ coding = "VP9" /\ cur.kind \in {"frame", "repeat"}
            /\ UNCHANGED <<decoded, decode_failed>>
        BY <2>2, <3>10 DEF PutShown, Kinded
      <4>2. own_route \/ Settled(cur.surf) \/ fence[cur.surf] # cur.fence
        BY <2>1, <2>2, <4>1 DEF Forgettable
      <4>3. \A s \in Surfaces : Settled(s) => SettledNext(s)
        BY <1>8, <2>1, <4>1
      <4>4. Survives(cur)
        BY <2>2, <3>4, <4>2, <4>3 DEF Survives
      <4> QED
        BY <3>3, <4>3, <4>4
    <3> QED
      BY <2>4, <3>5, <3>6, <3>7, <3>9, <3>10
  <2> QED
    BY <1>1, <1>15, <2>3, <2>4, PutCases
<1>16. CASE put_failed
  <2>1. /\ UNCHANGED <<fence, built, JobsOf, asg, render>>
        /\ Complete(cur.surf, cur.fence, FALSE)
    BY <1>16 DEF put_failed, apiVars, frameVars, JobsOf
  <2>2. cur # NoPicture /\ cur.surf \in Surfaces
    BY <1>16, AtWork, NoPictureFacts DEF put_failed, Pushing
  <2>3. /\ \A t \in Surfaces : Settled(t) => SettledNext(t)
        /\ fence[cur.surf] = cur.fence => SettledNext(cur.surf)
    BY <1>1, <2>1, <2>2, CompleteSettles
  <2>4. Survives(cur)
    BY <2>3 DEF Survives
  <2>5. ASSUME NEW r \in RoutesOf
        PROVE  Survives(r)
    <3>1. CASE r \in RoutesOf'
      BY <1>2, <1>3, <3>1
    <3>2. CASE r.tok = cur.tok
      BY <2>2, <2>3, <3>2 DEF Routed, SameFence, Survives
    <3> QED
      BY <1>1, <1>16, <3>1, <3>2, RouteMoves
  <2> QED
    BY <1>2, <1>3, <2>1, <2>3, <2>4, <2>5
<1>17. ASSUME NEW frame \in Packets, Drains(frame)
       PROVE  Kept
  <2>1. /\ UNCHANGED <<fence, decoded, decode_failed, built, JobsOf, cur,
                       render>>
        /\ asg.route = NoPicture
    BY <1>1, <1>7, <1>17, DrainCases DEF JobsOf
  <2>2. CASE UNCHANGED <<h264_routes, generic>>
    BY <1>2, <1>3, <1>5, <1>8, <2>1, <2>2 DEF RoutesOf
  <2>3. ASSUME NEW r \in RoutesOf, Consumes(r, frame)
        PROVE  Kept
    <3>1. RoutesOf \subseteq RoutesOf' \cup {r}
      BY <1>1, <2>3, RouteMoves
    <3>2. fence[r.surf] # r.fence \/ asg'.route = r
      BY <2>3 DEF Consumes, Dropped, Assigning
    <3>3. Survives(r)
      BY <1>2, <1>3, <3>2 DEF Survives
    <3> QED
      BY <1>2, <1>3, <1>5, <1>8, <2>1, <3>1, <3>3
  <2> QED
    BY <1>1, <1>17, <2>2, <2>3, DrainCases
<1>18. CASE assign_bind \/ assign_reject
  <2>1. UNCHANGED <<fence, built, JobsOf, RoutesOf, cur, render>>
    BY <1>18, AssignCases DEF JobsOf, RoutesOf
  <2>2. /\ asg.route.fence = fence[asg.route.surf] =>
             SettledNext(asg.route.surf)
        /\ \A s \in Surfaces : s # asg.route.surf
                               \/ asg.route.fence # fence[asg.route.surf] =>
             decoded'[s] = decoded[s] /\ decode_failed'[s] = decode_failed[s]
    BY <1>18, AssignCases
  <2>3. \A s \in Surfaces : Settled(s) => SettledNext(s)
    BY <2>2 DEF Settled, SettledNext
  <2>4. Survives(asg.route)
    BY <2>2 DEF Survives
  <2> QED
    BY <1>2, <1>3, <2>1, <2>3, <2>4
<1>19. CASE stall_timeout
  <2>1. /\ UNCHANGED <<fence, decoded, built, JobsOf, cur, asg, render>>
        /\ decode_failed' = FailAll(RoutesOf, fence, decoded, decode_failed)
    BY <1>19 DEF stall_timeout, apiVars, submitVars, JobsOf
  <2>2. /\ \A t \in Surfaces : Settled(t) => SettledNext(t)
        /\ \A r \in RoutesOf : r.surf \in Surfaces /\ fence[r.surf] = r.fence
             => SettledNext(r.surf)
    BY <1>1, <2>1, FailSettles
  <2>3. \A r \in RoutesOf : Survives(r)
    BY <2>2 DEF Survives
  <2> QED
    BY <1>2, <1>3, <2>1, <2>2, <2>3
<1>20. ASSUME NEW packet \in mpp, mpp_lose(packet)
       PROVE  Kept
  <2>1. UNCHANGED <<fence, decoded, decode_failed, built, JobsOf, RoutesOf,
                    cur, asg, render>>
    BY <1>20 DEF mpp_lose, surfVars, apiVars, submitVars, routeVars,
         frameVars, JobsOf, RoutesOf
  <2> QED
    BY <1>2, <1>3, <1>8, <2>1
<1> QED
  BY <1>1, <1>9, <1>10, <1>11, <1>11f, <1>12, <1>13, <1>14, <1>15, <1>16, <1>17,
     <1>18, <1>19, <1>20, StepCases

(* BeginPicture leaves the verdicts of the other surfaces alone.           *)
LEMMA BeginVerdicts ==
  ASSUME TypeOK, NEW s \in Surfaces, NEW second \in BOOLEAN,
         rk_BeginPicture(s, second)
  PROVE  /\ \A t \in Surfaces : t # s =>
              /\ decoded'[t] = decoded[t]
              /\ decode_failed'[t] = decode_failed[t]
              /\ bound'[t] = bound[t] /\ want'[t] = want[t]
              /\ Settled(t) => SettledNext(t)
         /\ ~decoded'[s] /\ ~decode_failed'[s]
<1>1. /\ decoded' = [decoded EXCEPT ![s] = FALSE]
      /\ decode_failed' = [decode_failed EXCEPT ![s] = FALSE]
      /\ bound' = [bound EXCEPT ![s] = IF Continuation(s) THEN @ ELSE 0]
      /\ want' = [want EXCEPT ![s] = IF second THEN want[s] ELSE begins + 1]
  BY DEF rk_BeginPicture
<1>2. /\ decoded \in [Surfaces -> BOOLEAN] /\ bound \in [Surfaces -> Nat]
      /\ decode_failed \in [Surfaces -> BOOLEAN] /\ want \in [Surfaces -> Nat]
  BY DEF TypeOK
<1>3. /\ \A t \in Surfaces : t # s =>
           /\ decoded'[t] = decoded[t] /\ decode_failed'[t] = decode_failed[t]
           /\ bound'[t] = bound[t] /\ want'[t] = want[t]
      /\ ~decoded'[s] /\ ~decode_failed'[s]
  BY <1>1, <1>2
<1> QED
  BY <1>3 DEF Settled, SettledNext

(* Every step keeps the shown VP9 picture's fence covered.                 *)
LEMMA ForgettableKept ==
  ASSUME Base, Routed, Kinded, Behind, Forgettable, [Next]_vars
  PROVE  Forgettable'
<1> SUFFICES ASSUME coding = "VP9", cur' # NoPicture,
                    cur'.kind \in {"frame", "repeat"}
             PROVE  \/ own_route'
                    \/ SettledNext(cur'.surf)
                    \/ fence'[cur'.surf] # cur'.fence
                    \/ pc' = "assign" /\ SameFence(asg'.route, cur')
  BY StepCases DEF Forgettable, Settled, SettledNext, Base
<1> DEFINE Fine == \/ own_route'
                   \/ SettledNext(cur'.surf)
                   \/ fence'[cur'.surf] # cur'.fence
                   \/ pc' = "assign" /\ SameFence(asg'.route, cur')
<1>1. TypeOK
  BY DEF Base
<1>2. ASSUME cur' = cur
      PROVE  /\ cur \in Pictures /\ cur.surf \in Surfaces
             /\ \/ own_route
                \/ Settled(cur.surf)
                \/ fence[cur.surf] # cur.fence
                \/ pc = "assign" /\ SameFence(asg.route, cur)
             /\ pc \in {"put", "assign"}
  BY <1>2 DEF Forgettable, Base, TypeOK, Phased, Pushing, Pictures
<1>3. ASSUME NEW s \in Surfaces, NEW second \in BOOLEAN,
             rk_BeginPicture(s, second)
      PROVE  Fine
  <2>1. UNCHANGED <<cur, own_route, pc, asg>>
    BY <1>3 DEF rk_BeginPicture, submitVars, frameVars
  <2>2. CASE cur.surf = s
    <3>1. fence'[s] = fence[s] + 1
      BY <1>1, <1>3, BeginFence DEF Continuation
    <3>2. cur.fence <= fence[s] /\ cur.fence \in Nat /\ fence[s] \in Nat
      BY <1>1, <1>2, <2>1, <2>2 DEF Behind, Carriers, TypeOK, Pictures
    <3> QED
      BY <2>1, <2>2, <3>1, <3>2
  <2>3. CASE cur.surf # s
    <3>1. /\ fence'[cur.surf] = fence[cur.surf]
          /\ Settled(cur.surf) => SettledNext(cur.surf)
      BY <1>1, <1>2, <1>3, <2>1, <2>3, BeginFence, BeginVerdicts
    <3> QED
      BY <1>2, <2>1, <3>1
  <2> QED
    BY <2>2, <2>3
<1>4. ASSUME ~\E s \in Surfaces, second \in BOOLEAN : rk_BeginPicture(s, second)
      PROVE  Fine
  <2>1. /\ fence' = fence
        /\ \A s \in Surfaces : Settled(s) => SettledNext(s)
    BY <1>4, Survival
  <2>2. ASSUME UNCHANGED <<cur, own_route>>,
               pc = "assign" => UNCHANGED <<pc, asg>>
        PROVE  Fine
    BY <1>2, <2>1, <2>2
  <2>3. CASE Quiet
    BY <2>2, <2>3 DEF Quiet, submitVars
  <2>4. ASSUME NEW kind, end_build(kind)
        PROVE  Fine
    BY <2>2, <2>4 DEF end_build, submitVars, frameVars
  <2>5. CASE end_failed
    BY <2>2, <2>5 DEF end_failed, submitVars, frameVars
  <2>5f. ASSUME NEW j \in built, rk_mpp_dec_fail_surface(j)
         PROVE  Fine
    BY <2>2, <2>5f
       DEF rk_mpp_dec_fail_surface, submitVars, frameVars
  <2>6. ASSUME NEW j \in built, rk_mpp_dec_enqueue_job(j)
        PROVE  Fine
    BY <2>2, <2>6 DEF rk_mpp_dec_enqueue_job, submitVars, frameVars
  <2>7. CASE stop_joined
    BY <2>2, <2>7 DEF stop_joined, submitVars, frameVars
  <2>8. CASE take_job
    <3>1. jobs # <<>> /\ Head(jobs) \in JobsOf /\ pc = "loop"
      <4>1. jobs \in Seq(Pictures) /\ jobs # <<>>
        BY <1>1, <2>8 DEF take_job, TypeOK
      <4>2. Head(jobs) = jobs[1] /\ 1 \in DOMAIN jobs
        BY <4>1, Oldest
      <4> QED
        BY <2>8, <4>1, <4>2 DEF JobsOf, take_job
    <3>2. CASE TakeRouted(Head(jobs))
      BY <3>2 DEF TakeRouted
    <3>3. CASE TakeHidden(Head(jobs))
      BY <3>1, <3>3 DEF TakeHidden, Kinded
    <3>4. CASE TakeEmpty(Head(jobs))
      BY <1>2, <3>1, <3>4 DEF TakeEmpty
    <3> QED
      BY <1>1, <2>8, <3>2, <3>3, <3>4, TakeCases DEF TakePaired
  <2>9. CASE put_accepted
    BY <1>1, <2>9, PutCases DEF PutAltref
  <2>10. CASE put_failed
    BY <2>10 DEF put_failed
  <2>11. ASSUME NEW frame \in Packets, Drains(frame)
         PROVE  Fine
    <3>1. cur' = cur /\ pc # "assign"
      BY <1>1, <2>11, DrainCases
    <3>2. CASE own_route' = own_route
      BY <2>2, <3>1, <3>2
    <3>3. ASSUME NEW r \in RoutesOf, Consumes(r, frame)
          PROVE  Fine
      <4>1. own_route' <=> own_route /\ r.tok # cur.tok
        BY <3>3 DEF Consumes
      <4>2. CASE own_route /\ r.tok = cur.tok
        <5>1. SameFence(r, cur)
          BY <3>1, <4>2 DEF Routed
        <5>2. \/ fence[r.surf] # r.fence
              \/ pc' = "assign" /\ asg'.route = r
          BY <3>3 DEF Consumes, Dropped, Assigning
        <5> QED
          BY <2>1, <3>1, <5>1, <5>2 DEF SameFence
      <4>3. CASE own_route /\ r.tok # cur.tok
        BY <4>1, <4>3
      <4>4. CASE ~own_route
        BY <1>2, <2>1, <3>1, <4>4
      <4> QED
        BY <4>2, <4>3, <4>4
    <3> QED
      BY <1>1, <2>11, <3>2, <3>3, DrainCases
  <2>12. CASE assign_bind \/ assign_reject
    <3>1. /\ UNCHANGED <<cur, own_route>>
          /\ asg.route.fence = fence[asg.route.surf] =>
               SettledNext(asg.route.surf)
      BY <2>12, AssignCases
    <3> QED
      BY <1>2, <2>1, <3>1 DEF SameFence
  <2>13. CASE stall_timeout
    BY <2>2, <2>13 DEF stall_timeout, submitVars
  <2>14. ASSUME NEW packet \in mpp, mpp_lose(packet)
         PROVE  Fine
    BY <2>2, <2>14 DEF mpp_lose, submitVars, frameVars
  <2> QED
    BY <1>1, <1>4, <2>3, <2>4, <2>5, <2>5f, <2>6, <2>7, <2>8, <2>9, <2>10,
       <2>11, <2>12, <2>13, <2>14, StepCases
<1> QED
  BY <1>3, <1>4

(* Every step keeps every fence settled or under way.                      *)
LEMMA FencesKept ==
  ASSUME Base, Routed, Kinded, Forgettable, NoFenceLost, [Next]_vars
  PROVE  NoFenceLost'
<1>1. TypeOK
  BY DEF Base
<1> SUFFICES ASSUME NEW t \in Surfaces, fence'[t] # 0
             PROVE  SettledNext(t)
                    \/ \E i \in Carriers' : i.surf = t /\ i.fence = fence'[t]
  BY DEF NoFenceLost, Settled, SettledNext, InFlight
<1>2. fence[t] # 0 => \/ Settled(t)
                      \/ \E j \in Carriers : j.surf = t /\ j.fence = fence[t]
  BY DEF NoFenceLost, InFlight
<1>3. CASE /\ fence' = fence
           /\ \A s \in Surfaces : Settled(s) => SettledNext(s)
           /\ \A j \in Carriers : Survives(j)
  BY <1>2, <1>3 DEF Survives, SameFence
<1>4. ASSUME NEW s \in Surfaces, NEW second \in BOOLEAN,
             rk_BeginPicture(s, second)
      PROVE  SettledNext(t)
             \/ \E i \in Carriers' : i.surf = t /\ i.fence = fence'[t]
  <2>1. CASE t = s
    <3>1. render' \in Carriers' /\ render'.surf = s
          /\ render'.fence = fence'[s]
      BY <1>1, <1>4, BeginFence DEF Carriers
    <3> QED
      BY <2>1, <3>1
  <2>2. CASE t # s
    <3>1. fence'[t] = fence[t] /\ (Settled(t) => SettledNext(t))
      BY <1>1, <1>4, <2>2, BeginFence, BeginVerdicts
    <3>2. /\ UNCHANGED <<JobsOf, RoutesOf, cur, asg>>
          /\ built' = IF render = NoPicture THEN built
                                            ELSE built \cup Abandoned
      BY <1>4 DEF rk_BeginPicture, submitVars, routeVars, frameVars, JobsOf,
           RoutesOf
    <3>3. \A j \in Carriers : j \in Carriers' \/ j = render
      BY <3>2 DEF Carriers
    <3>4. ASSUME render.surf = t
          PROVE  \E i \in Carriers' : i.surf = t /\ i.fence = render.fence
      <4>1. render # NoPicture
        BY <3>4, NoPictureFacts
      <4>2. PICK old \in Pictures : /\ Abandoned = {old}
                                    /\ old.surf = render.surf
                                    /\ old.fence = render.fence
        BY <1>1, <4>1, AbandonedFacts
      <4> QED
        BY <3>2, <3>4, <4>1, <4>2 DEF Carriers
    <3> QED
      BY <1>2, <3>1, <3>3, <3>4
  <2> QED
    BY <2>1, <2>2
<1> QED
  BY <1>3, <1>4, Survival

(* Tokens, routes and fences together.                                     *)
FenceInv ==
  /\ Base /\ Numbered /\ Routed /\ Kinded /\ Behind /\ Forgettable
  /\ NoFenceLost

(* The first state holds no job, no route and no fence.                    *)
LEMMA FenceInit == Init => FenceInv
<1> SUFFICES ASSUME Init PROVE FenceInv
  OBVIOUS
<1>1. Base
  BY BaseInit
<1>2. /\ RoutesOf = {} /\ JobsOf = {} /\ mpp = {} /\ cur = NoPicture
      /\ built = {} /\ jobs = <<>> /\ own_route = FALSE
      /\ h264_routes = {} /\ generic = <<>> /\ render = NoPicture
      /\ asg.route = NoPicture /\ \A s \in Surfaces : fence[s] = 0
  BY DEF Init, RoutesOf, JobsOf, NoAssign
<1>3. Numbered
  BY <1>2 DEF Numbered, Rising
<1>4. Routed
  BY <1>2 DEF Routed
<1>5. Kinded /\ Forgettable
  BY <1>2 DEF Kinded, Forgettable
<1>6. Behind
  BY <1>2 DEF Behind, Carriers
<1>7. NoFenceLost
  BY <1>2 DEF NoFenceLost
<1> QED
  BY <1>1, <1>3, <1>4, <1>5, <1>6, <1>7 DEF FenceInv

(* Tokens, routes and fences hold throughout, whatever MPP does with its   *)
(* packets and however the application reuses its surfaces.                *)
THEOREM FenceInvariant == Spec => []FenceInv
<1>1. FenceInv /\ [Next]_vars => FenceInv'
  <2> SUFFICES ASSUME FenceInv, [Next]_vars PROVE FenceInv'
    OBVIOUS
  <2>1. Base /\ Numbered /\ Routed /\ Kinded /\ Behind /\ Forgettable
        /\ NoFenceLost
    BY DEF FenceInv
  <2>2. Base'
    BY <2>1, TypesKept, PhasesKept DEF Base
  <2>3. Numbered' /\ Routed' /\ Kinded' /\ Behind'
    BY <2>1, NumbersKept, RoutesKept, KindsKept, BehindKept
  <2>4. Forgettable' /\ NoFenceLost'
    BY <2>1, ForgettableKept, FencesKept
  <2> QED
    BY <2>2, <2>3, <2>4 DEF FenceInv
<1> QED
  BY FenceInit, <1>1, PTL DEF Spec

(* "no fence is left unsignalled either way" (mpp_dec.c:1520), for every   *)
(* codec, any reuse of the surfaces and any loss or delay inside MPP.      *)
THEOREM FencesAreKept == Spec => []NoFenceLost
<1>1. FenceInv => NoFenceLost
  BY DEF FenceInv
<1> QED
  BY FenceInvariant, <1>1, PTL

-----------------------------------------------------------------------------
(***************************************************************************)
(* Counting.  VP9's routes carry no token that MPP returns: that each      *)
(* frame meets its own route rests on MPP answering before the stall       *)
(* timer, after which a late frame takes the next picture's route.         *)
(***************************************************************************)
Answers == "VP9" \notin MppStalls

(* The FIFO of a VP9 context is in submission order, every packet inside   *)
(* MPP has its route in it, and the job being pushed is the newest.        *)
Fed ==
  coding = "VP9" =>
    /\ Rising(generic)
    /\ \A p, q \in mpp : p.tok = q.tok => p = q
    /\ \A p \in mpp : \E r \in RoutesOf : r.tok = p.tok
    /\ cur # NoPicture =>
         /\ \A p \in mpp : p.tok < cur.tok
         /\ \A r \in RoutesOf : r.tok <= cur.tok
         /\ own_route <=> cur.kind \in {"frame", "repeat"}
         /\ ~own_route => \A r \in RoutesOf : r.tok # cur.tok

Count(b) == IF b THEN 1 ELSE 0

(* outstanding_frames counts the routes, less the one whose packet is not  *)
(* in yet, plus the one whose frame is being assigned.                     *)
Balanced ==
  /\ outstanding + Count(own_route)
       = Cardinality(h264_routes) + Len(generic) + Count(pc = "assign")
  /\ ~freed_twice

(* A rising queue's head has its smallest token; it rises without its head *)
(* and with a new larger tail.                                             *)
LEMMA RisingMoves ==
  ASSUME NEW q \in Seq(Pictures), Rising(q)
  PROVE  /\ q # <<>> => /\ \A r \in Entries(q) : Head(q).tok <= r.tok
                        /\ Rising(Tail(q))
         /\ \A e \in Pictures : (\A r \in Entries(q) : r.tok < e.tok) =>
              Rising(Append(q, e))
<1>1. DOMAIN q = 1 .. Len(q) /\ Len(q) \in Nat
  OBVIOUS
<1>2. \A k \in DOMAIN q : q[k].tok \in Nat
  <2>1. \A k \in DOMAIN q : q[k] \in Pictures
    OBVIOUS
  <2> QED
    BY <2>1 DEF Pictures
<1>3. ASSUME q # <<>>
      PROVE  /\ \A r \in Entries(q) : Head(q).tok <= r.tok
             /\ Rising(Tail(q))
  <2>1. /\ Head(q) = q[1] /\ 1 \in DOMAIN q
        /\ \A k \in DOMAIN Tail(q) :
             k + 1 \in DOMAIN q /\ Tail(q)[k] = q[k + 1]
    BY <1>3, Oldest
  <2>2. DOMAIN Tail(q) \subseteq Nat
    BY <1>3
  <2>3. \A k \in DOMAIN q : q[1].tok <= q[k].tok
    <3> SUFFICES ASSUME NEW k \in DOMAIN q, k # 1
                 PROVE  q[1].tok <= q[k].tok
      BY <1>2, <2>1
    <3>1. 1 < k
      BY <1>1
    <3>2. q[1].tok < q[k].tok
      BY <2>1, <3>1 DEF Rising
    <3> QED
      BY <1>2, <2>1, <3>2
  <2>4. ASSUME NEW k \in DOMAIN Tail(q), NEW l \in DOMAIN Tail(q), k < l
        PROVE  Tail(q)[k].tok < Tail(q)[l].tok
    <3>1. k + 1 \in DOMAIN q /\ l + 1 \in DOMAIN q /\ k + 1 < l + 1
      BY <2>1, <2>2, <2>4
    <3> QED
      BY <2>1, <3>1 DEF Rising
  <2> QED
    BY <2>1, <2>3, <2>4 DEF Entries, Rising
<1>4. ASSUME NEW e \in Pictures, \A r \in Entries(q) : r.tok < e.tok
      PROVE  Rising(Append(q, e))
  <2>1. \A k \in DOMAIN Append(q, e) :
          \/ k \in DOMAIN q /\ Append(q, e)[k] = q[k]
          \/ k = Len(q) + 1 /\ Append(q, e)[k] = e
    BY <1>4, Newest
  <2> SUFFICES ASSUME NEW k \in DOMAIN Append(q, e),
                      NEW l \in DOMAIN Append(q, e), k < l
               PROVE  Append(q, e)[k].tok < Append(q, e)[l].tok
    BY DEF Rising
  <2>2. k \in DOMAIN q /\ Append(q, e)[k] = q[k]
    BY <1>1, <2>1
  <2>3. CASE l \in DOMAIN q /\ Append(q, e)[l] = q[l]
    BY <2>2, <2>3 DEF Rising
  <2>4. CASE Append(q, e)[l] = e
    BY <1>4, <2>2, <2>4 DEF Entries
  <2> QED
    BY <2>1, <2>3, <2>4
<1> QED
  BY <1>3, <1>4

(* A drained VP9 frame takes a route no newer than its packet's; the job   *)
(* being pushed keeps its own.                                             *)
LEMMA FedDrain ==
  ASSUME Base, Routed, Fed, coding = "VP9", NEW frame \in Packets,
         Drains(frame), NEW r \in RoutesOf, Consumes(r, frame)
  PROVE  /\ \A q \in RoutesOf : r.tok <= q.tok
         /\ cur # NoPicture => r.tok < cur.tok
         /\ own_route' <=> own_route
         /\ \A p \in mpp' : r.tok < p.tok
         /\ Rising(generic')
<1>1. TypeOK /\ generic \in Seq(Pictures)
  BY DEF Base, TypeOK
<1>2. /\ generic # <<>> /\ r = Head(generic) /\ generic' = Tail(generic)
      /\ own_route' <=> own_route /\ r.tok # cur.tok
  BY DEF Consumes
<1>3. \A q \in RoutesOf : q.tok \in Nat
  BY <1>1, CarrierTypes DEF Pictures
<1>4. (\A q \in RoutesOf : r.tok <= q.tok) /\ Rising(generic')
  <2>1. RoutesOf = Entries(generic)
    BY AsEntries DEF Routed
  <2> QED
    BY <1>1, <1>2, <2>1, RisingMoves DEF Fed
<1>5. \A p \in mpp : r.tok <= p.tok
  BY <1>4 DEF Fed
<1>6. \A p \in mpp : p.tok \in Nat
  BY <1>1 DEF TypeOK, Packets
<1>7. CASE frame \in mpp /\ Deliverable(frame) /\ mpp' = mpp \ {frame}
  <2>1. \A p \in mpp : frame.tok <= p.tok
    BY <1>1, <1>7, CodecFacts DEF Deliverable
  <2>2. ASSUME NEW p \in mpp'
        PROVE  r.tok < p.tok
    <3>1. p \in mpp /\ p # frame
      BY <1>7
    <3>2. p.tok # frame.tok
      BY <1>7, <3>1 DEF Fed
    <3> QED
      BY <1>3, <1>5, <1>6, <1>7, <2>1, <3>1, <3>2
  <2>3. cur # NoPicture => r.tok < cur.tok
    <3> SUFFICES ASSUME cur # NoPicture PROVE r.tok < cur.tok
      OBVIOUS
    <3>1. frame.tok < cur.tok /\ cur.tok \in Nat
      BY <1>1, <1>7, CarrierTypes DEF Fed, TypeOK, Pictures
    <3> QED
      BY <1>3, <1>5, <1>6, <1>7, <3>1
  <2>4. own_route => cur # NoPicture
    BY DEF Base, Phased
  <2>5. cur # NoPicture => cur.tok \in Nat
    BY <1>1 DEF TypeOK, Pictures
  <2>6. own_route' <=> own_route
    BY <1>2, <1>3, <2>3, <2>4, <2>5
  <2> QED
    BY <1>4, <2>2, <2>3, <2>6
<1>8. CASE mpp_eos /\ mpp = {} /\ mpp' = mpp
  <2>1. cur = NoPicture /\ ~own_route
    BY <1>8 DEF Base, Phased
  <2> QED
    BY <1>2, <1>4, <1>8, <2>1
<1> QED
  BY <1>7, <1>8 DEF Drains

(* Every step keeps a VP9 context's packets and routes matched.            *)
LEMMA FedKept ==
  ASSUME Answers, Base, Numbered, Routed, Kinded, Fed, [Next]_vars
  PROVE  Fed'
<1>1. TypeOK /\ coding' = coding
  BY StepCases DEF Base
<1> SUFFICES ASSUME coding = "VP9"
             PROVE  Fed'
  BY <1>1 DEF Fed
<1>2. /\ Rising(generic)
      /\ \A p, q \in mpp : p.tok = q.tok => p = q
      /\ \A p \in mpp : \E r \in RoutesOf : r.tok = p.tok
      /\ cur # NoPicture =>
           /\ \A p \in mpp : p.tok < cur.tok
           /\ \A r \in RoutesOf : r.tok <= cur.tok
           /\ own_route <=> cur.kind \in {"frame", "repeat"}
           /\ ~own_route => \A r \in RoutesOf : r.tok # cur.tok
  BY DEF Fed
<1>3. ASSUME UNCHANGED <<h264_routes, generic, cur, own_route>>,
             mpp' \subseteq mpp
      PROVE  Fed'
  <2>1. RoutesOf' = RoutesOf
    BY <1>3 DEF RoutesOf
  <2> QED
    BY <1>2, <1>3, <2>1 DEF Fed
<1>4. pc \notin {"put", "assign"} => cur = NoPicture /\ own_route = FALSE
  BY DEF Base, Phased, Pushing, TypeOK
<1>5. /\ generic \in Seq(Pictures) /\ RoutesOf = Entries(generic)
      /\ \A r \in RoutesOf : r.tok \in Nat
      /\ \A p \in mpp : p.tok \in Nat
  <2>1. generic \in Seq(Pictures) /\ RoutesOf = Entries(generic)
    BY <1>1, AsEntries DEF TypeOK, Routed
  <2>2. \A r \in RoutesOf : r.tok \in Nat
    BY <1>1, CarrierTypes DEF Pictures
  <2>3. \A p \in mpp : p.tok \in Nat
    BY <1>1 DEF TypeOK, Packets
  <2> QED
    BY <2>1, <2>2, <2>3
<1>6. CASE Quiet
  BY <1>3, <1>6 DEF Quiet, submitVars, routeVars
<1>7. ASSUME NEW s \in Surfaces, NEW second \in BOOLEAN,
             rk_BeginPicture(s, second)
      PROVE  Fed'
  BY <1>3, <1>7 DEF rk_BeginPicture, submitVars, routeVars, mppVars
<1>8. ASSUME NEW kind, end_build(kind)
      PROVE  Fed'
  BY <1>3, <1>8 DEF end_build, submitVars, routeVars, mppVars
<1>9. CASE end_failed
  BY <1>3, <1>9 DEF end_failed, submitVars, routeVars, mppVars
<1>9f. ASSUME NEW j \in built, rk_mpp_dec_fail_surface(j)
       PROVE  Fed'
  BY <1>3, <1>9f
     DEF rk_mpp_dec_fail_surface, submitVars, routeVars, mppVars
<1>10. ASSUME NEW j \in built, rk_mpp_dec_enqueue_job(j)
       PROVE  Fed'
  BY <1>3, <1>10 DEF rk_mpp_dec_enqueue_job, submitVars, routeVars, mppVars
<1>11. CASE stop_joined
  <2>1. mpp' = {} /\ generic' = <<>> /\ cur' = NoPicture
    BY <1>4, <1>11 DEF stop_joined, submitVars
  <2> QED
    BY <2>1 DEF Fed, Rising
<1>12. CASE take_job
  <2>1. /\ jobs # <<>> /\ Head(jobs) \in Pictures /\ mpp' = mpp
        /\ cur = NoPicture /\ Head(jobs) \in JobsOf
    <3>1. jobs \in Seq(Pictures) /\ jobs # <<>>
      BY <1>1, <1>12 DEF TypeOK, take_job
    <3>2. Head(jobs) = jobs[1] /\ 1 \in DOMAIN jobs /\ Head(jobs) \in Pictures
      BY <3>1, Oldest
    <3> QED
      BY <1>4, <1>12, <3>1, <3>2 DEF take_job, mppVars, JobsOf
  <2>2. /\ \A r \in RoutesOf : r.tok < Head(jobs).tok
        /\ \A p \in mpp : p.tok < Head(jobs).tok
        /\ Head(jobs).tok \in Nat
    BY <1>1, <2>1, TakenIsNew
  <2>3. CASE TakeRouted(Head(jobs))
    <3>1. /\ RoutesOf' = RoutesOf \cup {Head(jobs)} /\ cur' = Head(jobs)
          /\ own_route' = TRUE /\ generic' = Append(generic, Head(jobs))
          /\ Head(jobs).kind = "frame"
      BY <1>1, <2>1, <2>3, RouteMoves DEF TakeRouted
    <3>2. Rising(generic')
      BY <1>2, <1>5, <2>1, <2>2, <3>1, RisingMoves
    <3>3. \A r \in RoutesOf' : r.tok <= cur'.tok
      BY <1>5, <2>2, <3>1
    <3> QED
      BY <1>2, <2>1, <2>2, <3>1, <3>2, <3>3 DEF Fed
  <2>4. CASE TakeHidden(Head(jobs))
    <3>1. /\ RoutesOf' = RoutesOf /\ cur' = Head(jobs)
          /\ own_route' = FALSE /\ generic' = generic
          /\ Head(jobs).kind \notin {"frame", "repeat"}
      BY <2>1, <2>4 DEF TakeHidden, RoutesOf, Kinded
    <3>2. /\ \A r \in RoutesOf' : r.tok <= cur'.tok /\ r.tok # cur'.tok
      BY <1>5, <2>2, <3>1
    <3> QED
      BY <1>2, <2>1, <2>2, <3>1, <3>2 DEF Fed
  <2>5. CASE TakeEmpty(Head(jobs))
    BY <1>3, <2>1, <2>5 DEF TakeEmpty
  <2> QED
    BY <1>1, <1>12, <2>3, <2>4, <2>5, TakeCases DEF TakePaired
<1>13. CASE put_accepted
  <2>1. cur \in Pictures /\ cur # NoPicture /\ cur.tok \in Nat
    BY <1>13, AtWork, NoPictureFacts DEF put_accepted, Pushing, Pictures
  <2>2. CASE PutAltref
    <3>1. /\ cur' \in Pictures /\ cur'.tok = cur.tok /\ own_route' = TRUE
          /\ mpp' = mpp /\ generic' = Append(generic, cur')
          /\ cur'.kind = "repeat" /\ cur.kind = "altref"
      BY <2>1, <2>2 DEF PutAltref, Pictures
    <3>2. RoutesOf' = RoutesOf \cup {cur'}
      BY <1>1, <2>2, <3>1, RouteMoves
    <3>3. ~own_route /\ \A r \in RoutesOf : r.tok <= cur.tok /\ r.tok # cur.tok
      BY <1>2, <2>1, <3>1
    <3>4. \A r \in RoutesOf : r.tok < cur.tok
      BY <1>5, <2>1, <3>3
    <3>5. Rising(generic')
      <4>1. \A e \in Pictures : (\A r \in Entries(generic) : r.tok < e.tok) =>
              Rising(Append(generic, e))
        BY <1>2, <1>5, RisingMoves
      <4>2. \A r \in Entries(generic) : r.tok < cur'.tok
        BY <1>5, <3>1, <3>4
      <4> QED
        BY <3>1, <4>1, <4>2
    <3>6. \A r \in RoutesOf' : r.tok <= cur'.tok
      BY <2>1, <3>1, <3>2, <3>3
    <3> QED
      BY <1>2, <2>1, <3>1, <3>2, <3>5, <3>6 DEF Fed
  <2>3. ASSUME cur' = NoPicture, generic' = generic,
               (PutUnref \/ PutShown) /\ h264_routes' = h264_routes
        PROVE  Fed'
    <3>1. RoutesOf' = RoutesOf
      BY <2>3 DEF RoutesOf
    <3>2. CASE PutUnref
      BY <1>2, <2>3, <3>1, <3>2 DEF PutUnref, Fed
    <3>3. CASE PutShown
      <4>1. own_route /\ mpp' = mpp \cup {[tok |-> cur.tok, pic |-> cur.pic]}
        BY <1>2, <2>1, <3>3 DEF PutShown, Put, Kinded
      <4>2. \A p \in mpp : p.tok # cur.tok
        BY <1>2, <1>5, <2>1
      <4>3. \A p, q \in mpp' : p.tok = q.tok => p = q
        BY <1>2, <4>1, <4>2
      <4>4. \A p \in mpp' : \E r \in RoutesOf : r.tok = p.tok
        BY <1>2, <4>1 DEF Routed
      <4> QED
        BY <1>2, <2>3, <3>1, <4>3, <4>4 DEF Fed
    <3> QED
      BY <2>3, <3>2, <3>3
  <2> QED
    BY <1>1, <1>13, <2>2, <2>3, PutCases DEF PutOwn, PutPaired, PutReplaced,
         PutUnroutable
<1>14. CASE put_failed
  <2>1. /\ cur' = NoPicture /\ mpp' = mpp
        /\ generic' = generic_route_remove(cur.tok)
    BY <1>14 DEF put_failed, mppVars
  <2>2. cur # NoPicture /\ cur.tok \in Nat
    BY <1>14, AtWork, NoPictureFacts DEF put_failed, Pushing, Pictures
  <2>3. Rising(generic')
    BY <1>1, <1>2, <2>1, Removed
  <2>4. \A r \in RoutesOf : r.tok = cur.tok \/ r \in RoutesOf'
    BY <1>1, <1>14, RouteMoves
  <2>5. \A p \in mpp : p.tok # cur.tok
    BY <1>2, <1>5, <2>2
  <2>6. \A p \in mpp : \E r \in RoutesOf' : r.tok = p.tok
    BY <1>2, <2>4, <2>5
  <2> QED
    BY <1>2, <2>1, <2>3, <2>6 DEF Fed
<1>15. ASSUME NEW frame \in Packets, Drains(frame)
       PROVE  Fed'
  <2>1. cur' = cur /\ mpp' \subseteq mpp
    BY <1>1, <1>15, DrainCases
  <2>2. CASE UNCHANGED <<h264_routes, generic, own_route>>
    BY <1>3, <2>1, <2>2
  <2>3. ASSUME NEW r \in RoutesOf, Consumes(r, frame)
        PROVE  Fed'
    <3>1. /\ own_route' <=> own_route
          /\ \A p \in mpp' : r.tok < p.tok
          /\ Rising(generic')
      BY <1>15, <2>3, FedDrain
    <3>2. /\ RoutesOf' \subseteq RoutesOf
          /\ RoutesOf \subseteq RoutesOf' \cup {r}
      BY <1>1, <2>3, RouteMoves
    <3>3. \A p \in mpp' : \E q \in RoutesOf' : q.tok = p.tok
      <4> SUFFICES ASSUME NEW p \in mpp'
                   PROVE  \E q \in RoutesOf' : q.tok = p.tok
        OBVIOUS
      <4>1. PICK q \in RoutesOf : q.tok = p.tok
        BY <1>2, <2>1
      <4>2. q # r
        BY <1>5, <2>1, <3>1, <4>1
      <4> QED
        BY <3>2, <4>1, <4>2
    <3> QED
      BY <1>2, <2>1, <3>1, <3>2, <3>3 DEF Fed
  <2> QED
    BY <1>1, <1>15, <2>2, <2>3, DrainCases
<1>16. CASE assign_bind \/ assign_reject
  BY <1>3, <1>16, AssignCases
<1>17. CASE stall_timeout
  BY <1>17 DEF stall_timeout, Answers
<1>18. ASSUME NEW packet \in mpp, mpp_lose(packet)
       PROVE  Fed'
  BY <1>3, <1>18 DEF mpp_lose, submitVars, routeVars
<1> QED
  BY <1>1, <1>6, <1>7, <1>8, <1>9, <1>9f, <1>10, <1>11, <1>12, <1>13, <1>14,
     <1>15, <1>16, <1>17, <1>18, StepCases

(* The numbers that Balanced adds up.                                      *)
LEMMA CountTypes ==
  ASSUME Base
  PROVE  /\ outstanding \in Nat /\ Cardinality(h264_routes) \in Nat
         /\ Len(generic) \in Nat
         /\ own_route => Count(own_route) = 1
         /\ ~own_route => Count(own_route) = 0
         /\ pc = "assign" => Count(pc = "assign") = 1
         /\ pc # "assign" => Count(pc = "assign") = 0
         /\ Cardinality({}) = 0 /\ Len(<<>>) = 0
<1>1. outstanding \in Nat /\ generic \in Seq(Pictures)
  BY DEF Base, TypeOK
<1>2. Cardinality(h264_routes) \in Nat
  BY FS_CardinalityType DEF Base, Phased
<1>3. Cardinality({}) = 0
  BY FS_EmptySet
<1> QED
  BY <1>1, <1>2, <1>3 DEF Count

(* The route the job being pushed added is among the routes.               *)
LEMMA OwnIsCounted ==
  ASSUME Base, Routed, own_route
  PROVE  Cardinality(h264_routes) + Len(generic) >= 1
<1>1. PICK r \in RoutesOf : r.tok = cur.tok
  BY DEF Routed
<1>2. /\ Cardinality(h264_routes) \in Nat /\ Len(generic) \in Nat
      /\ generic \in Seq(Pictures)
  BY CountTypes DEF Base, TypeOK
<1>3. CASE r \in h264_routes
  <2>1. Cardinality(h264_routes) # 0
    BY <1>3, FS_EmptySet DEF Base, Phased
  <2> QED
    BY <1>2, <2>1
<1>4. CASE r \in Entries(generic)
  <2>1. Len(generic) >= 1
    BY <1>2, <1>4 DEF Entries
  <2> QED
    BY <1>2, <2>1
<1> QED
  BY <1>3, <1>4, AsEntries

(* A consumed route was counted once.                                      *)
LEMMA ConsumedIsCounted ==
  ASSUME Base, Routed, NEW frame, NEW r \in RoutesOf, Consumes(r, frame)
  PROVE  Cardinality(h264_routes') + Len(generic')
           = Cardinality(h264_routes) + Len(generic) - 1
<1>1. /\ IsFiniteSet(h264_routes) /\ generic \in Seq(Pictures)
      /\ Cardinality(h264_routes) \in Nat /\ Len(generic) \in Nat
  BY CountTypes DEF Base, Phased, TypeOK
<1>2. CASE coding # "VP9"
  <2>1. /\ r \in h264_routes /\ h264_routes' = h264_routes \ {r}
        /\ generic' = generic
    BY <1>2 DEF Consumes
  <2>2. Cardinality(h264_routes \ {r}) = Cardinality(h264_routes) - 1
    BY <1>1, <2>1, FS_RemoveElement
  <2> QED
    BY <1>1, <2>1, <2>2
<1>3. CASE coding = "VP9"
  <2>1. h264_routes = {} /\ h264_routes' = h264_routes
    BY <1>3 DEF Consumes, Routed
  <2>2. generic # <<>> /\ generic' = Tail(generic)
    BY <1>3 DEF Consumes
  <2>3. Len(generic') = Len(generic) - 1
    BY <1>1, <2>2, Oldest
  <2> QED
    BY <1>1, <2>1, <2>3
<1> QED
  BY <1>2, <1>3

(* Every step keeps the count.                                             *)
LEMMA BalanceKept ==
  ASSUME Answers, Base, Numbered, Routed, Kinded, Fed, Balanced,
         Base', Routed', [Next]_vars
  PROVE  Balanced'
<1>1. TypeOK /\ coding' = coding /\ coding \in {"AVC", "HEVC", "VP9"}
  BY StepCases, CodecFacts DEF Base
<1>2. /\ outstanding \in Nat /\ Cardinality(h264_routes) \in Nat
      /\ Len(generic) \in Nat /\ own_route \in BOOLEAN
      /\ Cardinality({}) = 0 /\ Len(<<>>) = 0
  BY CountTypes DEF Base, TypeOK
<1>3. ~freed_twice /\ outstanding + Count(own_route)
        = Cardinality(h264_routes) + Len(generic) + Count(pc = "assign")
  BY DEF Balanced
<1>4. ASSUME UNCHANGED <<h264_routes, generic, own_route, outstanding,
                         freed_twice>>,
             pc' = "assign" <=> pc = "assign"
      PROVE  Balanced'
  BY <1>3, <1>4 DEF Balanced, Count
<1>5. pc \notin {"put", "assign"} => cur = NoPicture /\ own_route = FALSE
  BY DEF Base, Phased, Pushing, TypeOK
<1>6. CASE Quiet
  BY <1>4, <1>6 DEF Quiet, submitVars, routeVars
<1>7. ASSUME NEW s \in Surfaces, NEW second \in BOOLEAN,
             rk_BeginPicture(s, second)
      PROVE  Balanced'
  BY <1>4, <1>7 DEF rk_BeginPicture, submitVars, routeVars
<1>8. ASSUME NEW kind, end_build(kind)
      PROVE  Balanced'
  BY <1>4, <1>8 DEF end_build, submitVars, routeVars
<1>9. CASE end_failed
  BY <1>4, <1>9 DEF end_failed, submitVars, routeVars
<1>9f. ASSUME NEW j \in built, rk_mpp_dec_fail_surface(j)
       PROVE  Balanced'
  BY <1>4, <1>9f
     DEF rk_mpp_dec_fail_surface, submitVars, routeVars
<1>10. ASSUME NEW j \in built, rk_mpp_dec_enqueue_job(j)
       PROVE  Balanced'
  BY <1>4, <1>10 DEF rk_mpp_dec_enqueue_job, submitVars, routeVars
<1>11. CASE stop_joined
  <2>1. /\ pc = "exited" /\ pc' = pc /\ h264_routes' = {} /\ generic' = <<>>
        /\ outstanding' = 0 /\ own_route' = own_route
        /\ freed_twice' = freed_twice
    BY <1>11 DEF stop_joined, submitVars
  <2> QED
    BY <1>2, <1>3, <1>5, <2>1 DEF Balanced, Count
<1>12. CASE take_job
  <2>1. /\ jobs # <<>> /\ Head(jobs) \in Pictures /\ pc = "loop"
        /\ own_route = FALSE /\ UNCHANGED <<freed_twice, outstanding>>
    BY <1>1, <1>5, <1>12, TakeCases DEF take_job
  <2>2. \A r \in RoutesOf : r.tok < Head(jobs).tok /\ r.tok \in Nat
    BY <1>1, <2>1, TakenIsNew
  <2>3. Head(jobs) \notin h264_routes
    BY <2>2 DEF RoutesOf
  <2>4. ASSUME own_route' = FALSE, pc' # "assign",
               UNCHANGED <<h264_routes, generic>>
        PROVE  Balanced'
    BY <1>3, <2>1, <2>4 DEF Balanced, Count
  <2>5. CASE TakeRouted(Head(jobs))
    <3>1. Cardinality(h264_routes') + Len(generic')
            = Cardinality(h264_routes) + Len(generic) + 1
      <4>1. CASE coding # "VP9"
        <5>1. h264_routes' = h264_routes \cup {Head(jobs)}
              /\ generic' = generic
          BY <2>5, <4>1 DEF TakeRouted
        <5>2. Cardinality(h264_routes \cup {Head(jobs)})
                = Cardinality(h264_routes) + 1
          BY <2>3, FS_AddElement DEF Base, Phased
        <5> QED
          BY <1>2, <5>1, <5>2
      <4>2. CASE coding = "VP9"
        <5>1. h264_routes' = h264_routes
              /\ generic' = Append(generic, Head(jobs))
          BY <2>5, <4>2 DEF TakeRouted
        <5>2. generic \in Seq(Pictures)
          BY <1>1 DEF TypeOK
        <5>3. Len(generic') = Len(generic) + 1
          BY <2>1, <5>1, <5>2, Newest
        <5> QED
          BY <1>2, <5>1, <5>3
      <4> QED
        BY <4>1, <4>2
    <3>2. own_route' = TRUE /\ pc' = "put"
      BY <2>5 DEF TakeRouted
    <3>3. Count(own_route)' = 1 /\ Count(own_route) = 0
          /\ Count(pc = "assign") = 0 /\ Count(pc = "assign")' = 0
      BY <2>1, <3>2 DEF Count
    <3>4. outstanding + 1 = Cardinality(h264_routes) + Len(generic) + 1
      BY <1>2, <1>3, <3>3
    <3>5. (outstanding + Count(own_route)
             = Cardinality(h264_routes) + Len(generic) + Count(pc = "assign"))'
      BY <1>2, <2>1, <3>1, <3>3, <3>4
    <3> QED
      BY <1>3, <2>1, <3>5 DEF Balanced
  <2> QED
    BY <1>1, <1>12, <2>1, <2>4, <2>5, TakeCases DEF TakePaired, TakeEmpty,
         TakeHidden
<1>13. CASE put_accepted
  <2>1. cur \in Pictures /\ cur # NoPicture /\ pc = "put"
        /\ freed_twice' = freed_twice /\ Count(pc = "assign") = 0
    BY <1>13, AtWork, NoPictureFacts DEF put_accepted, Pushing, Count
  <2>2. CASE PutAltref
    <3>1. /\ ~own_route /\ own_route' = TRUE /\ pc' = "put"
          /\ UNCHANGED <<outstanding, h264_routes>>
          /\ generic' = Append(generic, cur') /\ cur' \in Pictures
      BY <2>1, <2>2 DEF PutAltref, Fed, Pictures
    <3>2. Len(generic') = Len(generic) + 1
      <4>1. generic \in Seq(Pictures)
        BY <1>1 DEF TypeOK
      <4>2. \A e \in Pictures : Len(Append(generic, e)) = Len(generic) + 1
        BY <4>1, Newest
      <4> QED
        BY <3>1, <4>2
    <3>3. Count(own_route)' = 1 /\ Count(own_route) = 0
          /\ Count(pc = "assign")' = 0
      BY <3>1 DEF Count
    <3>4. (outstanding + Count(own_route)
             = Cardinality(h264_routes) + Len(generic) + Count(pc = "assign"))'
      BY <1>2, <1>3, <2>1, <3>1, <3>2, <3>3
    <3> QED
      BY <1>3, <2>1, <3>4 DEF Balanced
  <2>3. ASSUME pc' \in {"loop", "after"}, own_route' = FALSE,
               generic' = generic,
               \/ PutOwn \/ PutPaired \/ PutReplaced \/ PutUnroutable
               \/ (PutUnref \/ PutShown) /\ h264_routes' = h264_routes
        PROVE  Balanced'
    <3>1. Count(own_route)' = 0 /\ Count(pc = "assign")' = 0
      BY <2>3 DEF Count
    <3>2. ASSUME outstanding' = Cardinality(h264_routes') + Len(generic)
          PROVE  Balanced'
      <4>1. (outstanding + Count(own_route)
             = Cardinality(h264_routes) + Len(generic) + Count(pc = "assign"))'
        BY <1>2, <2>3, <3>1, <3>2, CountTypes
      <4> QED
        BY <1>3, <2>1, <4>1 DEF Balanced
    <3>3. /\ own_route => outstanding + 1
                            = Cardinality(h264_routes) + Len(generic)
          /\ ~own_route => outstanding
                            = Cardinality(h264_routes) + Len(generic)
      BY <1>2, <1>3, <2>1 DEF Count
    <3>4. CASE PutOwn \/ (PutShown /\ h264_routes' = h264_routes)
      <4>1. /\ own_route /\ outstanding' = outstanding + 1
            /\ h264_routes' = h264_routes
        BY <2>1, <3>4 DEF PutOwn, PutShown, Routed, Fed, Kinded
      <4> QED
        BY <3>2, <3>3, <4>1
    <3>5. CASE PutPaired \/ PutUnroutable
               \/ (PutUnref /\ h264_routes' = h264_routes)
      <4>1. /\ ~own_route /\ outstanding' = outstanding
            /\ h264_routes' = h264_routes
        BY <2>1, <3>5 DEF PutPaired, PutUnroutable, PutUnref, Routed, Fed,
             Kinded
      <4> QED
        BY <3>2, <3>3, <4>1
    <3>6. CASE PutReplaced
      <4>1. /\ ~own_route /\ outstanding' = outstanding + 1
            /\ h264_routes' = h264_routes \cup {cur} /\ cur \notin h264_routes
        BY <2>1, <3>6 DEF PutReplaced, Routed, RoutesFor
      <4>2. Cardinality(h264_routes \cup {cur}) = Cardinality(h264_routes) + 1
        BY <4>1, FS_AddElement DEF Base, Phased
      <4> QED
        BY <1>2, <3>2, <3>3, <4>1, <4>2
    <3> QED
      BY <2>3, <3>4, <3>5, <3>6
  <2> QED
    BY <1>1, <1>13, <2>2, <2>3, PutCases
<1>14. CASE put_failed
  <2> DEFINE mine == {r \in h264_routes : r.tok = cur.tok}
  <2>1. /\ cur # NoPicture /\ pc = "put" /\ pc' = "loop"
        /\ own_route' = FALSE /\ Count(pc = "assign") = 0
    BY <1>14, AtWork, NoPictureFacts DEF put_failed, Pushing, Count
  <2>2. /\ h264_routes' = h264_routes \ mine
        /\ outstanding' = IF codec_uses_token_routes /\ ~new_route
                             /\ mine # {}
                            THEN MinusOne(outstanding) ELSE outstanding
        /\ generic' = generic_route_remove(cur.tok)
        /\ freed_twice' = (freed_twice \/ (~codec_uses_token_routes
                             /\ ~own_route /\ cur.kind \in {"frame", "repeat"}))
    BY <1>14 DEF put_failed, route_token
  <2>3. codec_uses_token_routes <=> coding # "VP9"
    BY <1>1, CodecFacts
  <2>4. ~freed_twice'
    BY <1>3, <2>1, <2>2, <2>3 DEF Fed
  <2> HIDE DEF mine
  <2>5. Count(own_route)' = 0 /\ Count(pc = "assign")' = 0
    BY <2>1 DEF Count
  <2>6. ASSUME outstanding' = Cardinality(h264_routes') + Len(generic')
        PROVE  Balanced'
    <3>1. Cardinality(h264_routes') \in Nat /\ Len(generic') \in Nat
          /\ outstanding' \in Nat
      <4>1. IsFiniteSet(h264_routes') /\ generic' \in Seq(Pictures)
            /\ outstanding' \in Nat
        BY DEF Base, Phased, TypeOK
      <4> QED
        BY <4>1, FS_CardinalityType
    <3>2. (outstanding + Count(own_route)
             = Cardinality(h264_routes) + Len(generic) + Count(pc = "assign"))'
      BY <2>5, <2>6, <3>1
    <3> QED
      BY <2>4, <3>2 DEF Balanced
  <2>7. /\ own_route => outstanding + 1
                          = Cardinality(h264_routes) + Len(generic)
        /\ ~own_route => outstanding
                          = Cardinality(h264_routes) + Len(generic)
    BY <1>2, <1>3, <2>1 DEF Count
  <2>8. CASE coding = "VP9"
    <3>1. h264_routes = {} /\ h264_routes' = {} /\ outstanding' = outstanding
          /\ RoutesOf = Entries(generic)
      BY <2>2, <2>3, <2>8, AsEntries DEF Routed
    <3>2. CASE own_route
      <4>1. Len(generic') = Len(generic) - 1
        BY <1>1, <2>2, <3>1, <3>2, Removed DEF Routed
      <4> QED
        BY <1>2, <2>6, <2>7, <3>1, <3>2, <4>1
    <3>3. CASE ~own_route
      <4>1. generic' = generic
        BY <1>1, <2>1, <2>2, <2>8, <3>1, <3>3, Removed DEF Fed
      <4> QED
        BY <1>2, <2>6, <2>7, <3>1, <3>3, <4>1
    <3> QED
      BY <3>2, <3>3
  <2>9. CASE coding # "VP9"
    <3>1. generic = <<>> /\ generic' = <<>>
      BY <1>1, <2>9 DEF Routed
    <3>2. own_route <=> new_route
      BY <2>1, <2>9 DEF Routed
    <3>3. CASE mine = {}
      <4>1. h264_routes' = h264_routes /\ outstanding' = outstanding
        BY <2>2, <3>3
      <4>2. ~own_route
        BY <3>1, <3>3 DEF Routed, RoutesOf, mine
      <4> QED
        BY <2>6, <2>7, <3>1, <4>1, <4>2
    <3>4. CASE mine # {}
      <4>1. PICK r \in h264_routes : r.tok = cur.tok
        BY <3>4 DEF mine
      <4>2. mine = {r}
        BY <4>1 DEF mine, Routed
      <4>3. Cardinality(h264_routes \ {r}) = Cardinality(h264_routes) - 1
        BY <4>1, FS_RemoveElement DEF Base, Phased
      <4>4. Cardinality(h264_routes) # 0
        BY <4>1, FS_EmptySet DEF Base, Phased
      <4>5. own_route => outstanding' = outstanding
        BY <2>2, <3>2
      <4>6. ~own_route => outstanding' = MinusOne(outstanding)
        BY <2>2, <2>3, <2>9, <3>2, <3>4
      <4> QED
        BY <1>2, <2>2, <2>6, <2>7, <3>1, <4>2, <4>3, <4>4, <4>5, <4>6
           DEF MinusOne
    <3> QED
      BY <3>3, <3>4
  <2> QED
    BY <2>8, <2>9
<1>15. ASSUME NEW frame \in Packets, Drains(frame)
       PROVE  Balanced'
  <2>1. /\ pc \in {"loop", "put", "after", "eos"} /\ freed_twice' = freed_twice
        /\ ReturnTo # "assign" /\ Count(pc = "assign") = 0
    BY <1>1, <1>15, DrainCases DEF ReturnTo, Count
  <2>2. CASE pc' = ReturnTo /\ UNCHANGED <<h264_routes, generic, outstanding,
                                           own_route>>
    BY <1>4, <2>1, <2>2
  <2>3. ASSUME NEW r \in RoutesOf, Consumes(r, frame)
        PROVE  Balanced'
    <3>1. own_route' <=> own_route
      <4>1. CASE coding = "VP9"
        BY <1>15, <2>3, <4>1, FedDrain
      <4>2. CASE coding # "VP9"
        <5>1. (own_route' <=> own_route /\ r.tok # cur.tok)
              /\ r.tok = frame.tok
          BY <2>3, <4>2 DEF Consumes
        <5>2. own_route => ~mpp_eos
          BY DEF Base, Phased
        <5> QED
          BY <1>15, <4>2, <5>1, <5>2 DEF Drains, Routed
      <4> QED
        BY <4>1, <4>2
    <3>2. Cardinality(h264_routes') + Len(generic')
            = Cardinality(h264_routes) + Len(generic) - 1
      BY <2>3, ConsumedIsCounted
    <3>3. Cardinality(h264_routes') \in Nat /\ Len(generic') \in Nat
      <4>1. IsFiniteSet(h264_routes') /\ generic' \in Seq(Pictures)
        BY DEF Base, Phased, TypeOK
      <4> QED
        BY <4>1, FS_CardinalityType
    <3>4. own_route => Cardinality(h264_routes') + Len(generic') >= 1
      <4> SUFFICES ASSUME own_route'
                   PROVE  Cardinality(h264_routes') + Len(generic') >= 1
        BY <3>1
      <4>1. PICK q \in RoutesOf' : q.tok = cur'.tok
        BY DEF Routed
      <4>2. CASE q \in h264_routes'
        <5>1. Cardinality(h264_routes') # 0
          BY <4>2, FS_EmptySet DEF Base, Phased
        <5> QED
          BY <3>3, <5>1
      <4>3. CASE q \in Entries(generic')
        <5>1. generic' \in Seq(Pictures)
          BY DEF Base, TypeOK
        <5>2. Len(generic') >= 1
          BY <4>3, <5>1 DEF Entries
        <5> QED
          BY <3>3, <5>2
      <4> QED
        BY <4>1, <4>2, <4>3, AsEntries
    <3>5. /\ own_route => Count(own_route) = 1 /\ Count(own_route)' = 1
          /\ ~own_route => Count(own_route) = 0 /\ Count(own_route)' = 0
      BY <3>1 DEF Count
    <3>6. CASE Dropped(r)
      <4>1. /\ outstanding' = MinusOne(outstanding)
            /\ Count(pc = "assign")' = 0
        BY <2>1, <3>6 DEF Dropped, Count
      <4>2. outstanding >= 1
        BY <1>2, <1>3, <2>1, <3>2, <3>3, <3>4, <3>5
      <4>3. outstanding' = outstanding - 1
        BY <1>2, <4>1, <4>2 DEF MinusOne
      <4>4. (outstanding + Count(own_route)
             = Cardinality(h264_routes) + Len(generic) + Count(pc = "assign"))'
        BY <1>2, <1>3, <2>1, <3>2, <3>3, <3>5, <4>1, <4>3
      <4> QED
        BY <1>3, <2>1, <4>4 DEF Balanced
    <3>7. CASE Assigning(r, frame)
      <4>1. outstanding' = outstanding /\ Count(pc = "assign")' = 1
        BY <3>7 DEF Assigning, Count
      <4>2. (outstanding + Count(own_route)
             = Cardinality(h264_routes) + Len(generic) + Count(pc = "assign"))'
        BY <1>2, <1>3, <2>1, <3>2, <3>3, <3>5, <4>1
      <4> QED
        BY <1>3, <2>1, <4>2 DEF Balanced
    <3> QED
      BY <2>3, <3>6, <3>7 DEF Consumes
  <2> QED
    BY <1>1, <1>15, <2>2, <2>3, DrainCases
<1>16. CASE assign_bind \/ assign_reject
  <2>1. /\ UNCHANGED <<own_route, freed_twice, h264_routes, generic>>
        /\ pc = "assign" /\ pc' = back
        /\ outstanding' = MinusOne(outstanding)
    BY <1>16, AssignCases
  <2>2. /\ Count(pc = "assign") = 1 /\ Count(pc = "assign")' = 0
        /\ Count(own_route)' = Count(own_route)
    BY <1>1, <2>1 DEF Count, TypeOK
  <2>3. own_route => Cardinality(h264_routes) + Len(generic) >= 1
    BY OwnIsCounted
  <2>4. outstanding >= 1
    BY <1>2, <1>3, <2>2, <2>3 DEF Count
  <2>5. outstanding' = outstanding - 1
    BY <1>2, <2>1, <2>4 DEF MinusOne
  <2>6. Count(own_route) \in Nat
    BY DEF Count
  <2>7. (outstanding + Count(own_route)
         = Cardinality(h264_routes) + Len(generic) + Count(pc = "assign"))'
    BY <1>2, <1>3, <2>1, <2>2, <2>5, <2>6
  <2> QED
    BY <1>3, <2>1, <2>7 DEF Balanced
<1>17. CASE stall_timeout
  <2>1. /\ pc = "loop" /\ pc' = pc /\ h264_routes' = {} /\ generic' = <<>>
        /\ outstanding' = 0 /\ own_route' = own_route
        /\ freed_twice' = freed_twice
    BY <1>17 DEF stall_timeout, OutputTimesOut, submitVars
  <2> QED
    BY <1>2, <1>3, <1>5, <2>1 DEF Balanced, Count
<1>18. ASSUME NEW packet \in mpp, mpp_lose(packet)
       PROVE  Balanced'
  BY <1>4, <1>18 DEF mpp_lose, submitVars, routeVars
<1> QED
  BY <1>1, <1>6, <1>7, <1>8, <1>9, <1>9f, <1>10, <1>11, <1>12, <1>13, <1>14,
     <1>15, <1>16, <1>17, <1>18, StepCases

(* The count holds throughout if MPP answers a VP9 context before the      *)
(* stall timer.                                                            *)
THEOREM CountInvariant ==
  ASSUME Answers
  PROVE  Spec => [](FenceInv /\ Fed /\ Balanced)
<1>1. Init => FenceInv /\ Fed /\ Balanced
  <2> SUFFICES ASSUME Init PROVE FenceInv /\ Fed /\ Balanced
    OBVIOUS
  <2>1. FenceInv /\ Base
    BY FenceInit DEF FenceInv
  <2>2. /\ generic = <<>> /\ mpp = {} /\ cur = NoPicture /\ h264_routes = {}
        /\ outstanding = 0 /\ own_route = FALSE /\ pc = "loop"
        /\ freed_twice = FALSE
    BY DEF Init
  <2>3. Cardinality({}) = 0 /\ Len(<<>>) = 0
    BY <2>1, CountTypes
  <2> QED
    BY <2>1, <2>2, <2>3 DEF Fed, Rising, Balanced, Count
<1>2. FenceInv /\ Fed /\ Balanced /\ [Next]_vars /\ FenceInv'
        => (Fed /\ Balanced)'
  BY FedKept, BalanceKept DEF FenceInv
<1> QED
  BY FenceInvariant, <1>1, <1>2, PTL DEF Spec

(* outstanding_frames equals the number of routes whenever the worker is   *)
(* in its loop, and no route is destroyed twice, for any number of         *)
(* surfaces, pictures, rejected packets and frames consumed meanwhile.     *)
THEOREM RoutesAreCounted ==
  ASSUME "VP9" \notin MppStalls
  PROVE  Spec => []RoutesCounted
<1>1. Answers
  BY DEF Answers
<1>2. FenceInv /\ Fed /\ Balanced => RoutesCounted
  <2> SUFFICES ASSUME FenceInv, Balanced PROVE RoutesCounted
    OBVIOUS
  <2>1. Base
    BY DEF FenceInv
  <2>2. ASSUME pc \in {"loop", "after", "eos"}
        PROVE  outstanding = Cardinality(h264_routes) + Len(generic)
    <3>1. ~own_route
      BY <2>1, <2>2 DEF Base, Phased, Pushing
    <3>2. outstanding + 0 = Cardinality(h264_routes) + Len(generic) + 0
      BY <2>2, <3>1 DEF Balanced, Count
    <3> QED
      BY <2>1, <3>2, CountTypes
  <2> QED
    BY <2>2 DEF RoutesCounted, Balanced
<1> QED
  BY <1>1, <1>2, CountInvariant, PTL

-----------------------------------------------------------------------------
(***************************************************************************)
(* The right picture.  A VP9 frame is matched to a route only by its place *)
(* in the FIFO, so this part also needs MPP to return a frame for every    *)
(* VP9 packet; and since BeginPicture takes any picture begun behind a     *)
(* pending field for its second field, an H.264 application must wait for  *)
(* a surface's verdict before it begins another picture there.             *)
(***************************************************************************)
Orderly == "VP9" \notin MppLoses \cup MppStalls /\ "AVC" \notin ReuseInFlight

Stale(j) == fence[j.surf] # j.fence

(* A VP9 route waits for a packet inside MPP, or for the one being pushed. *)
InStep ==
  coding = "VP9" => \A r \in RoutesOf : \/ own_route /\ r.tok = cur.tok
                                        \/ \E p \in mpp : p.tok = r.tok

(* A packet holds the picture of the route with its token.                 *)
Matched ==
  /\ \A p \in mpp, r \in RoutesOf : p.tok = r.tok => Stale(r) \/ p.pic = r.pic
  /\ cur # NoPicture =>
       \A p \in mpp : p.tok = cur.tok => Stale(cur) \/ p.pic = cur.pic

(* What carries a surface's current fence carries the picture last begun   *)
(* there, and no other picture is in its frame or on the way there.        *)
Wanted ==
  /\ \A j \in Carriers : j # NoPicture => Stale(j) \/ j.pic = want[j.surf]
  /\ \A s \in Surfaces : bound[s] \in {0, want[s]}
  /\ pc = "assign" => Stale(asg.route) \/ asg.frame.pic \in {0, asg.route.pic}

(* Fences only move forward: a stale job or route never becomes current.   *)
LEMMA StaleStays ==
  ASSUME Base, Behind, [Next]_vars, NEW j \in Carriers, j # NoPicture, Stale(j)
  PROVE  fence'[j.surf] # j.fence
<1>1. CASE fence' = fence
  BY <1>1 DEF Stale
<1>2. ASSUME NEW s \in Surfaces, NEW second \in BOOLEAN,
             rk_BeginPicture(s, second)
      PROVE  fence'[j.surf] # j.fence
  <2>1. TypeOK /\ j \in Pictures
    BY CarrierTypes DEF Base
  <2>2. j.surf \in Surfaces /\ j.fence \in Nat /\ fence[j.surf] \in Nat
    BY <2>1 DEF TypeOK, Pictures
  <2>3. j.fence <= fence[j.surf] /\ j.fence # fence[j.surf]
    BY DEF Behind, Stale
  <2>4. fence'[j.surf] \in {fence[j.surf], fence[j.surf] + 1}
    BY <1>2, <2>1, <2>2, BeginFence
  <2> QED
    BY <2>2, <2>3, <2>4
<1> QED
  BY <1>1, <1>2, Lineage

(* Apart from BeginPicture, only assign_mpp_frame changes what a surface   *)
(* shows, and nothing changes what is asked for.                           *)
LEMMA AppStays ==
  ASSUME Base, [Next]_vars,
         ~\E s \in Surfaces, second \in BOOLEAN : rk_BeginPicture(s, second)
  PROVE  /\ want' = want /\ fence' = fence /\ begins' = begins
         /\ bound' = bound \/ assign_bind \/ assign_reject
<1>1. TypeOK /\ fence' = fence
  BY Lineage DEF Base
<1>2. CASE Quiet
  BY <1>1, <1>2 DEF Quiet, surfVars, appVars
<1>3. ASSUME NEW kind, end_build(kind)
      PROVE  want' = want /\ bound' = bound /\ begins' = begins
  BY <1>3 DEF end_build
<1>4. CASE end_failed
  BY <1>1, <1>4 DEF end_failed, surfVars, appVars
<1>4f. ASSUME NEW j \in built, rk_mpp_dec_fail_surface(j)
       PROVE  want' = want /\ bound' = bound /\ begins' = begins
  BY <1>1, <1>4f
     DEF rk_mpp_dec_fail_surface, appVars
<1>5. ASSUME NEW j \in built, rk_mpp_dec_enqueue_job(j)
      PROVE  want' = want /\ bound' = bound /\ begins' = begins
  BY <1>5 DEF rk_mpp_dec_enqueue_job, surfVars, appVars
<1>6. CASE stop_joined \/ take_job
  BY <1>1, <1>6 DEF stop_joined, take_job, appVars
<1>7. CASE put_accepted \/ put_failed
  BY <1>1, <1>7 DEF put_accepted, put_failed, appVars
<1>8. ASSUME NEW frame \in Packets, Drains(frame)
      PROVE  want' = want /\ bound' = bound /\ begins' = begins
  BY <1>1, <1>8, DrainCases
<1>9. CASE assign_bind \/ assign_reject
  BY <1>1, <1>9, AssignCases
<1>10. CASE stall_timeout
  BY <1>1, <1>10 DEF stall_timeout, appVars
<1>11. ASSUME NEW packet \in mpp, mpp_lose(packet)
       PROVE  want' = want /\ bound' = bound /\ begins' = begins
  BY <1>11 DEF mpp_lose, surfVars, appVars
<1> QED
  BY <1>1, <1>2, <1>3, <1>4, <1>4f, <1>5, <1>6, <1>7, <1>8, <1>9, <1>10,
     <1>11, StepCases

(* A VP9 frame meets the route of its own packet.                          *)
LEMMA FrameInStep ==
  ASSUME Base, Routed, Fed, InStep, coding = "VP9", NEW frame \in Packets,
         Drains(frame), NEW r \in RoutesOf, Consumes(r, frame)
  PROVE  frame \in mpp /\ mpp' = mpp \ {frame} /\ r.tok = frame.tok
<1>1. /\ \A q \in RoutesOf : r.tok <= q.tok
      /\ cur # NoPicture => r.tok < cur.tok
  BY FedDrain
<1>2. TypeOK /\ (own_route => cur # NoPicture)
  BY DEF Base, Phased
<1>3. /\ r.tok \in Nat /\ \A p \in mpp : p.tok \in Nat
      /\ cur # NoPicture => cur.tok \in Nat
  BY <1>2, CarrierTypes DEF TypeOK, Packets, Pictures
<1>4. PICK p \in mpp : p.tok = r.tok
  BY <1>1, <1>2, <1>3 DEF InStep
<1>5. /\ frame \in mpp /\ mpp' = mpp \ {frame} /\ Deliverable(frame)
  BY <1>4 DEF Drains
<1>6. frame.tok <= r.tok
  BY <1>2, <1>4, <1>5, CodecFacts DEF Deliverable
<1>7. r.tok <= frame.tok
  BY <1>1, <1>5 DEF Fed
<1> QED
  BY <1>3, <1>5, <1>6, <1>7

(* Every step keeps VP9 routes and packets in step.                        *)
LEMMA InStepKept ==
  ASSUME Orderly, Base, Numbered, Routed, Kinded, Fed, InStep, [Next]_vars
  PROVE  InStep'
<1>1. TypeOK /\ coding' = coding
  BY StepCases DEF Base
<1> SUFFICES ASSUME coding = "VP9"
             PROVE  InStep'
  BY <1>1 DEF InStep
<1>2. \A r \in RoutesOf : \/ own_route /\ r.tok = cur.tok
                          \/ \E p \in mpp : p.tok = r.tok
  BY DEF InStep
<1>3. ASSUME UNCHANGED <<h264_routes, generic, cur, own_route, mpp>>
      PROVE  InStep'
  <2>1. RoutesOf' = RoutesOf
    BY <1>3 DEF RoutesOf
  <2> QED
    BY <1>2, <1>3, <2>1 DEF InStep
<1>4. pc \notin {"put", "assign"} => cur = NoPicture /\ own_route = FALSE
  BY DEF Base, Phased, Pushing, TypeOK
<1>5. CASE Quiet
  BY <1>3, <1>5 DEF Quiet, submitVars, routeVars
<1>6. ASSUME NEW s \in Surfaces, NEW second \in BOOLEAN,
             rk_BeginPicture(s, second)
      PROVE  InStep'
  BY <1>3, <1>6 DEF rk_BeginPicture, submitVars, routeVars, mppVars
<1>7. ASSUME NEW kind, end_build(kind)
      PROVE  InStep'
  BY <1>3, <1>7 DEF end_build, submitVars, routeVars, mppVars
<1>8. CASE end_failed
  BY <1>3, <1>8 DEF end_failed, submitVars, routeVars, mppVars
<1>8f. ASSUME NEW j \in built, rk_mpp_dec_fail_surface(j)
       PROVE  InStep'
  BY <1>3, <1>8f
     DEF rk_mpp_dec_fail_surface, submitVars, routeVars, mppVars
<1>9. ASSUME NEW j \in built, rk_mpp_dec_enqueue_job(j)
      PROVE  InStep'
  BY <1>3, <1>9 DEF rk_mpp_dec_enqueue_job, submitVars, routeVars, mppVars
<1>10. CASE stop_joined
  <2>1. RoutesOf' = {}
    BY <1>10 DEF stop_joined, RoutesOf
  <2> QED
    BY <2>1 DEF InStep
<1>11. CASE take_job
  <2>1. /\ mpp' = mpp /\ own_route = FALSE /\ Head(jobs) \in Pictures
    BY <1>1, <1>4, <1>11, TakeCases DEF take_job, mppVars
  <2>2. \A r \in RoutesOf : \E p \in mpp : p.tok = r.tok
    BY <1>2, <2>1
  <2>3. CASE TakeRouted(Head(jobs))
    <3>1. /\ RoutesOf' = RoutesOf \cup {Head(jobs)} /\ cur' = Head(jobs)
          /\ own_route' = TRUE
      BY <1>1, <2>1, <2>3, RouteMoves DEF TakeRouted
    <3> QED
      BY <2>1, <2>2, <3>1 DEF InStep
  <2>4. CASE TakeHidden(Head(jobs)) \/ TakeEmpty(Head(jobs))
    <3>1. RoutesOf' = RoutesOf
      BY <2>4 DEF TakeHidden, TakeEmpty, RoutesOf
    <3> QED
      BY <2>1, <2>2, <3>1 DEF InStep
  <2> QED
    BY <1>1, <1>11, <2>3, <2>4, TakeCases DEF TakePaired
<1>12. CASE put_accepted
  <2>1. cur \in Pictures /\ cur # NoPicture
    BY <1>12, AtWork, NoPictureFacts DEF put_accepted, Pushing
  <2>2. CASE PutAltref
    <3>1. /\ cur' \in Pictures /\ cur'.tok = cur.tok /\ own_route' = TRUE
          /\ mpp' = mpp
      BY <2>1, <2>2 DEF PutAltref, Pictures
    <3>2. RoutesOf' = RoutesOf \cup {cur'}
      BY <1>1, <2>2, <3>1, RouteMoves
    <3> QED
      BY <1>2, <3>1, <3>2 DEF InStep
  <2>3. ASSUME generic' = generic,
               (PutUnref \/ PutShown) /\ h264_routes' = h264_routes
        PROVE  InStep'
    <3>1. RoutesOf' = RoutesOf
      BY <2>3 DEF RoutesOf
    <3>2. CASE PutUnref
      <4>1. ~own_route /\ mpp' = mpp
        BY <2>1, <3>2 DEF PutUnref, Fed
      <4> QED
        BY <1>2, <3>1, <4>1 DEF InStep
    <3>3. CASE PutShown
      <4>1. mpp' = mpp \cup {[tok |-> cur.tok, pic |-> cur.pic]}
        BY <3>3 DEF PutShown, Put
      <4>2. \E p \in mpp' : p.tok = cur.tok
        <5>1. [tok |-> cur.tok, pic |-> cur.pic] \in mpp'
          BY <4>1
        <5>2. [tok |-> cur.tok, pic |-> cur.pic].tok = cur.tok
          OBVIOUS
        <5> QED
          BY <5>1, <5>2
      <4>3. mpp \subseteq mpp'
        BY <4>1
      <4>4. \A r \in RoutesOf : \E p \in mpp' : p.tok = r.tok
        BY <1>2, <4>2, <4>3
      <4> QED
        BY <3>1, <4>4 DEF InStep
    <3> QED
      BY <2>3, <3>2, <3>3
  <2> QED
    BY <1>1, <1>12, <2>2, <2>3, PutCases DEF PutOwn, PutPaired, PutReplaced,
         PutUnroutable
<1>13. CASE put_failed
  <2>1. /\ mpp' = mpp /\ generic' = generic_route_remove(cur.tok)
        /\ h264_routes' = {}
    BY <1>13 DEF put_failed, mppVars, Routed
  <2>2. \A r \in Entries(generic') : r.tok # cur.tok
    BY <1>1, <2>1, Removed DEF Fed
  <2>3. RoutesOf' \subseteq RoutesOf /\ RoutesOf' = Entries(generic')
    BY <1>1, <1>13, <2>1, RouteMoves, AsEntries
  <2> QED
    BY <1>2, <2>1, <2>2, <2>3 DEF InStep
<1>14. ASSUME NEW frame \in Packets, Drains(frame)
       PROVE  InStep'
  <2>1. cur' = cur
    BY <1>1, <1>14, DrainCases
  <2>2. CASE generic = <<>> /\ UNCHANGED <<h264_routes, generic>>
    <3>1. RoutesOf' = {}
      BY <2>2, AsEntries DEF Routed, Entries
    <3> QED
      BY <3>1 DEF InStep
  <2>3. ASSUME NEW r \in RoutesOf, Consumes(r, frame)
        PROVE  InStep'
    <3>1. frame \in mpp /\ mpp' = mpp \ {frame} /\ r.tok = frame.tok
      BY <1>14, <2>3, FrameInStep
    <3>2. own_route' <=> own_route
      BY <1>14, <2>3, FedDrain
    <3>3. RoutesOf' \subseteq RoutesOf
      BY <1>1, <2>3, RouteMoves
    <3>4. \A q \in RoutesOf' : q.tok # r.tok
      <4>0. generic \in Seq(Pictures)
        BY <1>1 DEF TypeOK
      <4>9. /\ generic # <<>> /\ h264_routes' = {}
            /\ r = Head(generic) /\ generic' = Tail(generic)
        BY <2>3 DEF Consumes, Routed
      <4>1. /\ generic \in Seq(Pictures) /\ generic # <<>>
            /\ r = Head(generic) /\ generic' = Tail(generic)
            /\ RoutesOf' = Entries(Tail(generic))
        BY <4>0, <4>9, AsEntries
      <4>2. \A k \in DOMAIN Tail(generic) :
              k + 1 \in DOMAIN generic /\ Tail(generic)[k] = generic[k + 1]
        BY <4>1, Oldest
      <4>3. r = generic[1] /\ 1 \in DOMAIN generic
        BY <4>1, Oldest
      <4>4. \A k \in DOMAIN Tail(generic) : 1 < k + 1
        <5>1. Tail(generic) \in Seq(Pictures)
          BY <4>1, Oldest
        <5>2. DOMAIN Tail(generic) \subseteq Nat \ {0}
          BY <5>1
        <5> QED
          BY <5>2
      <4>5. \A k \in DOMAIN generic : generic[k].tok \in Nat
        <5>1. \A k \in DOMAIN generic : generic[k] \in Pictures
          BY <4>1
        <5> QED
          BY <5>1 DEF Pictures
      <4>6. \A k \in DOMAIN Tail(generic) : r.tok < Tail(generic)[k].tok
        BY <4>2, <4>3, <4>4 DEF Fed, Rising
      <4>7. \A k \in DOMAIN Tail(generic) : Tail(generic)[k].tok \in Nat
        BY <4>2, <4>5
      <4>8. \A k \in DOMAIN Tail(generic) : Tail(generic)[k].tok # r.tok
        BY <4>3, <4>5, <4>6, <4>7
      <4> QED
        BY <4>1, <4>8 DEF Entries
    <3>5. \A q \in RoutesOf' : \/ own_route' /\ q.tok = cur.tok
                               \/ \E p \in mpp' : p.tok = q.tok
      BY <1>2, <3>1, <3>2, <3>3, <3>4
    <3> QED
      BY <2>1, <3>5 DEF InStep
  <2> QED
    BY <1>1, <1>14, <2>2, <2>3, DrainCases
<1>15. CASE assign_bind \/ assign_reject
  BY <1>3, <1>15, AssignCases
<1>16. CASE stall_timeout
  BY <1>16 DEF stall_timeout, Orderly
<1>17. ASSUME NEW packet \in mpp, mpp_lose(packet)
       PROVE  InStep'
  BY <1>17 DEF mpp_lose, Orderly
<1> QED
  BY <1>1, <1>5, <1>6, <1>7, <1>8, <1>8f, <1>9, <1>10, <1>11, <1>12, <1>13,
     <1>14, <1>15, <1>16, <1>17, StepCases

(* What carries the same current fence holds the same picture.             *)
LEMMA SamePicture ==
  ASSUME Wanted, NEW i \in Carriers, NEW j \in Carriers, i # NoPicture,
         j # NoPicture, SameFence(i, j)
  PROVE  /\ Stale(i) <=> Stale(j)
         /\ Stale(i) \/ i.pic = j.pic
BY DEF Wanted, Stale, SameFence

(* Every step keeps packets matched to the routes with their tokens.       *)
LEMMA MatchedKept ==
  ASSUME Orderly, Base, Numbered, Routed, Kinded, Behind, Fed, Wanted, Matched,
         [Next]_vars
  PROVE  Matched'
<1>1. TypeOK /\ coding' = coding
  BY StepCases DEF Base
<1>2. /\ RoutesOf \subseteq Carriers /\ JobsOf \subseteq Carriers
      /\ cur \in Carriers /\ RoutesOf \subseteq Pictures
      /\ \A r \in RoutesOf : r # NoPicture
  BY <1>1, CarrierTypes, NoPictureFacts DEF Carriers
<1>3. ASSUME fence' = fence, mpp' \subseteq mpp, RoutesOf' \subseteq RoutesOf,
             cur' \in {cur, NoPicture}
      PROVE  Matched'
  BY <1>3 DEF Matched, Stale
<1>4. ASSUME UNCHANGED <<fence, mpp, h264_routes, generic, cur>>
      PROVE  Matched'
  <2>1. RoutesOf' = RoutesOf
    BY <1>4 DEF RoutesOf
  <2> QED
    BY <1>3, <1>4, <2>1
<1>5. CASE Quiet
  BY <1>4, <1>5 DEF Quiet, surfVars, submitVars, routeVars
<1>6. ASSUME NEW s \in Surfaces, NEW second \in BOOLEAN,
             rk_BeginPicture(s, second)
      PROVE  Matched'
  <2>1. UNCHANGED <<mpp, h264_routes, generic, cur>>
    BY <1>6 DEF rk_BeginPicture, submitVars, routeVars, mppVars
  <2>2. RoutesOf' = RoutesOf
    BY <2>1 DEF RoutesOf
  <2>3. \A j \in Carriers : j # NoPicture /\ Stale(j) => fence'[j.surf] # j.fence
    BY StaleStays
  <2>4. \A p \in mpp, r \in RoutesOf :
          p.tok = r.tok => fence'[r.surf] # r.fence \/ p.pic = r.pic
    BY <1>2, <2>3 DEF Matched
  <2>5. cur # NoPicture => \A p \in mpp :
          p.tok = cur.tok => fence'[cur.surf] # cur.fence \/ p.pic = cur.pic
    BY <1>2, <2>3 DEF Matched
  <2> QED
    BY <2>1, <2>2, <2>4, <2>5 DEF Matched, Stale
<1>7. ASSUME NEW kind, end_build(kind)
      PROVE  Matched'
  BY <1>4, <1>7 DEF end_build, submitVars, routeVars, mppVars
<1>8. CASE end_failed
  BY <1>4, <1>8 DEF end_failed, surfVars, submitVars, routeVars, mppVars
<1>8f. ASSUME NEW j \in built, rk_mpp_dec_fail_surface(j)
       PROVE  Matched'
  BY <1>4, <1>8f
     DEF rk_mpp_dec_fail_surface, submitVars, routeVars, mppVars
<1>9. ASSUME NEW j \in built, rk_mpp_dec_enqueue_job(j)
      PROVE  Matched'
  BY <1>4, <1>9
     DEF rk_mpp_dec_enqueue_job, surfVars, submitVars, routeVars, mppVars
<1>10. CASE stop_joined
  <2>1. /\ fence' = fence /\ mpp' = {} /\ h264_routes' = {} /\ generic' = <<>>
        /\ cur' = cur
    BY <1>10 DEF stop_joined, submitVars
  <2> QED
    BY <2>1 DEF Matched
<1>11. CASE take_job
  <2> DEFINE job == Head(jobs)
  <2>1. /\ jobs # <<>> /\ job \in Pictures /\ fence' = fence /\ mpp' = mpp
    BY <1>1, <1>11, TakeCases DEF take_job, mppVars
  <2>2. jobs \in Seq(Pictures)
    BY <1>1 DEF TypeOK
  <2>3. job \in Carriers /\ job # NoPicture
    <3>1. job \in Entries(jobs)
      BY <2>1, <2>2, QueueMoves
    <3> QED
      BY <1>2, <2>1, <3>1, AsEntries, NoPictureFacts
  <2>4. /\ \A p \in mpp : p.tok < job.tok /\ p.tok \in Nat
        /\ job.tok \in Nat
    BY <1>1, <2>1, TakenIsNew
  <2>5. \A p \in mpp : p.tok # job.tok
    BY <2>4
  <2>6. ASSUME NEW r \in h264_routes, TakePaired(job, r)
        PROVE  Matched'
    <3>1. RoutesOf' = RoutesOf /\ r \in RoutesOf
      BY <2>6 DEF TakePaired, RoutesOf
    <3>2. /\ cur'.surf = job.surf /\ cur'.fence = job.fence
          /\ cur'.pic = job.pic /\ cur'.tok = r.tok
      <4> HIDE DEF job
      <4> QED
        BY <2>1, <2>6 DEF TakePaired, Pictures
    <3>3. SameFence(r, job)
      BY <2>6 DEF TakePaired
    <3>4. /\ Stale(r) <=> Stale(job)
          /\ Stale(r) \/ r.pic = job.pic
      BY <1>2, <2>3, <3>1, <3>3, SamePicture
    <3>5. \A p \in mpp : p.tok = r.tok => Stale(job) \/ p.pic = job.pic
      BY <3>1, <3>4 DEF Matched
    <3> QED
      BY <2>1, <3>1, <3>2, <3>5 DEF Matched, Stale
  <2>7. CASE TakeRouted(job)
    <3>1. RoutesOf' = RoutesOf \cup {job} /\ cur' = job
      BY <1>1, <2>1, <2>7, RouteMoves DEF TakeRouted
    <3> QED
      BY <2>1, <2>5, <3>1 DEF Matched, Stale
  <2>8. CASE TakeHidden(job)
    <3>1. RoutesOf' = RoutesOf /\ cur' = job
      BY <2>8 DEF TakeHidden, RoutesOf
    <3> QED
      BY <2>1, <2>5, <3>1 DEF Matched, Stale
  <2>9. CASE TakeEmpty(job)
    BY <1>4, <2>1, <2>9 DEF TakeEmpty
  <2> QED
    BY <1>1, <1>11, <2>6, <2>7, <2>8, <2>9, TakeCases
<1>12. CASE put_accepted
  <2>1. /\ cur \in Pictures /\ cur # NoPicture /\ fence' = fence
    BY <1>12, AtWork, NoPictureFacts DEF put_accepted, Pushing
  <2>2. CASE PutAltref
    <3>1. /\ cur' \in Pictures /\ cur'.tok = cur.tok
          /\ mpp' = mpp /\ coding = "VP9"
      BY <2>1, <2>2 DEF PutAltref, Pictures
    <3>2. RoutesOf' = RoutesOf \cup {cur'}
      BY <1>1, <2>2, <3>1, RouteMoves
    <3>3. \A p \in mpp : p.tok < cur.tok
      BY <2>1, <3>1 DEF Fed
    <3>4. /\ \A p \in mpp : p.tok \in Nat
          /\ cur.tok \in Nat
      BY <1>1, <2>1 DEF TypeOK, Packets, Pictures
    <3>5. \A p \in mpp : p.tok # cur'.tok
      BY <3>1, <3>3, <3>4
    <3> QED
      BY <2>1, <3>1, <3>2, <3>5 DEF Matched, Stale
  <2>3. \A r \in RoutesOf : r.tok = cur.tok => Stale(r) \/ r.pic = cur.pic
    BY <1>2, <2>1, SamePicture DEF Routed
  <2>4. ASSUME Put, cur' = NoPicture, RoutesOf' \subseteq RoutesOf \cup {cur}
        PROVE  Matched'
    <3>1. mpp' = mpp \cup {[tok |-> cur.tok, pic |-> cur.pic]}
      BY <2>4 DEF Put
    <3>2. \A p \in mpp, r \in RoutesOf \cup {cur} :
            p.tok = r.tok => Stale(r) \/ p.pic = r.pic
      BY <2>1 DEF Matched
    <3>3. \A r \in RoutesOf \cup {cur} :
            r.tok = cur.tok => Stale(r) \/ cur.pic = r.pic
      BY <2>3
    <3>4. \A p \in mpp', r \in RoutesOf \cup {cur} :
            p.tok = r.tok => Stale(r) \/ p.pic = r.pic
      BY <3>1, <3>2, <3>3
    <3> QED
      BY <2>1, <2>4, <3>4 DEF Matched, Stale
  <2>5. ASSUME UNCHANGED <<h264_routes, generic>>
        PROVE  RoutesOf' = RoutesOf
    BY <2>5 DEF RoutesOf
  <2>6. CASE cur' = NoPicture /\ generic' = generic /\ (PutOwn \/ PutPaired)
    BY <2>4, <2>5, <2>6 DEF PutOwn, PutPaired
  <2>7. CASE cur' = NoPicture /\ generic' = generic /\ PutReplaced
    <3>1. RoutesOf' = RoutesOf \cup {cur}
      BY <2>7 DEF PutReplaced, RoutesOf
    <3> QED
      BY <2>4, <2>7, <3>1 DEF PutReplaced
  <2>8. CASE cur' = NoPicture /\ generic' = generic /\ PutUnroutable
    BY <2>4, <2>5, <2>8 DEF PutUnroutable
  <2>9. CASE /\ cur' = NoPicture /\ generic' = generic
             /\ h264_routes' = h264_routes /\ PutShown
    BY <2>4, <2>5, <2>9 DEF PutShown
  <2>10. CASE /\ cur' = NoPicture /\ generic' = generic
              /\ h264_routes' = h264_routes /\ PutUnref
    <3>1. mpp' = mpp
      BY <2>10 DEF PutUnref
    <3> QED
      BY <1>3, <2>1, <2>5, <2>10, <3>1
  <2> QED
    BY <1>1, <1>12, <2>2, <2>6, <2>7, <2>8, <2>9, <2>10, PutCases
<1>13. CASE put_failed
  <2>1. fence' = fence /\ mpp' = mpp /\ cur' = NoPicture
    BY <1>13 DEF put_failed, mppVars
  <2>2. RoutesOf' \subseteq RoutesOf
    BY <1>1, <1>13, RouteMoves
  <2> QED
    BY <1>3, <2>1, <2>2
<1>14. ASSUME NEW frame \in Packets, Drains(frame)
       PROVE  Matched'
  <2>1. cur' = cur /\ fence' = fence /\ mpp' \subseteq mpp
    BY <1>1, <1>14, DrainCases
  <2>2. RoutesOf' \subseteq RoutesOf
    <3>1. CASE UNCHANGED <<h264_routes, generic>>
      BY <3>1 DEF RoutesOf
    <3>2. ASSUME NEW r \in RoutesOf, Consumes(r, frame)
          PROVE  RoutesOf' \subseteq RoutesOf
      BY <1>1, <3>2, RouteMoves
    <3> QED
      BY <1>1, <1>14, <3>1, <3>2, DrainCases
  <2> QED
    BY <1>3, <2>1, <2>2
<1>15. CASE assign_bind \/ assign_reject
  BY <1>4, <1>15, AssignCases
<1>16. CASE stall_timeout
  <2>1. fence' = fence /\ mpp' = mpp /\ cur' = cur
    BY <1>16 DEF stall_timeout, submitVars, mppVars
  <2>2. RoutesOf' = {}
    BY <1>16 DEF stall_timeout, RoutesOf
  <2> QED
    BY <1>3, <2>1, <2>2
<1>17. ASSUME NEW packet \in mpp, mpp_lose(packet)
       PROVE  Matched'
  <2>1. fence' = fence /\ mpp' \subseteq mpp /\ cur' = cur
    BY <1>17 DEF mpp_lose, surfVars, submitVars
  <2>2. RoutesOf' = RoutesOf
    BY <1>17 DEF mpp_lose, routeVars, RoutesOf
  <2> QED
    BY <1>3, <2>1, <2>2
<1> QED
  BY <1>1, <1>5, <1>6, <1>7, <1>8, <1>8f, <1>9, <1>10, <1>11, <1>12, <1>13,
     <1>14, <1>15, <1>16, <1>17, StepCases

(* BeginPicture hands the new fence to the new picture, or the same fence  *)
(* to the second field of the same picture.                                *)
LEMMA BeginWants ==
  ASSUME Orderly, TypeOK, NEW s \in Surfaces, NEW second \in BOOLEAN,
         rk_BeginPicture(s, second)
  PROVE  /\ render'.pic = want'[s]
         /\ \/ fence'[s] = fence[s] + 1 /\ bound'[s] = 0
            \/ fence'[s] = fence[s] /\ bound'[s] = bound[s] /\ want'[s] = want[s]
<1>1. /\ bound' = [bound EXCEPT ![s] = IF Continuation(s) THEN @ ELSE 0]
      /\ want' = [want EXCEPT ![s] = IF second THEN want[s] ELSE begins + 1]
      /\ fence' = [fence EXCEPT ![s] = IF Continuation(s) THEN @ ELSE @ + 1]
      /\ render'.pic = IF second THEN want[s] ELSE begins + 1
      /\ MayBegin(s, second)
  BY DEF rk_BeginPicture
<1>2. Continuation(s) => second
  BY <1>1 DEF Continuation, MayBegin, Settled, Orderly
<1>3. want'[s] = IF second THEN want[s] ELSE begins + 1
  BY <1>1 DEF TypeOK
<1>4. /\ Continuation(s) => fence'[s] = fence[s] /\ bound'[s] = bound[s]
      /\ ~Continuation(s) => fence'[s] = fence[s] + 1 /\ bound'[s] = 0
  BY <1>1 DEF TypeOK
<1> QED
  BY <1>1, <1>2, <1>3, <1>4

(* Every step keeps surfaces to the pictures that were asked for.          *)
LEMMA WantedKept ==
  ASSUME Orderly, Base, Routed, Behind, Fed, InStep, Matched, Wanted,
         [Next]_vars
  PROVE  Wanted'
<1>1. TypeOK
  BY DEF Base
<1>2. Carriers \subseteq Pictures \cup {NoPicture}
  BY <1>1, CarrierTypes
<1>3. ASSUME NEW s \in Surfaces, NEW second \in BOOLEAN,
             rk_BeginPicture(s, second)
      PROVE  Wanted'
  <2>1. /\ \A t \in Surfaces : t # s => fence'[t] = fence[t]
        /\ render' \in Pictures /\ render'.surf = s
        /\ fence[s] \in Nat
    BY <1>1, <1>3, BeginFence DEF TypeOK
  <2>2. \A t \in Surfaces : t # s => bound'[t] = bound[t] /\ want'[t] = want[t]
    BY <1>1, <1>3, BeginVerdicts
  <2>3. /\ render'.pic = want'[s]
        /\ \/ fence'[s] = fence[s] + 1 /\ bound'[s] = 0
           \/ fence'[s] = fence[s] /\ bound'[s] = bound[s]
              /\ want'[s] = want[s]
    BY <1>1, <1>3, BeginWants
  <2>4. ASSUME NEW j \in Carriers, j # NoPicture
        PROVE  fence'[j.surf] # j.fence \/ j.pic = want'[j.surf]
    <3>1. j \in Pictures
      BY <1>2, <2>4
    <3>2. j.surf \in Surfaces /\ j.fence \in Nat
      BY <3>1 DEF Pictures
    <3>3. j.fence <= fence[j.surf]
      BY <2>4 DEF Behind
    <3>4. Stale(j) \/ j.pic = want[j.surf]
      BY <2>4 DEF Wanted
    <3>5. Stale(j) => fence'[j.surf] # j.fence
      BY <2>4, StaleStays
    <3>6. CASE j.surf # s
      BY <2>2, <3>2, <3>4, <3>5, <3>6
    <3>7. CASE j.surf = s /\ fence'[s] = fence[s] + 1
      BY <2>1, <3>2, <3>3, <3>7
    <3>8. CASE j.surf = s /\ want'[s] = want[s]
      BY <3>4, <3>5, <3>8
    <3> QED
      BY <2>3, <3>6, <3>7, <3>8
  <2>5. \A j \in Carriers' : Known(j) \/ j = render'
    BY Lineage
  <2>6. \A j \in Carriers' : j # NoPicture =>
          fence'[j.surf] # j.fence \/ j.pic = want'[j.surf]
    BY <2>1, <2>3, <2>4, <2>5 DEF Known, Kin, SameFence
  <2>7. \A t \in Surfaces : bound'[t] \in {0, want'[t]}
    BY <2>2, <2>3 DEF Wanted
  <2>8. pc' = pc /\ asg' = asg
    BY <1>3 DEF rk_BeginPicture, frameVars
  <2>9. pc = "assign" => \/ fence'[asg.route.surf] # asg.route.fence
                         \/ asg.frame.pic \in {0, asg.route.pic}
    <3>1. asg.route \in Carriers
      BY DEF Carriers
    <3>2. pc = "assign" => asg.route # NoPicture
      BY NoPictureFacts DEF Base, Phased
    <3>3. pc = "assign" /\ Stale(asg.route) =>
            fence'[asg.route.surf] # asg.route.fence
      BY <3>1, <3>2, StaleStays
    <3> QED
      BY <3>3 DEF Wanted
  <2> QED
    BY <2>6, <2>7, <2>8, <2>9 DEF Wanted, Stale
<1>4. ASSUME ~\E s \in Surfaces, second \in BOOLEAN :
               rk_BeginPicture(s, second)
      PROVE  Wanted'
  <2>1. /\ want' = want /\ fence' = fence
        /\ bound' = bound \/ assign_bind \/ assign_reject
    BY <1>4, AppStays
  <2>2. \A j \in Carriers' : Known(j)
    BY <1>4, Lineage
  <2>3. \A j \in Carriers' : j # NoPicture =>
          fence'[j.surf] # j.fence \/ j.pic = want'[j.surf]
    BY <2>1, <2>2 DEF Known, Kin, SameFence, Wanted, Stale
  <2>4. \A t \in Surfaces : bound'[t] \in {0, want'[t]}
    <3>1. CASE bound' = bound
      BY <2>1, <3>1 DEF Wanted
    <3>2. CASE assign_bind \/ assign_reject
      <4> DEFINE s == asg.route.surf
      <4>1. /\ pc = "assign" /\ asg.route \in Pictures
            /\ asg.route.fence = fence[s] =>
                 bound'[s] \in {asg.frame.pic, bound[s]}
            /\ \A t \in Surfaces : t # s \/ asg.route.fence # fence[s] =>
                 bound'[t] = bound[t]
        BY <3>2, AssignCases
      <4>2. asg.route \in Carriers /\ asg.route # NoPicture
        BY <4>1, NoPictureFacts DEF Carriers
      <4>3. asg.route.fence = fence[s] => asg.frame.pic \in {0, want[s]}
        BY <4>1, <4>2 DEF Wanted, Stale
      <4> HIDE DEF s
      <4>4. \A t \in Surfaces : bound[t] \in {0, want[t]}
        BY DEF Wanted
      <4> QED
        BY <2>1, <4>1, <4>3, <4>4
    <3> QED
      BY <2>1, <3>1, <3>2
  <2>5. ASSUME pc' = "assign"
        PROVE  \/ fence'[asg'.route.surf] # asg'.route.fence
               \/ asg'.frame.pic \in {0, asg'.route.pic}
    <3>1. CASE pc = "assign" /\ asg' = asg
      BY <2>1, <3>1 DEF Wanted, Stale
    <3>2. ASSUME NEW frame \in Packets, Drains(frame)
          PROVE  \/ fence'[asg'.route.surf] # asg'.route.fence
                 \/ asg'.frame.pic \in {0, asg'.route.pic}
      <4>1. pc # "assign" /\ ReturnTo # "assign"
        BY <1>1, <3>2, DrainCases DEF ReturnTo
      <4>2. PICK r \in RoutesOf : Consumes(r, frame)
        BY <1>1, <2>5, <3>2, <4>1, DrainCases
      <4>3. asg' = [route |-> r, frame |-> frame]
        BY <2>5, <4>1, <4>2 DEF Consumes, Dropped, Assigning
      <4>4. CASE frame \notin mpp
        <5>1. frame = [tok |-> 0, pic |-> 0]
          BY <3>2, <4>4 DEF Drains
        <5> QED
          BY <4>3, <5>1
      <4>5. CASE frame \in mpp
        <5>1. r.tok = frame.tok
          BY <3>2, <4>2, FrameInStep DEF Consumes
        <5>2. Stale(r) \/ frame.pic = r.pic
          BY <4>5, <5>1 DEF Matched
        <5> QED
          BY <2>1, <4>3, <5>2 DEF Stale
      <4> QED
        BY <4>4, <4>5
    <3>3. (pc = "assign" /\ asg' = asg) \/ \E frame \in Packets : Drains(frame)
      <4>1. CASE Quiet
        BY <2>5, <4>1 DEF Quiet
      <4>2. ASSUME NEW kind, end_build(kind)
            PROVE  pc' = pc /\ asg' = asg
        BY <4>2 DEF end_build, frameVars
      <4>3. CASE end_failed
        BY <2>5, <4>3 DEF end_failed, frameVars
      <4>3f. ASSUME NEW j \in built, rk_mpp_dec_fail_surface(j)
             PROVE  pc' = pc /\ asg' = asg
        BY <2>5, <4>3f
           DEF rk_mpp_dec_fail_surface, frameVars
      <4>4. ASSUME NEW j \in built, rk_mpp_dec_enqueue_job(j)
            PROVE  pc' = pc /\ asg' = asg
        BY <4>4 DEF rk_mpp_dec_enqueue_job, frameVars
      <4>5. CASE stop_joined
        BY <2>5, <4>5 DEF stop_joined, frameVars
      <4>6. take_job => pc' # "assign"
        BY <1>1, TakeCases DEF TakePaired, TakeRouted, TakeEmpty, TakeHidden
      <4>7. put_accepted => pc' # "assign"
        BY <1>1, PutCases DEF PutAltref
      <4>8. put_failed => pc' # "assign"
        BY DEF put_failed
      <4>9. assign_bind \/ assign_reject => pc' # "assign"
        BY <1>1, AssignCases DEF TypeOK
      <4>10. CASE stall_timeout
        BY <2>5, <4>10 DEF stall_timeout
      <4>11. ASSUME NEW packet \in mpp, mpp_lose(packet)
             PROVE  pc' = pc /\ asg' = asg
        BY <4>11 DEF mpp_lose, frameVars
      <4> QED
        BY <1>1, <1>4, <2>5, <4>1, <4>2, <4>3, <4>3f, <4>4, <4>5, <4>6, <4>7,
           <4>8, <4>9, <4>10, <4>11, StepCases
    <3> QED
      BY <3>1, <3>2, <3>3
  <2> QED
    BY <2>3, <2>4, <2>5 DEF Wanted, Stale
<1> QED
  BY <1>3, <1>4

(* Fences, counts and pictures together.                                   *)
PictureInv == FenceInv /\ Fed /\ Balanced /\ InStep /\ Matched /\ Wanted

(* What carries a picture carries the right one throughout, if MPP answers *)
(* every VP9 packet in time and H.264 surfaces are not reused in flight.   *)
THEOREM PictureInvariant ==
  ASSUME Orderly
  PROVE  Spec => []PictureInv
<1>1. Answers
  BY DEF Orderly, Answers
<1>2. Init => InStep /\ Matched /\ Wanted
  <2> SUFFICES ASSUME Init PROVE InStep /\ Matched /\ Wanted
    OBVIOUS
  <2>1. /\ RoutesOf = {} /\ JobsOf = {} /\ built = {} /\ mpp = {}
        /\ cur = NoPicture /\ render = NoPicture /\ asg = NoAssign
        /\ pc = "loop" /\ bound = [s \in Surfaces |-> 0]
    BY DEF Init, RoutesOf, JobsOf
  <2>2. Carriers = {NoPicture}
    BY <2>1, NoPictureFacts DEF Carriers
  <2> QED
    BY <2>1, <2>2 DEF InStep, Matched, Wanted
<1>3. FenceInv /\ Fed /\ Balanced /\ InStep /\ Matched /\ Wanted /\ [Next]_vars
        => (InStep /\ Matched /\ Wanted)'
  BY InStepKept, MatchedKept, WantedKept DEF FenceInv
<1> QED
  BY <1>1, <1>2, <1>3, CountInvariant, PTL DEF Spec, PictureInv

(* "stale late frames cannot overwrite a reused surface" (README.md:74):   *)
(* for any number of surfaces and pictures, any reuse of HEVC and VP9      *)
(* surfaces in flight, any order of MPP's frames and any lost or late      *)
(* frame of the token codecs, a decoded surface shows the picture last     *)
(* asked for.                                                              *)
THEOREM ShowsItsOwn ==
  ASSUME "VP9" \notin MppLoses \cup MppStalls, "AVC" \notin ReuseInFlight
  PROVE  Spec => []ShowsItsOwnPicture
<1>1. Orderly
  BY DEF Orderly
<1>2. PictureInv => ShowsItsOwnPicture
  BY DEF PictureInv, Wanted, ShowsItsOwnPicture
<1> QED
  BY <1>1, <1>2, PictureInvariant, PTL

-----------------------------------------------------------------------------
(***************************************************************************)
(* The verdicts of SurfaceFence.  A verdict is given once because only one *)
(* thing at a time can give it: the picture between Begin and End, one     *)
(* assembled job, one queued job, the job being pushed with its route, one *)
(* route or the route being assigned.  H.264 is exempt: either field of a  *)
(* picture may give the verdict.                                           *)
(***************************************************************************)
Handed == (JobsOf \cup RoutesOf \cup {cur}) \ {NoPicture}

Single ==
  coding # "AVC" =>
    /\ \A i, j \in built : SameFence(i, j) => i = j
    /\ \A i, j \in Handed : SameFence(i, j) => i.tok = j.tok
    /\ \A i \in built, j \in Handed : ~SameFence(i, j)
    /\ render # NoPicture =>
         \A j \in built \cup Handed \cup {asg.route} : ~SameFence(render, j)
    /\ asg.route # NoPicture =>
         \A j \in built \cup Handed : ~SameFence(asg.route, j)
    /\ coding # "VP9" /\ cur # NoPicture => new_route

(* What carries a surface's current fence finds it pending, and only a     *)
(* decoded surface has a frame.                                            *)
Open ==
  coding # "AVC" =>
    /\ \A j \in Carriers : j # NoPicture =>
         j.fence # 0 /\ (Stale(j) \/ ~Settled(j.surf))
    /\ \A s \in Surfaces : bound[s] # 0 => decoded[s]
    /\ \A s \in Surfaces : want[s] <= begins

(* The carriers by where they are.                                         *)
LEMMA Places ==
  ASSUME TypeOK
  PROVE  /\ \A j : j \in Carriers /\ j # NoPicture <=>
              /\ j # NoPicture
              /\ j \in built \cup Handed \/ j = asg.route \/ j = render
         /\ Handed \subseteq Pictures
         /\ \A j \in Pictures :
              ~SameFence(j, NoPicture) /\ ~SameFence(NoPicture, j)
<1>1. \A j : j \in Carriers /\ j # NoPicture <=>
        /\ j # NoPicture
        /\ j \in built \cup Handed \/ j = asg.route \/ j = render
  BY DEF Carriers, Handed
<1>2. Handed \subseteq Pictures
  BY CarrierTypes DEF Handed, TypeOK
<1>3. \A j \in Pictures : j.surf \in Surfaces
  BY DEF Pictures
<1>4. \A j \in Pictures : ~SameFence(j, NoPicture) /\ ~SameFence(NoPicture, j)
  BY <1>3, NoPictureFacts DEF SameFence
<1> QED
  BY <1>1, <1>2, <1>4

(* A queued job shares its fence with no route, with nothing being pushed  *)
(* and with no job behind it.                                              *)
LEMMA JobsApart ==
  ASSUME coding # "AVC", TypeOK, Numbered, Single
  PROVE  /\ \A i \in JobsOf, j \in RoutesOf \cup {cur} :
              ~SameFence(i, j) /\ ~SameFence(j, i)
         /\ jobs # <<>> => \A j \in Entries(Tail(jobs)) :
              ~SameFence(Head(jobs), j)
<1>1. /\ jobs \in Seq(Pictures) /\ JobsOf \subseteq Pictures
      /\ RoutesOf \subseteq Pictures /\ NoPicture \notin Pictures
      /\ cur \in Pictures \cup {NoPicture}
  BY CarrierTypes, NoPictureFacts DEF TypeOK
<1>2. \A i \in Pictures : i.tok \in Nat
  BY DEF Pictures
<1>3. ASSUME NEW i \in JobsOf, NEW j \in RoutesOf \cup {cur}
      PROVE  ~SameFence(i, j) /\ ~SameFence(j, i)
  <2>1. i \in Pictures
    BY <1>1
  <2>2. CASE j = NoPicture
    BY <2>1, <2>2, Places
  <2>3. CASE j # NoPicture
    <3>1. i \in Handed /\ j \in Handed /\ j \in Pictures
      BY <1>1, <2>1, <2>3 DEF Handed
    <3>2. Old(j.tok)
      BY <2>3 DEF Numbered
    <3>3. j.tok < i.tok
      BY <3>2, AsEntries DEF Old, Entries
    <3>4. j.tok # i.tok
      BY <1>2, <2>1, <3>1, <3>3
    <3> QED
      BY <3>1, <3>4 DEF Single
  <2> QED
    BY <2>2, <2>3
<1>4. ASSUME jobs # <<>>, NEW j \in Entries(Tail(jobs))
      PROVE  ~SameFence(Head(jobs), j)
  <2>1. PICK k \in DOMAIN Tail(jobs) : j = Tail(jobs)[k]
    BY DEF Entries
  <2>2. /\ k + 1 \in DOMAIN jobs /\ j = jobs[k + 1] /\ Head(jobs) = jobs[1]
        /\ 1 \in DOMAIN jobs
    BY <1>1, <1>4, <2>1, Oldest
  <2>3. Tail(jobs) \in Seq(Pictures)
    BY <1>1, <1>4, Oldest
  <2>4. k \in Nat \ {0}
    BY <2>3
  <2>5. Head(jobs).tok < j.tok
    BY <2>2, <2>4 DEF Numbered, Rising
  <2>6. Head(jobs) \in JobsOf /\ j \in JobsOf
    BY <2>2 DEF JobsOf
  <2>7. Head(jobs) \in Handed /\ j \in Handed
    BY <1>1, <2>6 DEF Handed
  <2>8. Head(jobs).tok # j.tok
    BY <1>1, <1>2, <2>5, <2>6
  <2> QED
    BY <2>7, <2>8 DEF Single
<1> QED
  BY <1>3, <1>4

(* A consumed route shares its fence with nothing the worker still has.    *)
LEMMA ConsumedIsAlone ==
  ASSUME coding # "AVC", Base, Numbered, Routed, Fed, InStep, Single,
         NEW frame \in Packets, Drains(frame), NEW r \in RoutesOf,
         Consumes(r, frame)
  PROVE  \A j \in Handed' : ~SameFence(r, j)
<1>1. TypeOK /\ r \in Pictures /\ r # NoPicture
  BY CarrierTypes, NoPictureFacts DEF Base
<1>2. /\ jobs' = jobs /\ cur' = cur /\ RoutesOf' \subseteq RoutesOf
  BY <1>1, DrainCases, RouteMoves
<1>3. r.tok \in Nat
  BY <1>1 DEF Pictures
<1>4. \A j \in JobsOf : ~SameFence(r, j)
  BY <1>1, JobsApart
<1>5. ASSUME NEW q \in RoutesOf'
      PROVE  q.tok # r.tok
  <2>1. CASE coding = "VP9"
    <3>1. generic \in Seq(Pictures)
      BY <1>1 DEF TypeOK
    <3>2. /\ generic # <<>> /\ h264_routes' = {}
          /\ r = Head(generic) /\ generic' = Tail(generic)
      BY <2>1 DEF Consumes, Routed
    <3>3. q \in Entries(Tail(generic))
      BY <3>2, AsEntries
    <3>4. PICK k \in DOMAIN Tail(generic) : q = Tail(generic)[k]
      BY <3>3 DEF Entries
    <3>5. /\ k + 1 \in DOMAIN generic /\ q = generic[k + 1] /\ r = generic[1]
          /\ 1 \in DOMAIN generic
      BY <3>1, <3>2, <3>4, Oldest
    <3>6. Tail(generic) \in Seq(Pictures)
      BY <3>1, <3>2, Oldest
    <3>7. k \in Nat \ {0}
      BY <3>6
    <3>8. r.tok < q.tok
      BY <2>1, <3>5, <3>7 DEF Fed, Rising
    <3>9. q \in Pictures
      BY <1>1, <1>2, CarrierTypes
    <3>10. q.tok \in Nat
      BY <3>9 DEF Pictures
    <3> QED
      BY <1>3, <3>8, <3>10
  <2>2. CASE coding # "VP9"
    <3>1. /\ h264_routes' = h264_routes \ {r} /\ r \in h264_routes
          /\ generic' = generic /\ generic = <<>>
      BY <2>2 DEF Consumes, Routed
    <3>2. q \in h264_routes \ {r}
      BY <3>1 DEF RoutesOf
    <3> QED
      BY <3>1, <3>2 DEF Routed
  <2> QED
    BY <2>1, <2>2
<1>6. ASSUME cur # NoPicture
      PROVE  cur.tok # r.tok
  <2>1. CASE coding = "VP9"
    <3>1. r.tok < cur.tok
      BY <1>6, <2>1, FedDrain
    <3>2. cur \in Pictures
      BY <1>1, <1>6 DEF TypeOK
    <3>3. cur.tok \in Nat
      BY <3>2 DEF Pictures
    <3> QED
      BY <1>3, <3>1, <3>3
  <2>2. CASE coding # "VP9"
    <3>1. r.tok = frame.tok
      BY <2>2 DEF Consumes
    <3>2. r.tok # 0
      BY DEF Numbered, Old
    <3>3. frame \in mpp
      BY <3>1, <3>2 DEF Drains
    <3>4. own_route
      BY <1>6, <2>2 DEF Single, Routed
    <3> QED
      BY <2>2, <3>1, <3>3, <3>4 DEF Routed
  <2> QED
    BY <2>1, <2>2
<1>7. \A j \in Handed' : j \in JobsOf \/ j \in RoutesOf' \/ (j = cur /\ j # NoPicture)
  BY <1>2 DEF Handed, JobsOf
<1>8. /\ r \in Handed
      /\ \A j \in RoutesOf' : j \in Handed
      /\ cur # NoPicture => cur \in Handed
  <2>1. \A j \in RoutesOf : j # NoPicture
    BY <1>1, CarrierTypes, NoPictureFacts
  <2> QED
    BY <1>1, <1>2, <2>1 DEF Handed
<1> QED
  BY <1>4, <1>5, <1>6, <1>7, <1>8 DEF Single

(* Every step keeps the carriers of a fence apart.                         *)
LEMMA SingleKept ==
  ASSUME Base, Numbered, Routed, Behind, Fed, InStep, Single, [Next]_vars
  PROVE  Single'
<1>1. TypeOK /\ coding' = coding
  BY StepCases DEF Base
<1> SUFFICES ASSUME coding # "AVC"
             PROVE  Single'
  BY <1>1 DEF Single
<1>2. /\ \A i, j \in built : SameFence(i, j) => i = j
      /\ \A i, j \in Handed : SameFence(i, j) => i.tok = j.tok
      /\ \A i \in built, j \in Handed : ~SameFence(i, j)
      /\ render # NoPicture =>
           \A j \in built \cup Handed \cup {asg.route} : ~SameFence(render, j)
      /\ asg.route # NoPicture =>
           \A j \in built \cup Handed : ~SameFence(asg.route, j)
      /\ coding # "VP9" /\ cur # NoPicture => new_route
  BY DEF Single
<1>3. /\ built \subseteq Pictures /\ Handed \subseteq Pictures
      /\ NoPicture \notin Pictures
      /\ asg.route \in Pictures \cup {NoPicture}
      /\ render \in Pictures \cup {NoPicture}
      /\ \A j \in Pictures :
           ~SameFence(j, NoPicture) /\ ~SameFence(NoPicture, j)
  BY <1>1, Places, CarrierTypes, NoPictureFacts DEF TypeOK
<1>4. ASSUME render' \in {render, NoPicture}, built' \subseteq built,
             Handed' \subseteq Handed, asg'.route \in {asg.route, NoPicture},
             \/ cur' \in {cur, NoPicture} /\ new_route' = new_route
             \/ new_route' = TRUE
      PROVE  Single'
  <2>1. /\ \A i, j \in built' : SameFence(i, j) => i = j
        /\ \A i, j \in Handed' : SameFence(i, j) => i.tok = j.tok
        /\ \A i \in built', j \in Handed' : ~SameFence(i, j)
    BY <1>2, <1>4
  <2>2. render' # NoPicture =>
          \A j \in built' \cup Handed' \cup {asg'.route} : ~SameFence(render', j)
    BY <1>2, <1>3, <1>4
  <2>3. asg'.route # NoPicture =>
          \A j \in built' \cup Handed' : ~SameFence(asg'.route, j)
    BY <1>2, <1>4
  <2>4. coding # "VP9" /\ cur' # NoPicture => new_route'
    BY <1>2, <1>4
  <2> QED
    BY <1>1, <2>1, <2>2, <2>3, <2>4 DEF Single, SameFence
<1>5. ASSUME UNCHANGED <<jobs, h264_routes, generic, cur>>
      PROVE  Handed' = Handed
  BY <1>5 DEF Handed, JobsOf, RoutesOf
<1>5a. ASSUME NEW old, render # NoPicture, SameFence(old, render),
              built' = built \cup {old}, Handed' = Handed,
              UNCHANGED <<cur, new_route, asg>>,
              \/ render' = NoPicture
              \/ \A j \in built \cup Handed \cup {asg.route, render} :
                   ~SameFence(render', j)
       PROVE  Single'
  <2>1. \A j \in built \cup Handed \cup {asg.route} :
          ~SameFence(old, j) /\ ~SameFence(j, old)
    BY <1>2, <1>5a DEF SameFence
  <2>2. \A i, j \in built' : SameFence(i, j) => i = j
    BY <1>2, <1>5a, <2>1
  <2>3. /\ \A i \in built', j \in Handed' : ~SameFence(i, j)
        /\ asg.route # NoPicture =>
             \A j \in built' \cup Handed' : ~SameFence(asg.route, j)
    BY <1>2, <1>5a, <2>1
  <2>4. render' # NoPicture =>
          \A j \in built' \cup Handed' \cup {asg.route} : ~SameFence(render', j)
    BY <1>5a DEF SameFence
  <2> QED
    BY <1>1, <1>2, <1>5a, <2>2, <2>3, <2>4 DEF Single, SameFence
<1>6. CASE Quiet
  <2>1. UNCHANGED <<render, built, jobs, h264_routes, generic, cur, new_route,
                    asg>>
    BY <1>6 DEF Quiet, submitVars, routeVars
  <2> QED
    BY <1>4, <1>5, <2>1
<1>7. ASSUME NEW s \in Surfaces, NEW second \in BOOLEAN,
             rk_BeginPicture(s, second)
      PROVE  Single'
  <2>1. /\ UNCHANGED <<jobs, h264_routes, generic, cur, new_route, asg>>
        /\ built' = IF render = NoPicture THEN built ELSE built \cup Abandoned
    BY <1>7 DEF rk_BeginPicture, submitVars, routeVars, frameVars
  <2>2. ~Continuation(s)
    BY DEF Continuation
  <2>3. /\ render' \in Pictures /\ render'.surf = s
        /\ render'.fence = fence[s] + 1 /\ fence[s] \in Nat
    BY <1>1, <1>7, <2>2, BeginFence DEF TypeOK
  <2>4. ASSUME NEW j \in Carriers, j # NoPicture
        PROVE  ~SameFence(render', j)
    <3>1. j \in Pictures
      BY <1>1, <2>4, CarrierTypes
    <3>2. j.fence \in Nat
      BY <3>1 DEF Pictures
    <3>3. j.fence <= fence[j.surf]
      BY <2>4 DEF Behind
    <3> QED
      BY <2>3, <3>2, <3>3 DEF SameFence
  <2>5. \A j \in built \cup Handed \cup {asg.route, render} :
          ~SameFence(render', j)
    <3>1. \A j \in built \cup Handed \cup {asg.route, render} :
            j = NoPicture \/ j \in Carriers
      BY <1>1, Places
    <3> QED
      BY <1>3, <2>3, <2>4, <3>1
  <2>6. Handed' = Handed
    BY <1>5, <2>1
  <2>7. CASE render = NoPicture
    BY <1>1, <1>2, <2>1, <2>5, <2>6, <2>7 DEF Single, SameFence
  <2>8. CASE render # NoPicture
    <3>1. PICK old \in Pictures : /\ Abandoned = {old}
                                  /\ old.surf = render.surf
                                  /\ old.fence = render.fence
      BY <1>1, <2>8, AbandonedFacts
    <3>2. SameFence(old, render) /\ built' = built \cup {old}
      BY <2>1, <2>8, <3>1 DEF SameFence
    <3> QED
      BY <1>5a, <2>1, <2>5, <2>6, <2>8, <3>2
  <2> QED
    BY <2>7, <2>8
<1>8. ASSUME NEW kind, end_build(kind)
      PROVE  Single'
  <2> DEFINE new == [render EXCEPT !.kind = kind]
  <2>1. /\ UNCHANGED <<jobs, h264_routes, generic, cur, new_route, asg>>
        /\ render # NoPicture /\ render' = NoPicture
        /\ built' = built \cup {new}
    BY <1>8 DEF end_build, submitVars, routeVars, frameVars
  <2>2. render \in Pictures
    BY <1>3, <2>1
  <2>3. new.surf = render.surf /\ new.fence = render.fence
    BY <2>2 DEF Pictures
  <2>4. Handed' = Handed
    BY <1>5, <2>1
  <2> HIDE DEF new
  <2> QED
    BY <1>5a, <2>1, <2>3, <2>4 DEF SameFence
<1>9. CASE end_failed
  <2>1. /\ UNCHANGED <<jobs, h264_routes, generic, cur, new_route, asg>>
        /\ render # NoPicture /\ render' = NoPicture
        /\ built' = built \cup Abandoned
    BY <1>9 DEF end_failed, submitVars, routeVars, frameVars
  <2>2. PICK old \in Pictures : /\ Abandoned = {old}
                                /\ old.surf = render.surf
                                /\ old.fence = render.fence
    BY <1>1, <2>1, AbandonedFacts
  <2>3. SameFence(old, render) /\ built' = built \cup {old}
    BY <2>1, <2>2 DEF SameFence
  <2> QED
    BY <1>5, <1>5a, <2>1, <2>3
<1>9f. ASSUME NEW j \in built, rk_mpp_dec_fail_surface(j)
       PROVE  Single'
  <2>1. /\ UNCHANGED <<jobs, h264_routes, generic, cur, new_route, asg, render>>
        /\ built' \subseteq built
    BY <1>9f DEF rk_mpp_dec_fail_surface, submitVars, routeVars, frameVars
  <2> QED
    BY <1>4, <1>5, <2>1
<1>10. ASSUME NEW j \in built, rk_mpp_dec_enqueue_job(j)
       PROVE  Single'
  <2> DEFINE new == [j EXCEPT !.tok = next_token + 1]
  <2>1. /\ UNCHANGED <<h264_routes, generic, cur, new_route, asg, render>>
        /\ built' = built \ {j} /\ jobs' = Append(jobs, new)
    BY <1>10 DEF rk_mpp_dec_enqueue_job, submitVars, routeVars, frameVars
  <2>0. j \in Pictures /\ next_token + 1 \in Nat
    BY <1>1, <1>10 DEF TypeOK
  <2>2. jobs \in Seq(Pictures)
    BY <1>1 DEF TypeOK
  <2>3. /\ new \in Pictures
        /\ new.surf = j.surf /\ new.fence = j.fence
    BY <2>0 DEF Pictures
  <2> HIDE DEF new
  <2>4. RoutesOf' = RoutesOf
    BY <2>1 DEF RoutesOf
  <2>5. JobsOf' = JobsOf \cup {new}
    BY <2>1, <2>2, <2>3, QueueMoves, AsEntries
  <2>6. Handed' = Handed \cup {new}
    BY <1>3, <2>1, <2>3, <2>4, <2>5 DEF Handed
  <2>7. \A i : SameFence(i, new) <=> SameFence(i, j)
    BY <2>3 DEF SameFence
  <2>8. \A i : SameFence(new, i) <=> SameFence(j, i)
    BY <2>3 DEF SameFence
  <2>9. \A i, k : SameFence(i, k) <=> SameFence(k, i)
    BY DEF SameFence
  <2>10. \A i, k \in built' : SameFence(i, k) => i = k
    BY <1>2, <2>1
  <2>11. \A i, k \in Handed' : SameFence(i, k) => i.tok = k.tok
    BY <1>2, <2>6, <2>7, <2>8, <2>9
  <2>12. \A i \in built', k \in Handed' : ~SameFence(i, k)
    BY <1>2, <2>1, <2>6, <2>7
  <2>13. render # NoPicture =>
           \A k \in built' \cup Handed' \cup {asg.route} : ~SameFence(render, k)
    BY <1>2, <2>1, <2>6, <2>7
  <2>14. asg.route # NoPicture =>
           \A k \in built' \cup Handed' : ~SameFence(asg.route, k)
    BY <1>2, <2>1, <2>6, <2>7
  <2> QED
    BY <1>1, <1>2, <2>1, <2>10, <2>11, <2>12, <2>13, <2>14
       DEF Single, SameFence
<1>11. CASE stop_joined
  <2>1. /\ jobs' = <<>> /\ h264_routes' = {} /\ generic' = <<>>
        /\ UNCHANGED <<cur, new_route, asg, built>> /\ render' = NoPicture
    BY <1>11 DEF stop_joined, submitVars, frameVars
  <2>2. Handed' \subseteq Handed
    BY <2>1 DEF Handed, JobsOf, RoutesOf
  <2> QED
    BY <1>4, <2>1, <2>2
<1>12. CASE take_job
  <2>1. /\ UNCHANGED <<asg, built, render>> /\ jobs' = Tail(jobs)
        /\ Head(jobs) \in Pictures /\ jobs # <<>>
    BY <1>1, <1>12, TakeCases DEF take_job, apiVars
  <2>2. jobs \in Seq(Pictures)
    BY <1>1 DEF TypeOK
  <2>3. JobsOf = JobsOf' \cup {Head(jobs)}
    BY <2>1, <2>2, QueueMoves, AsEntries
  <2>4. CASE TakeRouted(Head(jobs))
    <3>1. /\ RoutesOf' = RoutesOf \cup {Head(jobs)} /\ cur' = Head(jobs)
          /\ new_route' = TRUE
      BY <1>1, <2>1, <2>4, RouteMoves DEF TakeRouted
    <3>2. Handed' \subseteq Handed
      BY <2>3, <3>1 DEF Handed
    <3> QED
      BY <1>4, <2>1, <3>1, <3>2
  <2>5. CASE TakeHidden(Head(jobs))
    <3>1. RoutesOf' = RoutesOf /\ cur' = Head(jobs) /\ new_route' = TRUE
      BY <2>5 DEF TakeHidden, RoutesOf
    <3>2. Handed' \subseteq Handed
      BY <2>3, <3>1 DEF Handed
    <3> QED
      BY <1>4, <2>1, <3>1, <3>2
  <2>6. CASE TakeEmpty(Head(jobs))
    <3>1. RoutesOf' = RoutesOf /\ cur' = cur /\ new_route' = new_route
      BY <2>6 DEF TakeEmpty, RoutesOf
    <3>2. Handed' \subseteq Handed
      BY <2>3, <3>1 DEF Handed
    <3> QED
      BY <1>4, <2>1, <3>1, <3>2
  <2> QED
    BY <1>1, <1>12, <2>4, <2>5, <2>6, TakeCases DEF TakePaired
<1>13. CASE put_accepted
  <2>1. /\ UNCHANGED <<asg, built, render, jobs, new_route>>
        /\ cur \in Pictures /\ cur # NoPicture
    BY <1>13, AtWork, NoPictureFacts
       DEF put_accepted, Pushing, apiVars, frameVars
  <2>2. JobsOf' = JobsOf /\ cur \in Handed
    BY <2>1 DEF JobsOf, Handed
  <2>3. CASE PutAltref
    <3>1. /\ cur' \in Pictures /\ cur'.tok = cur.tok /\ coding = "VP9"
          /\ cur'.surf = cur.surf /\ cur'.fence = cur.fence
      BY <2>1, <2>3 DEF PutAltref, Pictures
    <3>2. RoutesOf' = RoutesOf \cup {cur'}
      BY <1>1, <2>3, <3>1, RouteMoves
    <3>3. Handed' \subseteq Handed \cup {cur'}
      BY <2>2, <3>2 DEF Handed
    <3>4. \A i : /\ SameFence(i, cur') <=> SameFence(i, cur)
                 /\ SameFence(cur', i) <=> SameFence(cur, i)
      BY <3>1 DEF SameFence
    <3>5. SameFence(cur', cur') /\ SameFence(cur, cur)
      BY DEF SameFence
    <3>6. \A i, j \in Handed' : SameFence(i, j) => i.tok = j.tok
      BY <1>2, <2>2, <3>1, <3>3, <3>4
    <3>7. \A i \in built, j \in Handed' : ~SameFence(i, j)
      BY <1>2, <2>2, <3>3, <3>4
    <3>8. render # NoPicture =>
            \A j \in built \cup Handed' \cup {asg.route} : ~SameFence(render, j)
      BY <1>2, <2>2, <3>3, <3>4
    <3>9. asg.route # NoPicture =>
            \A j \in built \cup Handed' : ~SameFence(asg.route, j)
      BY <1>2, <2>2, <3>3, <3>4
    <3> QED
      BY <1>1, <1>2, <2>1, <3>1, <3>6, <3>7, <3>8, <3>9 DEF Single, SameFence
  <2>4. ASSUME cur' = NoPicture, RoutesOf' \subseteq RoutesOf \cup {cur}
        PROVE  Single'
    <3>1. Handed' \subseteq Handed
      BY <2>2, <2>4 DEF Handed
    <3> QED
      BY <1>4, <2>1, <2>4, <3>1
  <2>5. ASSUME generic' = generic, h264_routes' \subseteq h264_routes \cup {cur}
        PROVE  RoutesOf' \subseteq RoutesOf \cup {cur}
    BY <2>5 DEF RoutesOf
  <2>6. CASE /\ cur' = NoPicture /\ generic' = generic
             /\ \/ PutOwn \/ PutPaired \/ PutReplaced \/ PutUnroutable
                \/ (PutUnref \/ PutShown) /\ h264_routes' = h264_routes
    <3>1. h264_routes' \subseteq h264_routes \cup {cur}
      BY <2>6 DEF PutOwn, PutPaired, PutReplaced, PutUnroutable
    <3> QED
      BY <2>4, <2>5, <2>6, <3>1
  <2> QED
    BY <1>1, <1>13, <2>3, <2>6, PutCases
<1>14. CASE put_failed
  <2>1. /\ UNCHANGED <<asg, built, render, jobs, new_route>>
        /\ cur' = NoPicture
    BY <1>14 DEF put_failed, apiVars, frameVars
  <2>2. RoutesOf' \subseteq RoutesOf /\ JobsOf' = JobsOf
    BY <1>1, <1>14, <2>1, RouteMoves DEF JobsOf
  <2>3. Handed' \subseteq Handed
    BY <2>1, <2>2 DEF Handed
  <2> QED
    BY <1>4, <2>1, <2>3
<1>15. ASSUME NEW frame \in Packets, Drains(frame)
       PROVE  Single'
  <2>1. /\ UNCHANGED <<render, built, jobs, cur, new_route>>
        /\ pc \in {"loop", "put", "after", "eos"}
    BY <1>1, <1>15, DrainCases
  <2>2. asg.route = NoPicture
    BY <2>1 DEF Base, Phased
  <2>3. CASE UNCHANGED <<h264_routes, generic, asg>>
    BY <1>4, <1>5, <2>1, <2>3
  <2>4. ASSUME NEW r \in RoutesOf, Consumes(r, frame)
        PROVE  Single'
    <3>1. RoutesOf' \subseteq RoutesOf /\ JobsOf' = JobsOf
      BY <1>1, <2>1, <2>4, RouteMoves DEF JobsOf
    <3>2. Handed' \subseteq Handed /\ r \in Handed
      <4>1. r # NoPicture
        BY <1>1, CarrierTypes, NoPictureFacts
      <4> QED
        BY <2>1, <3>1, <4>1 DEF Handed
    <3>3. asg' = asg \/ asg' = [route |-> r, frame |-> frame]
      BY <2>4 DEF Consumes, Dropped, Assigning
    <3>4. CASE asg' = asg
      BY <1>4, <2>1, <3>2, <3>4
    <3>5. CASE asg' = [route |-> r, frame |-> frame]
      <4>1. \A j \in Handed' : ~SameFence(r, j)
        BY <1>15, <2>4, ConsumedIsAlone
      <4>2. \A i, j : SameFence(i, j) <=> SameFence(j, i)
        BY DEF SameFence
      <4>3. \A j \in built \cup Handed' : ~SameFence(r, j)
        BY <1>2, <3>2, <4>1, <4>2
      <4>4. asg'.route = r
        BY <3>5
      <4>5. /\ \A i, j \in Handed' : SameFence(i, j) => i.tok = j.tok
            /\ \A i \in built, j \in Handed' : ~SameFence(i, j)
        BY <1>2, <3>2
      <4>6. render # NoPicture =>
              \A j \in built \cup Handed' \cup {r} : ~SameFence(render, j)
        BY <1>2, <3>2
      <4> QED
        BY <1>1, <1>2, <2>1, <4>3, <4>4, <4>5, <4>6 DEF Single, SameFence
    <3> QED
      BY <3>3, <3>4, <3>5
  <2> QED
    BY <1>1, <1>15, <2>3, <2>4, DrainCases
<1>16. CASE assign_bind \/ assign_reject
  <2>1. /\ UNCHANGED <<render, built, jobs, cur, new_route, h264_routes,
                       generic>>
        /\ asg'.route = NoPicture
    BY <1>16, AssignCases, NoPictureFacts
  <2> QED
    BY <1>4, <1>5, <2>1
<1>17. CASE stall_timeout
  <2>1. /\ UNCHANGED <<render, built, jobs, cur, new_route, asg>>
        /\ h264_routes' = {} /\ generic' = <<>>
    BY <1>17 DEF stall_timeout, apiVars, submitVars
  <2>2. Handed' \subseteq Handed
    BY <2>1 DEF Handed, JobsOf, RoutesOf
  <2> QED
    BY <1>4, <2>1, <2>2
<1>18. ASSUME NEW packet \in mpp, mpp_lose(packet)
       PROVE  Single'
  <2>1. UNCHANGED <<render, built, jobs, h264_routes, generic, cur, new_route,
                    asg>>
    BY <1>18 DEF mpp_lose, apiVars, submitVars, routeVars, frameVars
  <2> QED
    BY <1>4, <1>5, <2>1
<1> QED
  BY <1>1, <1>6, <1>7, <1>8, <1>9, <1>9f, <1>10, <1>11, <1>12, <1>13, <1>14,
     <1>15, <1>16, <1>17, <1>18, StepCases

(* The verdict of s is given by i, and nothing is left that could give it  *)
(* again.                                                                  *)
GivenBy(s, i) ==
  /\ i \in Carriers /\ i # NoPicture /\ i.surf = s /\ i.fence = fence[s]
  /\ \A j \in Carriers' : ~SameFence(i, j)

SameVerdict(s) ==
  decoded'[s] = decoded[s] /\ decode_failed'[s] = decode_failed[s]

GivenOne == \A s \in Surfaces : SameVerdict(s) \/ \E i : GivenBy(s, i)

(* Between two BeginPicture calls a verdict changes only by the hand of    *)
(* the one carrier of its fence, which is gone afterwards.                 *)
LEMMA GivenOnce ==
  ASSUME coding # "AVC", Base, Numbered, Routed, Fed, InStep, Single,
         [Next]_vars,
         ~\E s \in Surfaces, second \in BOOLEAN : rk_BeginPicture(s, second)
  PROVE  GivenOne
<1>1. TypeOK /\ coding' = coding
  BY StepCases DEF Base
<1>2. /\ \A i, j \in Handed : SameFence(i, j) => i.tok = j.tok
      /\ \A i \in built, j \in Handed : ~SameFence(i, j)
      /\ render # NoPicture =>
           \A j \in built \cup Handed \cup {asg.route} : ~SameFence(render, j)
      /\ asg.route # NoPicture =>
           \A j \in built \cup Handed : ~SameFence(asg.route, j)
      /\ coding # "VP9" /\ cur # NoPicture => new_route
  BY DEF Single
<1>3. /\ built \subseteq Pictures /\ Handed \subseteq Pictures
      /\ NoPicture \notin Pictures
      /\ asg.route \in Pictures \cup {NoPicture}
      /\ render \in Pictures \cup {NoPicture}
      /\ \A j \in Pictures :
           ~SameFence(j, NoPicture) /\ ~SameFence(NoPicture, j)
      /\ JobsOf \subseteq Handed /\ RoutesOf \subseteq Handed
      /\ cur # NoPicture => cur \in Handed
      /\ \A i, j : SameFence(i, j) <=> SameFence(j, i)
  <2>1. /\ built \subseteq Pictures /\ Handed \subseteq Pictures
        /\ NoPicture \notin Pictures
        /\ asg.route \in Pictures \cup {NoPicture}
        /\ render \in Pictures \cup {NoPicture}
        /\ \A j \in Pictures :
             ~SameFence(j, NoPicture) /\ ~SameFence(NoPicture, j)
    BY <1>1, Places, CarrierTypes, NoPictureFacts DEF TypeOK
  <2>2. JobsOf \subseteq Pictures /\ RoutesOf \subseteq Pictures
    BY <1>1, CarrierTypes
  <2> QED
    BY <2>1, <2>2 DEF Handed, SameFence
<1>4. \A j \in Carriers' : \/ j \in built' \/ j \in JobsOf' \/ j \in RoutesOf'
                           \/ j = cur' \/ j = asg'.route \/ j = render'
  BY DEF Carriers
<1>5. ASSUME UNCHANGED <<decoded, decode_failed>>
      PROVE  GivenOne
  BY <1>5 DEF SameVerdict, GivenOne
<1>6. ASSUME NEW i \in Carriers, i \in Pictures, NEW ok \in BOOLEAN,
             Complete(i.surf, i.fence, ok),
             \A j \in Carriers' : ~SameFence(i, j)
      PROVE  GivenOne
  <2>1. i.surf \in Surfaces /\ i # NoPicture
    BY <1>3, <1>6 DEF Pictures
  <2>2. \A t \in Surfaces : t # i.surf \/ fence[i.surf] # i.fence =>
          SameVerdict(t)
    BY <1>1, <1>6, <2>1, CompleteFacts DEF SameVerdict
  <2>3. fence[i.surf] = i.fence => GivenBy(i.surf, i)
    BY <1>6, <2>1 DEF GivenBy
  <2> QED
    BY <2>2, <2>3 DEF GivenOne
<1>7. ASSUME NEW R, decoded' = decoded,
             decode_failed' = FailAll(R, fence, decoded, decode_failed),
             \A i \in R : \/ i = NoPicture
                          \/ /\ i \in Carriers
                             /\ \A j \in Carriers' : ~SameFence(i, j)
      PROVE  GivenOne
  <2>1. /\ decoded \in [Surfaces -> BOOLEAN]
        /\ decode_failed \in [Surfaces -> BOOLEAN]
    BY <1>1 DEF TypeOK
  <2>2. ASSUME NEW s \in Surfaces
        PROVE  SameVerdict(s) \/ \E i : GivenBy(s, i)
    <3>1. \/ decode_failed'[s] = decode_failed[s]
          \/ \E r \in R : r.surf = s /\ r.fence = fence[s]
      <4> DEFINE hit == ~decoded[s] /\ \E r \in R : r.surf = s /\ r.fence = fence[s]
      <4>1. decode_failed'[s] = (decode_failed[s] \/ hit)
        BY <1>7 DEF FailAll
      <4>2. decode_failed[s] \in BOOLEAN
        BY <2>1
      <4>3. hit => \E r \in R : r.surf = s /\ r.fence = fence[s]
        OBVIOUS
      <4> HIDE DEF hit
      <4> QED
        BY <4>1, <4>2, <4>3
    <3>2. ASSUME NEW r \in R, r.surf = s, r.fence = fence[s]
          PROVE  GivenBy(s, r)
      <4>1. r # NoPicture
        BY <3>2, NoPictureFacts
      <4> QED
        BY <1>7, <3>2, <4>1 DEF GivenBy
    <3> QED
      BY <1>7, <3>1, <3>2 DEF SameVerdict
  <2> QED
    BY <2>2 DEF GivenOne
<1>8. CASE Quiet
  BY <1>5, <1>8 DEF Quiet, surfVars
<1>9. ASSUME NEW kind, end_build(kind)
      PROVE  GivenOne
  BY <1>5, <1>9 DEF end_build
<1>10. CASE end_failed
  BY <1>5, <1>10 DEF end_failed, surfVars
<1>10f. ASSUME NEW i \in built, rk_mpp_dec_fail_surface(i)
        PROVE  GivenOne
  <2>1. /\ UNCHANGED <<decoded, JobsOf, RoutesOf, cur, asg, render>>
        /\ built' = built \ {i}
        /\ decode_failed' = FailAll({i}, fence, decoded, decode_failed)
    BY <1>10f DEF rk_mpp_dec_fail_surface, submitVars, routeVars, frameVars,
         JobsOf, RoutesOf
  <2>2. i \in Carriers /\ i \in Pictures
    BY <1>3 DEF Carriers
  <2>3. ASSUME NEW j \in Carriers'
        PROVE  ~SameFence(i, j)
    <3>1. \/ j \in built \ {i} \/ j \in Handed \/ j = asg.route
          \/ j = render \/ j = NoPicture
      BY <1>3, <1>4, <2>1
    <3>2. CASE j \in built \ {i}
      BY <3>2 DEF Single
    <3>3. CASE j \in Handed \/ j = NoPicture
      BY <1>2, <1>3, <2>2, <3>3
    <3>4. CASE j = asg.route \/ j = render
      BY <1>2, <1>3, <2>2, <3>4
    <3> QED
      BY <3>1, <3>2, <3>3, <3>4
  <2> QED
    BY <1>7, <2>1, <2>2, <2>3
<1>11. ASSUME NEW j \in built, rk_mpp_dec_enqueue_job(j)
       PROVE  GivenOne
  BY <1>5, <1>11 DEF rk_mpp_dec_enqueue_job, surfVars
<1>12. CASE stop_joined
  <2>1. /\ decoded' = decoded /\ built' = built /\ cur' = cur /\ asg' = asg
        /\ jobs' = <<>> /\ h264_routes' = {} /\ generic' = <<>>
        /\ render' = NoPicture /\ ctx # "live" /\ pc = "exited"
        /\ decode_failed' = FailAll(JobsOf \cup RoutesOf \cup {render}, fence,
                                    decoded, decode_failed)
    BY <1>12 DEF stop_joined, submitVars, frameVars
  <2>2. built = {} /\ cur = NoPicture /\ asg.route = NoPicture
    BY <2>1 DEF Base, Phased, Pushing
  <2>3. RoutesOf' = {} /\ JobsOf' = {}
    BY <2>1 DEF RoutesOf, JobsOf
  <2>4. \A j \in Carriers' : j = NoPicture
    BY <1>4, <2>1, <2>2, <2>3
  <2>5. \A i \in JobsOf \cup RoutesOf \cup {render} :
          i = NoPicture \/ (i \in Carriers /\ i \in Pictures)
    BY <1>3 DEF Carriers
  <2> QED
    BY <1>3, <1>7, <2>1, <2>4, <2>5
<1>13. CASE take_job
  <2>1. /\ UNCHANGED <<asg, built, render>> /\ jobs' = Tail(jobs)
        /\ Head(jobs) \in Pictures /\ jobs # <<>> /\ pc = "loop"
    BY <1>1, <1>13, TakeCases DEF take_job, apiVars
  <2>2. jobs \in Seq(Pictures) /\ cur = NoPicture /\ asg.route = NoPicture
    BY <1>1, <2>1 DEF TypeOK, Base, Phased, Pushing
  <2>3. CASE TakeEmpty(Head(jobs))
    <3>1. RoutesOf' = RoutesOf /\ cur' = cur
      BY <2>3 DEF TakeEmpty, RoutesOf
    <3>2. Head(jobs) \in JobsOf
      BY <2>1, <2>2, QueueMoves, AsEntries
    <3>3. Head(jobs) \in Carriers /\ Head(jobs) \in Handed
      BY <1>3, <3>2 DEF Carriers
    <3>4. /\ \A j \in RoutesOf : ~SameFence(Head(jobs), j)
          /\ \A j \in JobsOf' : ~SameFence(Head(jobs), j)
      BY <1>1, <2>1, <3>2, JobsApart, AsEntries
    <3>5. /\ \A j \in built : ~SameFence(Head(jobs), j)
          /\ ~SameFence(Head(jobs), render)
          /\ ~SameFence(Head(jobs), NoPicture)
      BY <1>2, <1>3, <2>1, <3>3
    <3>6. \A j \in Carriers' : ~SameFence(Head(jobs), j)
      BY <1>4, <2>1, <2>2, <3>1, <3>4, <3>5
    <3>7. Complete(Head(jobs).surf, Head(jobs).fence, TRUE)
      BY <2>3 DEF TakeEmpty
    <3> QED
      BY <1>6, <2>1, <3>3, <3>6, <3>7
  <2>4. CASE TakeRouted(Head(jobs)) \/ TakeHidden(Head(jobs))
    BY <1>5, <2>4 DEF TakeRouted, TakeHidden
  <2> QED
    BY <1>1, <1>13, <2>3, <2>4, TakeCases DEF TakePaired
<1>14. ASSUME put_accepted \/ put_failed, cur' = NoPicture,
              RoutesOf' \subseteq RoutesOf, \A r \in RoutesOf' : r.tok # cur.tok,
              NEW ok \in BOOLEAN, Complete(cur.surf, cur.fence, ok)
       PROVE  GivenOne
  <2>1. /\ UNCHANGED <<asg, built, render, jobs>> /\ pc = "put"
    BY <1>14 DEF put_accepted, put_failed, apiVars, frameVars
  <2>2. /\ cur \in Pictures /\ cur # NoPicture /\ asg.route = NoPicture
        /\ JobsOf' = JobsOf
    BY <2>1, AtWork, NoPictureFacts DEF Base, Phased, Pushing, JobsOf
  <2>3. cur \in Carriers /\ cur \in Handed
    BY <1>3, <2>2 DEF Carriers
  <2>4. \A j \in RoutesOf' : ~SameFence(cur, j)
    BY <1>2, <1>3, <1>14, <2>3
  <2>5. \A j \in JobsOf : ~SameFence(cur, j)
    BY <1>1, JobsApart
  <2>6. /\ \A j \in built : ~SameFence(cur, j)
        /\ ~SameFence(cur, render) /\ ~SameFence(cur, NoPicture)
    BY <1>2, <1>3, <2>2, <2>3
  <2>7. \A j \in Carriers' : ~SameFence(cur, j)
    BY <1>4, <1>14, <2>1, <2>2, <2>4, <2>5, <2>6
  <2> QED
    BY <1>6, <1>14, <2>2, <2>3, <2>7
<1>15. CASE put_accepted
  <2>1. cur \in Pictures /\ cur # NoPicture
    BY <1>15, AtWork, NoPictureFacts DEF put_accepted, Pushing
  <2>2. CASE PutAltref \/ PutOwn \/ PutPaired \/ PutReplaced \/ PutShown
    BY <1>5, <2>2
       DEF PutAltref, PutOwn, PutPaired, PutReplaced, PutShown
  <2>3. CASE PutUnroutable
    BY <1>2, <2>1, <2>3 DEF PutUnroutable
  <2>4. CASE /\ cur' = NoPicture /\ generic' = generic
             /\ h264_routes' = h264_routes /\ PutUnref
    <3>1. RoutesOf' = RoutesOf
      BY <2>4 DEF RoutesOf
    <3>2. \A r \in RoutesOf : r.tok # cur.tok
      BY <2>1, <2>4 DEF PutUnref, Fed
    <3>3. Complete(cur.surf, cur.fence, TRUE)
      BY <2>4 DEF PutUnref
    <3> QED
      BY <1>14, <1>15, <2>4, <3>1, <3>2, <3>3
  <2> QED
    BY <1>1, <1>15, <2>2, <2>3, <2>4, PutCases
<1>16. CASE put_failed
  <2>1. /\ generic' = generic_route_remove(cur.tok) /\ cur' = NoPicture
        /\ h264_routes' \subseteq h264_routes
        /\ \A r \in h264_routes' : r.tok # cur.tok
        /\ Complete(cur.surf, cur.fence, FALSE)
    BY <1>16 DEF put_failed, route_token
  <2>2. \A r \in Entries(generic') : r.tok # cur.tok
    <3>1. CASE coding = "VP9"
      BY <1>1, <2>1, <3>1, Removed DEF Fed
    <3>2. CASE coding # "VP9"
      <4>1. Entries(generic') \subseteq Entries(<<>>)
        BY <1>1, <2>1, <3>2, Removed DEF Routed
      <4> QED
        BY <4>1 DEF Entries
    <3> QED
      BY <3>1, <3>2
  <2>3. RoutesOf' \subseteq RoutesOf
    BY <1>1, <1>16, RouteMoves
  <2>4. \A r \in RoutesOf' : r.tok # cur.tok
    BY <2>1, <2>2, AsEntries
  <2> QED
    BY <1>14, <1>16, <2>1, <2>3, <2>4
<1>17. ASSUME NEW frame \in Packets, Drains(frame)
       PROVE  GivenOne
  BY <1>1, <1>5, <1>17, DrainCases
<1>18. CASE assign_bind \/ assign_reject
  <2>1. /\ UNCHANGED <<render, built, jobs, cur, h264_routes, generic>>
        /\ asg' = NoAssign /\ asg.route \in Pictures
    BY <1>18, AssignCases
  <2>2. asg.route \in Carriers /\ asg.route # NoPicture /\ asg'.route = NoPicture
    BY <1>3, <2>1, NoPictureFacts DEF Carriers
  <2>3. RoutesOf' = RoutesOf /\ JobsOf' = JobsOf
    BY <2>1 DEF RoutesOf, JobsOf
  <2>4. \A j \in Carriers' : ~SameFence(asg.route, j)
    BY <1>2, <1>3, <1>4, <2>1, <2>2, <2>3
  <2>5. \A t \in Surfaces : t # asg.route.surf
                            \/ asg.route.fence # fence[asg.route.surf] =>
          SameVerdict(t)
    BY <1>18, AssignCases DEF SameVerdict
  <2>6. asg.route.fence = fence[asg.route.surf] =>
          GivenBy(asg.route.surf, asg.route)
    BY <2>2, <2>4 DEF GivenBy
  <2> QED
    BY <2>5, <2>6 DEF GivenOne
<1>19. CASE stall_timeout
  <2>1. /\ UNCHANGED <<decoded, render, built, jobs, cur, asg>>
        /\ h264_routes' = {} /\ generic' = <<>> /\ pc = "loop"
        /\ decode_failed' = FailAll(RoutesOf, fence, decoded, decode_failed)
    BY <1>19 DEF stall_timeout, apiVars, submitVars, OutputTimesOut
  <2>2. cur = NoPicture /\ asg.route = NoPicture
    BY <2>1 DEF Base, Phased, Pushing
  <2>3. RoutesOf' = {} /\ JobsOf' = JobsOf
    BY <2>1 DEF RoutesOf, JobsOf
  <2>4. ASSUME NEW i \in RoutesOf
        PROVE  i \in Carriers /\ \A j \in Carriers' : ~SameFence(i, j)
    <3>1. i \in Carriers /\ i \in Handed
      BY <1>3 DEF Carriers
    <3>2. \A j \in JobsOf : ~SameFence(i, j)
      BY <1>1, JobsApart
    <3>3. /\ \A j \in built : ~SameFence(i, j)
          /\ ~SameFence(i, render) /\ ~SameFence(i, NoPicture)
      BY <1>2, <1>3, <3>1
    <3> QED
      BY <1>4, <2>1, <2>2, <2>3, <3>1, <3>2, <3>3
  <2> QED
    BY <1>7, <2>1, <2>4
<1>20. ASSUME NEW packet \in mpp, mpp_lose(packet)
       PROVE  GivenOne
  BY <1>5, <1>20 DEF mpp_lose, surfVars
<1> QED
  BY <1>1, <1>8, <1>9, <1>10, <1>10f, <1>11, <1>12, <1>13, <1>15, <1>16,
     <1>17, <1>18, <1>19, <1>20, StepCases

(* BeginPicture in a context without fields: the fence moves, the surface  *)
(* is pending with no frame, and the other surfaces stay as they are.      *)
LEMMA BeginOpens ==
  ASSUME coding # "AVC", Base, NEW s \in Surfaces,
         NEW second \in BOOLEAN, rk_BeginPicture(s, second)
  PROVE  /\ fence'[s] = fence[s] + 1 /\ fence[s] \in Nat
         /\ render' \in Pictures /\ render'.surf = s
         /\ render'.fence = fence'[s]
         /\ ~decoded'[s] /\ ~decode_failed'[s] /\ bound'[s] = 0
         /\ want'[s] = begins + 1 /\ begins' = begins + 1
         /\ \A t \in Surfaces : t # s =>
              /\ fence'[t] = fence[t] /\ decoded'[t] = decoded[t]
              /\ bound'[t] = bound[t] /\ want'[t] = want[t]
              /\ decode_failed'[t] = decode_failed[t]
<1>1. TypeOK /\ ~Continuation(s)
  BY DEF Base, Continuation
<1>2. /\ \A t \in Surfaces : t # s => fence'[t] = fence[t]
      /\ fence'[s] = fence[s] + 1 /\ fence[s] \in Nat
      /\ render' \in Pictures /\ render'.surf = s /\ render'.fence = fence'[s]
  BY <1>1, BeginFence DEF TypeOK
<1>3. /\ want' = [want EXCEPT ![s] = IF second THEN want[s] ELSE begins + 1]
      /\ bound' = [bound EXCEPT ![s] = IF Continuation(s) THEN @ ELSE 0]
      /\ begins' = begins + 1 /\ MayBegin(s, second)
  BY DEF rk_BeginPicture
<1>4. ~second
  <2>1. "field" \notin KindsOf(coding)
    BY <1>1, CodecFacts DEF KindsOf
  <2> QED
    BY <1>3, <2>1 DEF MayBegin
<1>5. want'[s] = begins + 1 /\ bound'[s] = 0
  BY <1>1, <1>3, <1>4 DEF TypeOK
<1>6. /\ ~decoded'[s] /\ ~decode_failed'[s]
      /\ \A t \in Surfaces : t # s =>
           /\ decoded'[t] = decoded[t] /\ decode_failed'[t] = decode_failed[t]
           /\ bound'[t] = bound[t] /\ want'[t] = want[t]
  BY <1>1, BeginVerdicts
<1> QED
  BY <1>2, <1>3, <1>5, <1>6

(* Every step keeps the surfaces of pictures under way pending.            *)
LEMMA OpenKept ==
  ASSUME Base, Numbered, Routed, Behind, Fed, InStep, Single, Open, [Next]_vars
  PROVE  Open'
<1>1. TypeOK /\ coding' = coding
  BY StepCases DEF Base
<1> SUFFICES ASSUME coding # "AVC"
             PROVE  Open'
  BY <1>1 DEF Open
<1>2. /\ \A j \in Carriers : j # NoPicture =>
           j.fence # 0 /\ (Stale(j) \/ ~Settled(j.surf))
      /\ \A s \in Surfaces : bound[s] # 0 => decoded[s]
      /\ \A s \in Surfaces : want[s] <= begins
  BY DEF Open
<1>3. \A j \in Carriers : j # NoPicture =>
        j.surf \in Surfaces /\ j.fence \in Nat
  BY <1>1, CarrierTypes DEF Pictures
<1>4. ASSUME NEW s \in Surfaces, NEW second \in BOOLEAN,
             rk_BeginPicture(s, second)
      PROVE  Open'
  <2>1. /\ fence'[s] = fence[s] + 1 /\ fence[s] \in Nat
        /\ render' \in Pictures /\ render'.surf = s
        /\ render'.fence = fence'[s]
        /\ ~decoded'[s] /\ ~decode_failed'[s] /\ bound'[s] = 0
        /\ want'[s] = begins + 1 /\ begins' = begins + 1
    BY <1>4, BeginOpens
  <2>2. \A t \in Surfaces : t # s =>
          /\ fence'[t] = fence[t] /\ decoded'[t] = decoded[t]
          /\ bound'[t] = bound[t] /\ want'[t] = want[t]
          /\ decode_failed'[t] = decode_failed[t]
    BY <1>4, BeginOpens
  <2>3. ASSUME NEW j \in Carriers', j # NoPicture
        PROVE  /\ j.fence # 0
               /\ fence'[j.surf] # j.fence
                    \/ (~decoded'[j.surf] /\ ~decode_failed'[j.surf])
    <3>1. CASE j = render'
      BY <2>1, <3>1
    <3>2. CASE j # render'
      <4>1. Known(j)
        BY <2>3, <3>2, Lineage
      <4>2. PICK i \in Carriers : i # NoPicture /\ SameFence(i, j)
        BY <2>3, <4>1 DEF Known, Kin
      <4>3. j.surf \in Surfaces /\ j.fence \in Nat /\ j.fence # 0
        BY <1>2, <1>3, <4>2 DEF SameFence
      <4>4. j.fence <= fence[j.surf]
        BY <4>2 DEF Behind, SameFence
      <4>5. CASE j.surf = s
        BY <2>1, <4>3, <4>4, <4>5
      <4>6. CASE j.surf # s /\ fence[j.surf] = j.fence
        <5>1. ~decoded[j.surf] /\ ~decode_failed[j.surf]
          BY <1>2, <4>2, <4>6 DEF SameFence, Stale, Settled
        <5> QED
          BY <2>2, <4>3, <4>6, <5>1
      <4>7. CASE j.surf # s /\ fence[j.surf] # j.fence
        BY <2>2, <4>3, <4>7
      <4> QED
        BY <4>5, <4>6, <4>7
    <3> QED
      BY <3>1, <3>2
  <2>4. \A t \in Surfaces : bound'[t] # 0 => decoded'[t]
    BY <1>2, <2>1, <2>2
  <2>5. \A t \in Surfaces : want'[t] <= begins'
    <3>1. begins \in Nat /\ \A t \in Surfaces : want[t] \in Nat
      BY <1>1 DEF TypeOK
    <3> QED
      BY <1>2, <2>1, <2>2, <3>1
  <2> QED
    BY <2>3, <2>4, <2>5 DEF Open, Stale, Settled
<1>5. ASSUME ~\E s \in Surfaces, second \in BOOLEAN :
               rk_BeginPicture(s, second)
      PROVE  Open'
  <2>1. /\ want' = want /\ fence' = fence /\ begins' = begins
        /\ bound' = bound \/ assign_bind \/ assign_reject
    BY <1>5, AppStays
  <2>2. \A j \in Carriers' : Known(j)
    BY <1>5, Lineage
  <2>3. \A s \in Surfaces : SameVerdict(s) \/ \E i : GivenBy(s, i)
    BY <1>5, GivenOnce DEF GivenOne
  <2>4. ASSUME NEW j \in Carriers', j # NoPicture
        PROVE  /\ j.fence # 0
               /\ fence'[j.surf] # j.fence
                    \/ (~decoded'[j.surf] /\ ~decode_failed'[j.surf])
    <3>1. PICK i \in Carriers : i # NoPicture /\ SameFence(i, j)
      BY <2>2, <2>4 DEF Known, Kin
    <3>2. j.surf \in Surfaces /\ j.fence # 0
      BY <1>2, <1>3, <3>1 DEF SameFence
    <3>3. ASSUME fence[j.surf] = j.fence
          PROVE  ~decoded'[j.surf] /\ ~decode_failed'[j.surf]
      <4>1. ~decoded[j.surf] /\ ~decode_failed[j.surf]
        BY <1>2, <3>1, <3>3 DEF SameFence, Stale, Settled
      <4>2. \A k : ~GivenBy(j.surf, k)
        BY <2>4, <3>3 DEF GivenBy, SameFence
      <4> QED
        BY <2>3, <3>2, <4>1, <4>2 DEF SameVerdict
    <3> QED
      BY <2>1, <3>2, <3>3
  <2>5. ASSUME NEW s \in Surfaces, bound'[s] # 0
        PROVE  decoded'[s]
    <3>1. CASE bound[s] # 0
      <4>1. decoded[s]
        BY <1>2, <3>1
      <4>2. \A i : ~GivenBy(s, i)
        BY <1>2, <4>1 DEF GivenBy, Stale, Settled
      <4> QED
        BY <2>3, <4>1, <4>2 DEF SameVerdict
    <3>2. CASE bound[s] = 0
      BY <2>1, <2>5, <3>2, AssignCases
    <3> QED
      BY <3>1, <3>2
  <2> QED
    BY <1>2, <2>1, <2>4, <2>5 DEF Open, Stale, Settled
<1> QED
  BY <1>4, <1>5

(* The mapping into SurfaceFence, by name.                                 *)
VerdictMap == [s \in Surfaces |-> IF coding = "AVC" THEN "idle" ELSE Verdict(s)]
AskedMap   == [s \in Surfaces |-> IF coding = "AVC" THEN 0 ELSE want[s]]
ShownMap   == [s \in Surfaces |-> IF coding = "AVC" THEN 0 ELSE bound[s]]

(* Giving up some pending pictures, or none.                               *)
LEMMA MapsToGiveUp ==
  ASSUME coding # "AVC", UNCHANGED <<coding, fence, want, bound, decoded>>,
         \A s \in Surfaces : decode_failed[s] => decode_failed'[s]
  PROVE  Fence!Next
<1> DEFINE dropped == {t \in Surfaces : VerdictMap[t] = "pending"
                                        /\ decode_failed'[t]}
<1>1. dropped \in SUBSET Fence!Pending
  BY DEF Fence!Pending, VerdictMap
<1>2. \A t \in Surfaces :
        Verdict(t)' = IF t \in dropped THEN "failed" ELSE Verdict(t)
  BY DEF Verdict, VerdictMap
<1>3. VerdictMap' = [t \in Surfaces |-> IF t \in dropped THEN "failed"
                                        ELSE VerdictMap[t]]
  <2> HIDE DEF dropped
  <2> QED
    BY <1>2 DEF VerdictMap
<1>4. UNCHANGED <<AskedMap, ShownMap>>
  BY DEF AskedMap, ShownMap
<1> HIDE DEF dropped
<1>5. Fence!GiveUp(dropped)
  BY <1>3, <1>4 DEF Fence!GiveUp, VerdictMap, AskedMap, ShownMap
<1> QED
  BY <1>1, <1>5 DEF Fence!Next

(* Completing a pending picture, with its frame or with none.              *)
LEMMA MapsToShow ==
  ASSUME coding # "AVC", TypeOK, UNCHANGED <<coding, fence, want>>,
         NEW s \in Surfaces, fence[s] # 0, ~Settled(s), decoded'[s],
         bound'[s] \in {0, want[s]},
         \A t \in Surfaces : t # s =>
           SameVerdict(t) /\ bound'[t] = bound[t]
  PROVE  Fence!Next
<1>1. VerdictMap[s] = "pending" /\ VerdictMap'[s] = "decoded"
  BY DEF VerdictMap, Verdict, Settled
<1>2. \A t \in Surfaces : t # s => VerdictMap'[t] = VerdictMap[t]
  BY DEF VerdictMap, Verdict, SameVerdict
<1>3. VerdictMap' = [VerdictMap EXCEPT ![s] = "decoded"]
  BY <1>1, <1>2 DEF VerdictMap
<1>4. ShownMap' = [ShownMap EXCEPT ![s] = bound'[s]]
  BY DEF ShownMap
<1>5. AskedMap' = AskedMap /\ AskedMap[s] = want[s]
  BY DEF AskedMap
<1>6. s \in Fence!Pending
  BY <1>1 DEF Fence!Pending, VerdictMap
<1>7. \A p : p = bound'[s] => Fence!Show(s, p)
  BY <1>3, <1>4, <1>5, <1>6
     DEF Fence!Show, VerdictMap, ShownMap, AskedMap
<1>8. \E p \in {0, AskedMap[s]} : Fence!Show(s, p)
  BY <1>5, <1>7
<1> QED
  BY <1>6, <1>8 DEF Fence!Next, AskedMap

(* BeginPicture asks for a picture.                                        *)
LEMMA MapsToAsk ==
  ASSUME coding # "AVC", Base, Open, NEW s \in Surfaces,
         NEW second \in BOOLEAN, rk_BeginPicture(s, second), coding' = coding
  PROVE  Fence!Next
<1>1. /\ fence'[s] = fence[s] + 1 /\ fence[s] \in Nat
      /\ ~decoded'[s] /\ ~decode_failed'[s] /\ bound'[s] = 0
      /\ want'[s] = begins + 1
  BY BeginOpens
<1>2. \A t \in Surfaces : t # s =>
        /\ fence'[t] = fence[t] /\ decoded'[t] = decoded[t]
        /\ bound'[t] = bound[t] /\ want'[t] = want[t]
        /\ decode_failed'[t] = decode_failed[t]
  BY BeginOpens
<1>3. VerdictMap'[s] = "pending"
  BY <1>1 DEF VerdictMap, Verdict
<1>4. \A t \in Surfaces : t # s => VerdictMap'[t] = VerdictMap[t]
  BY <1>2 DEF VerdictMap, Verdict
<1>5. VerdictMap' = [VerdictMap EXCEPT ![s] = "pending"]
  BY <1>3, <1>4 DEF VerdictMap
<1>6. AskedMap'[s] # AskedMap[s]
  <2>1. begins \in Nat /\ want[s] \in Nat /\ want[s] <= begins
    BY DEF Base, TypeOK, Open
  <2> QED
    BY <1>1, <2>1 DEF AskedMap
<1>7. AskedMap' = [AskedMap EXCEPT ![s] = AskedMap'[s]]
  BY <1>2 DEF AskedMap
<1>8. ShownMap' = [ShownMap EXCEPT ![s] = 0]
  BY <1>1, <1>2 DEF ShownMap
<1>9. Fence!Ask(s)
  BY <1>5, <1>6, <1>7, <1>8 DEF Fence!Ask, VerdictMap, AskedMap, ShownMap
<1> QED
  BY <1>9 DEF Fence!Next

(* Every step is a step of SurfaceFence.                                   *)
LEMMA FenceStep ==
  ASSUME PictureInv, Single, Open, [Next]_vars
  PROVE  [Fence!Next]_(Fence!vars)
<1>1. /\ Base /\ Numbered /\ Routed /\ Kinded /\ Behind
      /\ Fed /\ InStep /\ Wanted
  BY DEF PictureInv, FenceInv
<1>2. TypeOK /\ coding' = coding
  BY <1>1, StepCases DEF Base
<1>3. CASE coding = "AVC"
  <2>1. UNCHANGED <<VerdictMap, AskedMap, ShownMap>>
    BY <1>2, <1>3 DEF VerdictMap, AskedMap, ShownMap
  <2> QED
    BY <2>1 DEF Fence!vars, VerdictMap, AskedMap, ShownMap
<1>4. CASE coding # "AVC"
  <2>1. ASSUME NEW s \in Surfaces, NEW second \in BOOLEAN,
               rk_BeginPicture(s, second)
        PROVE  Fence!Next
    BY <1>1, <1>2, <1>4, <2>1, MapsToAsk
  <2>2. ASSUME ~\E s \in Surfaces, second \in BOOLEAN :
                 rk_BeginPicture(s, second)
        PROVE  Fence!Next
    <3>1. /\ want' = want /\ fence' = fence
          /\ bound' = bound \/ assign_bind \/ assign_reject
      BY <1>1, <2>2, AppStays
    <3>2. \A s \in Surfaces : SameVerdict(s) \/ \E i : GivenBy(s, i)
      BY <1>1, <1>4, <2>2, GivenOnce DEF GivenOne
    <3>3. \A s \in Surfaces : \A i : GivenBy(s, i) =>
            fence[s] # 0 /\ ~decoded[s] /\ ~decode_failed[s]
      BY <1>4 DEF GivenBy, Open, Stale, Settled
    <3>4. \A s \in Surfaces : decode_failed[s] => decode_failed'[s]
      BY <3>2, <3>3 DEF SameVerdict
    <3>5. TypeOK'
      BY <1>1, TypesKept
    <3>6. CASE bound' = bound /\ decoded' = decoded
      BY <1>2, <1>4, <3>1, <3>4, <3>6, MapsToGiveUp
    <3>7. ASSUME NEW i \in Pictures, NEW ok \in BOOLEAN,
                 Complete(i.surf, i.fence, ok), bound' = bound
          PROVE  Fence!Next
      <4>1. i.surf \in Surfaces
        BY <3>7 DEF Pictures
      <4>2. /\ fence[i.surf] = i.fence => (decoded'[i.surf] <=> ok)
            /\ \A t \in Surfaces : t # i.surf \/ fence[i.surf] # i.fence =>
                 SameVerdict(t)
        BY <1>2, <3>7, <4>1, CompleteFacts DEF SameVerdict
      <4>3. CASE decoded'[i.surf] /\ ~decoded[i.surf]
        <5>1. ~SameVerdict(i.surf)
          BY <4>3 DEF SameVerdict
        <5>2. \E k : GivenBy(i.surf, k)
          BY <3>2, <4>1, <5>1
        <5>3. fence[i.surf] # 0 /\ ~Settled(i.surf)
          BY <3>3, <4>1, <5>2 DEF Settled
        <5>4. \A t \in Surfaces : t # i.surf =>
                SameVerdict(t) /\ bound'[t] = bound[t]
          BY <3>7, <4>2
        <5>5. bound'[i.surf] \in {0, want[i.surf]}
          BY <1>1, <3>7, <4>1 DEF Wanted
        <5> QED
          BY <1>2, <1>4, <3>1, <4>1, <4>3, <5>3, <5>4, <5>5, MapsToShow
      <4>4. CASE ~(decoded'[i.surf] /\ ~decoded[i.surf])
        <5>1. \A t \in Surfaces : decoded'[t] = decoded[t]
          <6>1. decoded[i.surf] => decoded'[i.surf]
            BY <3>2, <3>3, <4>1 DEF SameVerdict
          <6>2. decoded[i.surf] \in BOOLEAN /\ decoded'[i.surf] \in BOOLEAN
            BY <1>2, <3>5, <4>1 DEF TypeOK
          <6>3. decoded'[i.surf] = decoded[i.surf]
            BY <4>4, <6>1, <6>2
          <6> QED
            BY <4>2, <6>3 DEF SameVerdict
        <5>2. decoded' = decoded
          BY <1>2, <3>5, <5>1 DEF TypeOK
        <5> QED
          BY <3>6, <3>7, <5>2
      <4> QED
        BY <4>3, <4>4
    <3>8. CASE Quiet
      BY <3>6, <3>8 DEF Quiet, surfVars
    <3>9. ASSUME NEW kind, end_build(kind)
          PROVE  Fence!Next
      BY <3>6, <3>9 DEF end_build
    <3>10. CASE end_failed
      BY <3>6, <3>10 DEF end_failed, surfVars
    <3>10f. ASSUME NEW j \in built, rk_mpp_dec_fail_surface(j)
            PROVE  Fence!Next
      BY <3>6, <3>10f
         DEF rk_mpp_dec_fail_surface, surfVars
    <3>11. ASSUME NEW j \in built, rk_mpp_dec_enqueue_job(j)
           PROVE  Fence!Next
      BY <3>6, <3>11 DEF rk_mpp_dec_enqueue_job, surfVars
    <3>12. CASE stop_joined
      BY <3>6, <3>12 DEF stop_joined
    <3>13. CASE take_job
      <4>1. bound' = bound /\ Head(jobs) \in Pictures
        BY <1>2, <3>13, TakeCases DEF take_job
      <4>2. CASE TakeEmpty(Head(jobs))
        BY <3>7, <4>1, <4>2 DEF TakeEmpty
      <4>3. CASE decoded' = decoded
        BY <3>6, <4>1, <4>3
      <4> QED
        BY <1>2, <3>13, <4>2, <4>3, TakeCases
           DEF TakePaired, TakeRouted, TakeHidden
    <3>14. CASE put_accepted
      <4>1. bound' = bound /\ cur \in Pictures
        BY <1>1, <3>14, AtWork DEF put_accepted, Pushing
      <4>2. CASE decoded' = decoded
        BY <3>6, <4>1, <4>2
      <4>3. CASE PutUnref
        BY <3>7, <4>1, <4>3 DEF PutUnref
      <4>4. CASE PutUnroutable
        BY <3>7, <4>1, <4>4 DEF PutUnroutable
      <4> QED
        BY <1>2, <3>14, <4>2, <4>3, <4>4, PutCases
           DEF PutAltref, PutOwn, PutPaired, PutReplaced, PutShown
    <3>15. CASE put_failed
      <4>1. bound' = bound /\ cur \in Pictures
        BY <1>1, <3>15, AtWork DEF put_failed, Pushing
      <4> QED
        BY <3>7, <3>15, <4>1 DEF put_failed
    <3>16. ASSUME NEW frame \in Packets, Drains(frame)
           PROVE  Fence!Next
      BY <1>2, <3>6, <3>16, DrainCases
    <3>17. CASE assign_reject
      <4>1. bound' = bound /\ asg.route \in Pictures
        BY <1>1, <3>17, AtWork DEF assign_reject
      <4> QED
        BY <3>7, <3>17, <4>1 DEF assign_reject
    <3>18. CASE assign_bind
      <4> DEFINE s == asg.route.surf
      <4>1. /\ pc = "assign" /\ s \in Surfaces /\ asg.route \in Pictures
            /\ \A t \in Surfaces : t # s \/ asg.route.fence # fence[s] =>
                 SameVerdict(t) /\ bound'[t] = bound[t]
        BY <1>1, <3>18, AssignCases DEF SameVerdict
      <4>2. asg.route \in Carriers /\ asg.route # NoPicture
        BY <4>1, NoPictureFacts DEF Carriers
      <4>3. CASE fence[s] = asg.route.fence
        <5>1. bound' = [bound EXCEPT ![s] = asg.frame.pic]
              /\ Complete(s, asg.route.fence, TRUE)
          BY <3>18, <4>3 DEF assign_bind
        <5>2. bound'[s] = asg.frame.pic
          BY <1>2, <4>1, <5>1 DEF TypeOK
        <5>3. decoded'[s]
          BY <1>2, <4>1, <4>3, <5>1, CompleteFacts, ZenonT(30)
        <5>4. fence[s] # 0 /\ ~Settled(s)
          BY <1>4, <4>2, <4>3 DEF Open, Stale
        <5>5. asg.frame.pic \in {0, want[s]}
          BY <1>1, <4>1, <4>2, <4>3 DEF Wanted, Stale
        <5> HIDE DEF s
        <5> QED
          BY <1>2, <1>4, <3>1, <4>1, <5>2, <5>3, <5>4, <5>5, MapsToShow
      <4>4. CASE fence[s] # asg.route.fence
        BY <3>6, <3>18, <4>4 DEF assign_bind
      <4> QED
        BY <4>3, <4>4
    <3>19. CASE stall_timeout
      BY <3>6, <3>19 DEF stall_timeout
    <3>20. ASSUME NEW packet \in mpp, mpp_lose(packet)
           PROVE  Fence!Next
      BY <3>6, <3>20 DEF mpp_lose, surfVars
    <3> QED
      BY <1>2, <2>2, <3>8, <3>9, <3>10, <3>10f, <3>11, <3>12, <3>13, <3>14,
         <3>15, <3>16, <3>17, <3>18, <3>19, <3>20, StepCases
  <2> QED
    BY <2>1, <2>2
<1> QED
  BY <1>3, <1>4

(* The context implements SurfaceFence for every HEVC and VP9 stream: each *)
(* BeginPicture gets one verdict, given once, with the picture that was    *)
(* asked for.                                                              *)
THEOREM ContextImplementsFence ==
  ASSUME "VP9" \notin MppLoses \cup MppStalls, "AVC" \notin ReuseInFlight
  PROVE  Spec => ImplementsFence
<1>1. Orderly
  BY DEF Orderly
<1>2. Init => Single /\ Open /\ Fence!Init
  <2> SUFFICES ASSUME Init PROVE Single /\ Open /\ Fence!Init
    OBVIOUS
  <2>1. /\ RoutesOf = {} /\ JobsOf = {} /\ built = {} /\ begins = 0
        /\ cur = NoPicture /\ render = NoPicture /\ asg = NoAssign
        /\ bound = [s \in Surfaces |-> 0] /\ want = [s \in Surfaces |-> 0]
        /\ fence = [s \in Surfaces |-> 0]
    BY DEF Init, RoutesOf, JobsOf
  <2>2. Carriers = {NoPicture} /\ Handed = {} /\ asg.route = NoPicture
    BY <2>1, NoPictureFacts DEF Carriers, Handed
  <2>3. Single /\ Open
    BY <2>1, <2>2 DEF Single, Open
  <2>4. /\ VerdictMap = [s \in Surfaces |-> "idle"]
        /\ AskedMap = [s \in Surfaces |-> 0]
        /\ ShownMap = [s \in Surfaces |-> 0]
    BY <2>1 DEF VerdictMap, AskedMap, ShownMap, Verdict
  <2> QED
    BY <2>3, <2>4 DEF Fence!Init, VerdictMap, AskedMap, ShownMap
<1>3. PictureInv /\ Single /\ Open /\ [Next]_vars => (Single /\ Open)'
  BY SingleKept, OpenKept DEF PictureInv, FenceInv
<1>4. PictureInv /\ Single /\ Open /\ [Next]_vars
        => [Fence!Next]_(Fence!vars)
  BY FenceStep
<1> QED
  BY <1>1, <1>2, <1>3, <1>4, PictureInvariant, PTL
     DEF Spec, ImplementsFence, Fence!Spec
=============================================================================
