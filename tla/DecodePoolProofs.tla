-------------------------- MODULE DecodePoolProofs --------------------------
(***************************************************************************)
(* The buffer pool for any number of surfaces, buffers, pictures and       *)
(* tries: who holds the pool, which frames MPP hands out, what the buffer  *)
(* a surface shows holds, and when a push may fail.                        *)
(***************************************************************************)
EXTENDS DecodePool, FiniteSetTheorems, TLAPS

Users == {s \in Surfaces : has_pool[s]}

(* The references are the context's and the surfaces'; the group holds the *)
(* counted buffers and those of the growth under way; without a pool       *)
(* nothing is left.                                                        *)
Counted ==
  /\ pool = "alive" =>
       /\ refs = Cardinality(Users) + (IF ctx = "gone" THEN 0 ELSE 1)
       /\ refs > 0
       /\ count >= PoolCount
       /\ committed = 0 .. count + added - 1
  /\ pool # "alive" => refs = 0 /\ Users = {} /\ committed = {}
  /\ pool = "destroyed" => ctx = "gone"
  /\ added > 0 => pc = "grow" /\ pool = "alive"

(* A push has its job at the head of the queue; a context that is gone has *)
(* left nothing in the worker or in MPP.                                   *)
Staged ==
  /\ pc \in {"put", "full", "grow"} => jobs # <<>>
  /\ ctx = "gone" => pc = "loop" /\ jobs = <<>> /\ input = <<>> /\ out = <<>>
  /\ \A k \in DOMAIN jobs : jobs[k].pic # 0
  /\ \A k \in DOMAIN input : input[k] # 0

(* The info-change frame is the last one MPP gives until it is read; every *)
(* other frame is in a buffer of the pool, if there is one, and the buffer *)
(* holds its picture.                                                      *)
Framed ==
  /\ \A k \in DOMAIN out : out[k].pic = 0 => ~info_ready /\ k = Len(out)
  /\ \A k \in DOMAIN out :
       out[k].buf \in Indices => /\ out[k].buf \in committed
                                 /\ content[out[k].buf] = out[k].pic
  /\ \A k \in DOMAIN out :
       pool = "alive" /\ out[k].pic # 0 => out[k].buf \in Indices

(* A surface that shows a pool buffer holds the frame and the pool.        *)
Shown ==
  \A s \in Surfaces : backing[s] \in Indices =>
    /\ has_pool[s] /\ frame[s] = backing[s]
    /\ backing[s] \in committed
    /\ content[backing[s]] = want[s]

(* Tries made since the push began, counting the one under way.            *)
Step == IF pc = "full" THEN 1 ELSE IF pc = "grow" THEN StarvedTries ELSE 0

(* A push that has drained no frame and met no failed commit has grown the *)
(* pool once for every StarvedTries of its tries.                          *)
Tried ==
  /\ pc \in {"loop", "after"} => tries = 0 /\ starved = 0 /\ got_frame = FALSE
  /\ pc = "grow" => starved = 0
  /\ pc \in {"put", "full", "grow"} /\ pool = "alive" /\ got_frame = FALSE
       /\ no_memory = FALSE =>
       \E g \in Nat : /\ tries = StarvedTries * g + starved + Step
                      /\ \/ count = PoolMax
                         \/ count >= PoolCount + g * PoolGrow

PoolInv == TypeOK /\ Counted /\ Staged /\ Framed /\ Shown /\ Tried

-----------------------------------------------------------------------------
(***************************************************************************)
(* The holders of the pool.                                                *)
(***************************************************************************)

(* There are finitely many holders, at most all surfaces.                  *)
LEMMA UsersFinite ==
  /\ IsFiniteSet(Users) /\ Cardinality(Users) \in Nat
  /\ Cardinality(Users) <= Cardinality(Surfaces)
  /\ Cardinality(Surfaces) \in Nat
<1>1. Users \in SUBSET Surfaces
  BY DEF Users
<1>2. IsFiniteSet(Surfaces)
  BY PoolAssumption
<1> QED
  BY <1>1, <1>2, FS_Subset, FS_CardinalityType

(* The same for the holders after a step.                                  *)
LEMMA UsersFinitePrime ==
  /\ IsFiniteSet(Users') /\ Cardinality(Users') \in Nat
  /\ Cardinality(Users') <= Cardinality(Surfaces)
<1>1. Users' \in SUBSET Surfaces
  BY DEF Users
<1>2. IsFiniteSet(Surfaces)
  BY PoolAssumption
<1> QED
  BY <1>1, <1>2, FS_Subset, FS_CardinalityType

(* A surface that drops the pool gives back what it held.                  *)
LEMMA UsersDrop ==
  ASSUME has_pool \in [Surfaces -> BOOLEAN], NEW s \in Surfaces,
         has_pool' = [has_pool EXCEPT ![s] = FALSE]
  PROVE  /\ Users' = Users \ {s}
         /\ Cardinality(Users') = Cardinality(Users) - PoolRefs(s)
<1>1. Users' = Users \ {s}
  BY DEF Users
<1>2. s \in Users <=> has_pool[s]
  BY DEF Users
<1>3. Cardinality(Users \ {s})
        = IF s \in Users THEN Cardinality(Users) - 1 ELSE Cardinality(Users)
  BY UsersFinite, FS_RemoveElement
<1> QED
  BY <1>1, <1>2, <1>3, UsersFinite DEF PoolRefs

(* A surface that takes the pool is one more holder, unless it was one.    *)
LEMMA UsersTake ==
  ASSUME has_pool \in [Surfaces -> BOOLEAN], NEW s \in Surfaces,
         has_pool' = [has_pool EXCEPT ![s] = TRUE]
  PROVE  Cardinality(Users') = Cardinality(Users) - PoolRefs(s) + 1
<1>1. Users' = Users \cup {s}
  BY DEF Users
<1>2. s \in Users <=> has_pool[s]
  BY DEF Users
<1>3. Cardinality(Users \cup {s})
        = IF s \in Users THEN Cardinality(Users) ELSE Cardinality(Users) + 1
  BY UsersFinite, FS_AddElement
<1> QED
  BY <1>1, <1>2, <1>3, UsersFinite DEF PoolRefs

(* A holder is counted, so nobody holds a pool that has no count.          *)
LEMMA UsersEmpty ==
  ASSUME NEW s \in Surfaces
  PROVE  /\ has_pool[s] => Cardinality(Users) > 0
         /\ Cardinality(Users) = 0 => Users = {}
<1>1. Cardinality(Users) = 0 => Users = {}
  BY UsersFinite, FS_EmptySet
<1>2. has_pool[s] => s \in Users
  BY DEF Users
<1> QED
  BY <1>1, <1>2, UsersFinite

-----------------------------------------------------------------------------
(***************************************************************************)
(* References are exact.                                                   *)
(***************************************************************************)

(* A surface unbound by BeginPicture or surface_destroy.                   *)
LEMMA UnbindCounts ==
  ASSUME TypeOK, Counted, Staged, NEW s \in Surfaces, Unbind(s),
         UNCHANGED <<count, added, ctx, pc>>
  PROVE  Counted'
<1>1. has_pool \in [Surfaces -> BOOLEAN] /\ refs \in Nat
  BY UsersFinite DEF TypeOK
<1>2. /\ Users' = Users \ {s}
      /\ Cardinality(Users') = Cardinality(Users) - PoolRefs(s)
  BY <1>1, UsersDrop DEF Unbind
<1>3. Cardinality(Users') = 0 => Users' = {}
  BY UsersFinitePrime, FS_EmptySet
<1>4. CASE pool = "alive" /\ refs = 1 /\ PoolRefs(s) = 1
  <2>1. Cardinality(Users) > 0
    BY <1>4, UsersEmpty DEF PoolRefs
  <2>2. ctx = "gone" /\ Cardinality(Users) = 1
    BY <1>4, <2>1, UsersFinite DEF Counted
  <2>3. pool' = "destroyed" /\ committed' = {} /\ refs' = 0
    BY <1>4 DEF Unbind, PoolUnref
  <2>4. Users' = {}
    BY <1>2, <1>3, <1>4, <2>2
  <2>5. added = 0
    BY <2>2 DEF Counted, Staged, TypeOK
  <2> QED
    BY <2>2, <2>3, <2>4, <2>5 DEF Counted
<1>5. CASE ~(pool = "alive" /\ refs = 1 /\ PoolRefs(s) = 1)
  <2>1. PoolRefs(s) \in {0, 1} /\ (pool # "alive" => PoolRefs(s) = 0)
    BY <1>1, UsersEmpty, FS_EmptySet DEF Counted, PoolRefs
  <2>2. pool' = pool /\ committed' = committed /\ refs' = refs - PoolRefs(s)
    BY <1>1, <1>5, <2>1 DEF Unbind, PoolUnref
  <2>3. pool # "alive" => Users' = {}
    BY <1>2 DEF Counted
  <2> QED
    BY <1>1, <1>2, <1>5, <2>1, <2>2, <2>3, UsersFinite DEF Counted
<1> QED
  BY <1>4, <1>5

(* A frame, or none, bound to a surface by the worker.                     *)
LEMMA BindCounts ==
  ASSUME TypeOK, Counted, ctx # "gone", NEW s \in Surfaces,
         NEW i, Bind(s, i) \/ BindCopied(s),
         UNCHANGED <<pool, committed, count, added, ctx>>, added = 0
  PROVE  Counted'
<1>1. has_pool \in [Surfaces -> BOOLEAN] /\ refs \in Nat /\ count \in Nat
           /\ PoolRefs(s) \in {0, 1}
  BY UsersFinite DEF TypeOK, PoolRefs
<1>2. CASE has_pool' = [has_pool EXCEPT ![s] = TRUE] /\ pool = "alive"
           /\ refs' = refs - PoolRefs(s) + 1
  <2>1. Cardinality(Users') = Cardinality(Users) - PoolRefs(s) + 1
    BY <1>1, <1>2, UsersTake
  <2> QED
    BY <1>1, <1>2, <2>1, UsersFinite, UsersFinitePrime DEF Counted
<1>3. CASE has_pool' = [has_pool EXCEPT ![s] = FALSE]
           /\ refs' = refs - PoolRefs(s)
  <2>1. /\ Users' = Users \ {s}
        /\ Cardinality(Users') = Cardinality(Users) - PoolRefs(s)
    BY <1>1, <1>3, UsersDrop
  <2>2. pool # "alive" => PoolRefs(s) = 0
    BY UsersEmpty, FS_EmptySet DEF Counted, PoolRefs
  <2> QED
    BY <1>1, <1>3, <2>1, <2>2, UsersFinite, UsersFinitePrime DEF Counted
<1>4. CASE BindCopied(s)
  BY <1>3, <1>4 DEF BindCopied
<1>5. CASE Bind(s, i) /\ pool = "alive"
  <2>1. PoolOf = TRUE
    BY <1>5 DEF PoolOf
  <2> QED
    BY <1>2, <1>5, <2>1 DEF Bind
<1>6. CASE Bind(s, i) /\ pool # "alive"
  <2>1. PoolOf = FALSE
    BY <1>6 DEF PoolOf
  <2>2. refs' = refs - PoolRefs(s) + 0
    BY <1>6, <2>1 DEF Bind
  <2>3. has_pool' = [has_pool EXCEPT ![s] = FALSE]
    BY <1>6, <2>1 DEF Bind
  <2> QED
    BY <1>1, <1>3, <2>2, <2>3
<1> QED
  BY <1>4, <1>5, <1>6

(* A frame read by the worker: the pool may come into being, a surface may *)
(* be bound, and nothing else touches the references.                      *)
LEMMA DrainCounts ==
  ASSUME TypeOK, Counted, ctx # "gone", pc # "grow", drain_output_frame
  PROVE  Counted'
<1>1. /\ added = 0 /\ added' = added /\ ctx' = ctx
      /\ count \in Nat /\ refs \in Nat /\ PoolCount \in Nat \ {0}
  BY UsersFinite, PoolAssumption DEF TypeOK, Counted, drain_output_frame
<1>2. CASE UNCHANGED <<pool, refs, count, committed, has_pool>>
  <2>1. Users' = Users
    BY <1>2 DEF Users
  <2> QED
    BY <1>1, <1>2, <2>1 DEF Counted
<1>3. CASE read_info
  <2>1. PICK ok \in BOOLEAN : configure(ok)
    BY <1>3 DEF read_info
  <2>2. CASE UNCHANGED poolVars
    BY <1>2, <1>3, <2>2 DEF read_info, poolVars, surfVars
  <2>3. CASE pool = "none" /\ pool' = "alive" /\ refs' = 1
             /\ count' = PoolCount /\ committed' = 0 .. PoolCount - 1
    <3>1. Users' = {}
      BY <1>3, <2>3 DEF Counted, read_info, surfVars, Users
    <3> QED
      BY <1>1, <2>3, <3>1, FS_EmptySet DEF Counted
  <2> QED
    BY <2>1, <2>2, <2>3 DEF configure
<1>4. CASE read_picture(Head(out))
  <2>1. CASE UNCHANGED <<poolVars, surfVars, routes>>
    BY <1>2, <2>1 DEF poolVars, surfVars
  <2>2. ASSUME NEW r \in routes,
               Bind(r.surf, Head(out).buf) \/ BindCopied(r.surf),
               UNCHANGED <<pool, count, buffer_size, committed, app, want>>
        PROVE  Counted'
    <3>1. r.surf \in Surfaces
      BY DEF TypeOK, Task
    <3> QED
      BY <1>1, <2>2, <3>1, BindCounts
  <2>3. CASE UNCHANGED <<frame, backing, has_pool, refs>>
             /\ UNCHANGED <<pool, count, buffer_size, committed, app, want>>
    BY <1>2, <2>3
  <2> QED
    BY <1>4, <2>1, <2>2, <2>3 DEF read_picture
<1> QED
  BY <1>3, <1>4 DEF drain_output_frame

(* The context's own reference goes last.                                  *)
LEMMA DestroyCounts ==
  ASSUME TypeOK, Counted, context_destroy
  PROVE  Counted'
<1>1. /\ added = 0 /\ added' = 0 /\ ctx # "gone" /\ ctx' = "gone"
      /\ count' = count /\ Users' = Users /\ refs \in Nat
  BY UsersFinite DEF TypeOK, Counted, context_destroy, putVars, Users
<1>2. CASE pool # "alive"
  BY <1>1, <1>2 DEF Counted, context_destroy, PoolUnref
<1>3. CASE pool = "alive" /\ refs = 1
  <2>1. Cardinality(Users) = 0
    BY <1>1, <1>3, UsersFinite DEF Counted
  <2>2. Users = {}
    BY <2>1, UsersFinite, FS_EmptySet
  <2> QED
    BY <1>1, <1>3, <2>2 DEF Counted, context_destroy, PoolUnref
<1>4. CASE pool = "alive" /\ refs # 1
  <2>1. pool' = pool /\ committed' = committed /\ refs' = refs - 1
    BY <1>4 DEF context_destroy, PoolUnref
  <2> QED
    BY <1>1, <1>4, <2>1, UsersFinite DEF Counted
<1> QED
  BY <1>2, <1>3, <1>4

(* Every step keeps the references exact.                                  *)
LEMMA CountedKept ==
  ASSUME PoolInv, [Next]_vars
  PROVE  Counted'
<1> USE DEF PoolInv
<1>1. ASSUME NEW s \in Surfaces, submit(s) \/ surface_destroy(s)
      PROVE  Counted'
  BY <1>1, UnbindCounts DEF submit, surface_destroy, putVars, ctxVars
<1>2. CASE worker_drain_one \/ drain_hevc_after_submit \/ full_drained
  <2>1. CASE drain_output_frame
    <3>1. ctx # "gone" /\ pc # "grow"
      BY <1>2 DEF worker_drain_one, drain_hevc_after_submit, full_drained,
                  Staged
    <3> QED
      BY <2>1, <3>1, DrainCounts
  <2>2. CASE UNCHANGED <<poolVars, surfVars, ctxVars, added>> /\ pc = "after"
    <3>1. Users' = Users
      BY <2>2 DEF surfVars, Users
    <3> QED
      BY <2>2, <3>1 DEF Counted, poolVars, surfVars, ctxVars
  <2> QED
    BY <1>2, <2>1, <2>2
       DEF worker_drain_one, drain_hevc_after_submit, full_drained
<1>3. CASE UNCHANGED <<pool, refs, count, committed, has_pool, added>>
           /\ (ctx' = "gone" <=> ctx = "gone") /\ (pc = "grow" => pc' = pc)
  <2>1. Users' = Users
    BY <1>3 DEF Users
  <2> QED
    BY <1>3, <2>1 DEF Counted
<1>4. CASE \/ take_job \/ put_accepted \/ put_rejected \/ put_given_up
           \/ full_starved \/ stall_timeout
  BY <1>3, <1>4 DEF take_job, put_accepted, put_rejected, put_given_up, GiveUp,
       full_starved, stall_timeout, poolVars, surfVars, ctxVars, putVars
<1>5. CASE grow_failed
  <2>1. Users' = Users
    BY <1>5 DEF grow_failed, GiveUp, Users
  <2> QED
    BY <1>5, <2>1 DEF grow_failed, GiveUp, Counted, poolVars
<1>6. CASE commit_pool_buffer
  <2>1. Users' = Users
    BY <1>6 DEF commit_pool_buffer, surfVars, Users
  <2>2. added \in Nat /\ count \in Nat
    BY DEF TypeOK
  <2>3. (0 .. count + added - 1) \cup {count + added}
          = 0 .. count + (added + 1) - 1
    BY <2>2
  <2> QED
    BY <1>6, <2>1, <2>2, <2>3
       DEF commit_pool_buffer, CanGrow, Counted, ctxVars
<1>7. CASE grew
  <2>1. Users' = Users
    BY <1>7 DEF grew, surfVars, Users
  <2>2. added \in Nat /\ count \in Nat /\ PoolCount \in Nat
    BY PoolAssumption DEF TypeOK
  <2>3. count' = count + added /\ added' = 0 /\ pool = "alive"
        /\ UNCHANGED <<pool, refs, committed, ctx>>
    BY <1>7 DEF grew, Counted, ctxVars
  <2> QED
    BY <2>1, <2>2, <2>3 DEF Counted
<1>8. CASE context_destroy
  BY <1>8, DestroyCounts
<1>9. ASSUME NEW s \in Surfaces, rk_DestroySurfaces(s)
      PROVE  Counted'
  BY <1>3, <1>9 DEF rk_DestroySurfaces, poolVars, ctxVars, putVars
<1>10. CASE rk_DestroyContext
  BY <1>3, <1>10 DEF rk_DestroyContext, poolVars, surfVars, putVars
<1>11. ASSUME NEW n \in Sizes, mpp_info_change(n)
       PROVE  Counted'
  BY <1>3, <1>11 DEF mpp_info_change, poolVars, surfVars, ctxVars, putVars
<1>12. ASSUME NEW i, NEW kept, mpp_decode(i, kept)
       PROVE  Counted'
  BY <1>3, <1>12 DEF mpp_decode, poolVars, surfVars, ctxVars, putVars
<1>13. CASE UNCHANGED vars
  BY <1>3, <1>13 DEF vars, poolVars, surfVars, ctxVars, putVars
<1> QED
  BY <1>1, <1>2, <1>4, <1>5, <1>6, <1>7, <1>8, <1>9, <1>10, <1>11, <1>12,
     <1>13 DEF Next, Worker, mpp_run

-----------------------------------------------------------------------------
(***************************************************************************)
(* Types and queues.                                                       *)
(***************************************************************************)

(* The oldest entry of a queue, and the queue without it.                  *)
LEMMA Oldest ==
  ASSUME NEW T, NEW q \in Seq(T), q # <<>>
  PROVE  /\ Head(q) \in T /\ Head(q) = q[1] /\ 1 \in DOMAIN q
         /\ Tail(q) \in Seq(T) /\ Len(Tail(q)) = Len(q) - 1
         /\ \A k \in DOMAIN Tail(q) :
              k + 1 \in DOMAIN q /\ Tail(q)[k] = q[k + 1]
OBVIOUS

(* A queue with a new entry at its end.                                    *)
LEMMA Newest ==
  ASSUME NEW T, NEW q \in Seq(T), NEW e \in T
  PROVE  /\ Append(q, e) \in Seq(T) /\ Append(q, e) # <<>>
         /\ Len(Append(q, e)) = Len(q) + 1
         /\ \A k \in DOMAIN Append(q, e) :
              \/ k \in DOMAIN q /\ Append(q, e)[k] = q[k]
              \/ k = Len(q) + 1 /\ Append(q, e)[k] = e
OBVIOUS

(* The job a push is about.                                                *)
LEMMA JobFacts ==
  ASSUME PoolInv, pc \in {"put", "full", "grow"} \/ jobs # <<>>
  PROVE  /\ jobs # <<>> /\ jobs \in Seq(Task)
         /\ Job \in Task /\ Job.pic \in Picture \ {0}
         /\ Tail(jobs) \in Seq(Task)
         /\ \A k \in DOMAIN Tail(jobs) : Tail(jobs)[k].pic # 0
<1>1. jobs # <<>> /\ jobs \in Seq(Task)
  BY DEF PoolInv, Staged, TypeOK
<1>2. /\ Head(jobs) \in Task /\ Head(jobs) = jobs[1] /\ 1 \in DOMAIN jobs
      /\ Tail(jobs) \in Seq(Task)
      /\ \A k \in DOMAIN Tail(jobs) :
           k + 1 \in DOMAIN jobs /\ Tail(jobs)[k] = jobs[k + 1]
  BY <1>1, Oldest
<1>3. \A k \in DOMAIN jobs : jobs[k].pic # 0
  BY DEF PoolInv, Staged
<1>4. Job.pic \in Picture \ {0}
  BY <1>2, <1>3 DEF Job, Task
<1> QED
  BY <1>1, <1>2, <1>3, <1>4 DEF Job

(* The number of a new picture.                                            *)
LEMMA NewPicture ==
  ASSUME TypeOK, NEW s \in Surfaces, submit(s)
  PROVE  pictures + 1 \in Picture /\ pictures + 1 # 0
<1>1. MaxPictures \in Nat
  BY PoolAssumption
<1>2. pictures \in 0 .. MaxPictures /\ pictures < MaxPictures
  BY DEF TypeOK, Picture, submit
<1> QED
  BY <1>1, <1>2 DEF Picture

(* Every step keeps the queues in order.                                   *)
LEMMA StagedKept ==
  ASSUME PoolInv, [Next]_vars
  PROVE  Staged'
<1> USE DEF PoolInv
<1>1. jobs \in Seq(Task) /\ input \in Seq(Picture)
  BY DEF TypeOK
<1>2. ASSUME NEW s \in Surfaces, submit(s)
      PROVE  Staged'
  <2> DEFINE e == [surf |-> s, pic |-> pictures + 1]
  <2>1. e \in Task /\ e.pic # 0
    BY <1>2, NewPicture DEF Task
  <2>2. /\ Append(jobs, e) # <<>>
        /\ \A k \in DOMAIN Append(jobs, e) :
             \/ k \in DOMAIN jobs /\ Append(jobs, e)[k] = jobs[k]
             \/ k = Len(jobs) + 1 /\ Append(jobs, e)[k] = e
    BY <1>1, <2>1, Newest
  <2>3. jobs' = Append(jobs, e) /\ ctx' # "gone" /\ input' = input
    BY <1>2 DEF submit, mppVars
  <2> HIDE DEF e
  <2> QED
    BY <2>1, <2>2, <2>3 DEF Staged
<1>3. CASE put_accepted
  <2>1. /\ Job.pic \in Picture \ {0}
        /\ \A k \in DOMAIN Tail(jobs) : Tail(jobs)[k].pic # 0
    BY <1>3, JobFacts DEF put_accepted
  <2>2. \A k \in DOMAIN Append(input, Job.pic) :
          \/ k \in DOMAIN input /\ Append(input, Job.pic)[k] = input[k]
          \/ k = Len(input) + 1 /\ Append(input, Job.pic)[k] = Job.pic
    BY <1>1, <2>1, Newest
  <2>3. /\ input' = Append(input, Job.pic) /\ jobs' = Tail(jobs)
        /\ pc' \in {"loop", "after"} /\ ctx' = ctx /\ pc = "put"
    BY <1>3 DEF put_accepted
  <2> QED
    BY <2>1, <2>2, <2>3 DEF Staged
<1>4. CASE put_given_up \/ grow_failed
  <2>1. \A k \in DOMAIN Tail(jobs) : Tail(jobs)[k].pic # 0
    BY <1>4, JobFacts DEF put_given_up, grow_failed
  <2>2. /\ jobs' = Tail(jobs) /\ input' = input /\ ctx' = ctx /\ pc' = "loop"
        /\ pc \in {"put", "grow"}
    BY <1>4 DEF put_given_up, grow_failed, GiveUp, mppVars
  <2> QED
    BY <2>1, <2>2 DEF Staged
<1>5. ASSUME NEW i, NEW kept, mpp_decode(i, kept)
      PROVE  Staged'
  <2>1. input # <<>> /\ ctx # "gone"
    BY <1>5 DEF mpp_decode, MppIdle
  <2>2. \A k \in DOMAIN Tail(input) :
          k + 1 \in DOMAIN input /\ Tail(input)[k] = input[k + 1]
    BY <1>1, <2>1, Oldest
  <2> QED
    BY <1>5, <2>1, <2>2 DEF mpp_decode, Staged, ctxVars, putVars
<1>6. CASE \/ worker_drain_one \/ drain_hevc_after_submit \/ full_drained
  BY <1>6 DEF worker_drain_one, drain_hevc_after_submit, full_drained,
       drain_output_frame, Staged, ctxVars, mppVars
<1>7. CASE \/ take_job \/ put_rejected \/ full_starved \/ commit_pool_buffer
           \/ grew \/ stall_timeout
  BY <1>7 DEF take_job, put_rejected, full_starved, commit_pool_buffer, grew,
       stall_timeout, Staged, ctxVars, mppVars, putVars
<1>8. CASE context_destroy
  BY <1>8 DEF context_destroy, Staged, putVars
<1>9. ASSUME NEW s \in Surfaces, rk_DestroySurfaces(s) \/ surface_destroy(s)
      PROVE  Staged'
  BY <1>9 DEF rk_DestroySurfaces, surface_destroy, Staged, ctxVars, mppVars,
       putVars
<1>10. CASE rk_DestroyContext
  BY <1>10 DEF rk_DestroyContext, Staged, mppVars, putVars
<1>11. ASSUME NEW n \in Sizes, mpp_info_change(n)
       PROVE  Staged'
  BY <1>11 DEF mpp_info_change, Staged, ctxVars, putVars
<1>12. CASE UNCHANGED vars
  BY <1>12 DEF vars, ctxVars, putVars, mppVars, Staged
<1> QED
  BY <1>2, <1>3, <1>4, <1>5, <1>6, <1>7, <1>8, <1>9, <1>10, <1>11, <1>12
     DEF Next, Worker, mpp_run

(* Exact references are bounded by the surfaces and the context.           *)
LEMMA RefsBounded ==
  ASSUME Counted'
  PROVE  refs' \in 0 .. Cardinality(Surfaces) + 1
BY UsersFinite, UsersFinitePrime DEF Counted

(* Failing the surfaces of some routes leaves a status on every surface.   *)
LEMMA FailTypes ==
  ASSUME TypeOK, NEW R, FailRoutes(R)
  PROVE  status' \in [Surfaces -> {"idle", "pending", "decoded", "failed"}]
BY DEF TypeOK, FailRoutes

(* A surface without its buffer, its frame and the pool.                   *)
LEMMA UnbindTypes ==
  ASSUME TypeOK, NEW s \in Surfaces, Unbind(s)
  PROVE  /\ frame' \in [Surfaces -> Buffer]
         /\ backing' \in [Surfaces -> Buffer \cup {Private}]
         /\ has_pool' \in [Surfaces -> BOOLEAN]
         /\ pool' \in {"none", "alive", "destroyed"}
         /\ committed' \subseteq Indices
BY DEF TypeOK, Unbind, PoolUnref, Buffer

(* What the worker does with a frame keeps the types.                      *)
LEMMA DrainTypes ==
  ASSUME PoolInv, drain_output_frame
  PROVE  /\ pool' \in {"none", "alive", "destroyed"}
         /\ count' \in 0 .. PoolMax /\ buffer_size' \in Nat
         /\ committed' \subseteq Indices
         /\ app' \in [Surfaces -> BOOLEAN]
         /\ status' \in [Surfaces -> {"idle", "pending", "decoded", "failed"}]
         /\ want' \in [Surfaces -> Picture]
         /\ frame' \in [Surfaces -> Buffer]
         /\ backing' \in [Surfaces -> Buffer \cup {Private}]
         /\ has_pool' \in [Surfaces -> BOOLEAN]
         /\ routes' \subseteq Task
         /\ info_ready' \in BOOLEAN
         /\ out' \in Seq([pic : Picture, buf : Buffer])
<1> USE DEF PoolInv
<1>1. out' = Tail(out) /\ out # <<>> /\ TypeOK
  BY DEF drain_output_frame
<1>2. /\ out' \in Seq([pic : Picture, buf : Buffer])
      /\ Head(out) \in [pic : Picture, buf : Buffer]
  BY <1>1, Oldest DEF TypeOK
<1>3. CASE read_info
  <2>1. PICK ok \in BOOLEAN : configure(ok)
    BY <1>3 DEF read_info
  <2>2. CASE UNCHANGED poolVars
    BY <1>1, <1>2, <1>3, <2>2 DEF TypeOK, read_info, poolVars, surfVars
  <2>3. CASE pool' = "alive" /\ count' = PoolCount
             /\ buffer_size' = SizeFor(need)
             /\ committed' = 0 .. PoolCount - 1
    <3>1. PoolCount \in Nat /\ PoolMax \in Nat /\ PoolCount <= PoolMax
          /\ Conservative \in Nat /\ need \in Nat
      BY PoolAssumption DEF TypeOK
    <3>2. count' \in 0 .. PoolMax /\ buffer_size' \in Nat
          /\ committed' \subseteq Indices
      BY <2>3, <3>1 DEF SizeFor, Indices
    <3> QED
      BY <1>1, <1>2, <1>3, <2>3, <3>2 DEF TypeOK, read_info, surfVars
  <2> QED
    BY <2>1, <2>2, <2>3 DEF configure
<1>4. CASE read_picture(Head(out)) /\ UNCHANGED info_ready
  <2>1. CASE UNCHANGED <<poolVars, surfVars, routes>>
    BY <1>1, <1>2, <1>4, <2>1 DEF TypeOK, poolVars, surfVars
  <2>2. ASSUME NEW r \in routes, routes' = routes \ {r},
               Bind(r.surf, Head(out).buf) \/ BindCopied(r.surf),
               status' = [status EXCEPT ![r.surf] = "decoded"],
               UNCHANGED <<pool, count, buffer_size, committed, app, want>>
        PROVE  /\ frame' \in [Surfaces -> Buffer]
               /\ backing' \in [Surfaces -> Buffer \cup {Private}]
               /\ has_pool' \in [Surfaces -> BOOLEAN]
               /\ status' \in [Surfaces ->
                                {"idle", "pending", "decoded", "failed"}]
               /\ routes' \subseteq Task
    <3>1. r.surf \in Surfaces /\ Head(out).buf \in Buffer
      BY <1>2 DEF TypeOK, Task
    <3>2. PoolOf \in BOOLEAN
      BY DEF PoolOf
    <3>3. NoBuf \in Buffer
      BY DEF Buffer
    <3>4. frame' \in [Surfaces -> Buffer]
      BY <2>2, <3>1, <3>3 DEF Bind, BindCopied, TypeOK
    <3>5. backing' \in [Surfaces -> Buffer \cup {Private}]
      BY <2>2, <3>1, <3>3 DEF Bind, BindCopied, TypeOK
    <3>6. has_pool' \in [Surfaces -> BOOLEAN]
      BY <2>2, <3>1, <3>2 DEF Bind, BindCopied, TypeOK
    <3> QED
      BY <2>2, <3>1, <3>4, <3>5, <3>6 DEF TypeOK
  <2>3. ASSUME NEW r \in routes, routes' = routes \ {r}, FailRoutes({r}),
               UNCHANGED <<frame, backing, has_pool, refs>>,
               UNCHANGED <<pool, count, buffer_size, committed, app, want>>
        PROVE  /\ status' \in [Surfaces ->
                                {"idle", "pending", "decoded", "failed"}]
               /\ routes' \subseteq Task
    BY <1>1, <2>3, FailTypes DEF TypeOK
  <2> QED
    BY <1>1, <1>2, <1>4, <2>1, <2>2, <2>3 DEF read_picture, TypeOK
<1> QED
  BY <1>3, <1>4 DEF drain_output_frame

(* The queues and numbers of a push.                                       *)
LEMMA PushTypes ==
  ASSUME PoolInv
  PROVE  /\ 0 \in 0 .. PutTries /\ 0 \in 0 .. StarvedTries - 1
         /\ tries < PutTries => tries + 1 \in 0 .. PutTries
         /\ starved + 1 < StarvedTries => starved + 1 \in 0 .. StarvedTries - 1
<1>1. PutTries \in Nat /\ StarvedTries \in Nat \ {0}
  BY PoolAssumption
<1>2. tries \in 0 .. PutTries /\ starved \in 0 .. StarvedTries - 1
  BY DEF PoolInv, TypeOK
<1> QED
  BY <1>1, <1>2

(* A growth stays inside the buffers array.                                *)
LEMMA GrowthBounded ==
  ASSUME PoolInv, CanGrow, count + added < GrowTarget \/ added > 0
  PROVE  /\ GrowTarget \in count .. PoolMax /\ GrowTarget <= count + PoolGrow
         /\ count + added < GrowTarget =>
              count + added \in Indices /\ added + 1 \in 0 .. PoolGrow
         /\ count + added <= GrowTarget => count + added \in 0 .. PoolMax
         /\ 0 \in 0 .. PoolGrow
<1>1. PoolMax \in Nat /\ PoolGrow \in Nat \ {0}
  BY PoolAssumption
<1>2. count \in 0 .. PoolMax /\ added \in Nat
  BY DEF PoolInv, TypeOK
<1> QED
  BY <1>1, <1>2 DEF GrowTarget, Indices, CanGrow

(* Every step keeps the types.                                             *)
LEMMA TypesKept ==
  ASSUME PoolInv, [Next]_vars
  PROVE  TypeOK'
<1> USE DEF PoolInv
<1>1. Counted'
  BY CountedKept
<1>2. refs' \in 0 .. Cardinality(Surfaces) + 1
  BY <1>1, RefsBounded
<1>3. ASSUME NEW s \in Surfaces, submit(s)
      PROVE  TypeOK'
  <2>1. pictures + 1 \in Picture
    BY <1>3, NewPicture
  <2>2. [surf |-> s, pic |-> pictures + 1] \in Task
    BY <2>1 DEF Task
  <2>3. jobs' \in Seq(Task)
    BY <1>3, <2>2, Newest DEF TypeOK, submit
  <2>4. want' \in [Surfaces -> Picture]
        /\ status' \in [Surfaces -> {"idle", "pending", "decoded", "failed"}]
    BY <1>3, <2>1 DEF TypeOK, submit
  <2> QED
    BY <1>2, <1>3, <2>1, <2>3, <2>4, UnbindTypes
       DEF TypeOK, submit, putVars, mppVars
<1>4. ASSUME NEW s \in Surfaces, surface_destroy(s)
      PROVE  TypeOK'
  BY <1>2, <1>4, UnbindTypes
     DEF TypeOK, surface_destroy, putVars, mppVars, ctxVars
<1>5. ASSUME NEW s \in Surfaces, rk_DestroySurfaces(s)
      PROVE  TypeOK'
  BY <1>2, <1>5 DEF TypeOK, rk_DestroySurfaces, poolVars, putVars, mppVars,
       ctxVars
<1>6. CASE rk_DestroyContext
  BY <1>2, <1>6 DEF TypeOK, rk_DestroyContext, poolVars, surfVars, putVars,
       mppVars
<1>7. ASSUME NEW n \in Sizes, mpp_info_change(n)
      PROVE  TypeOK'
  <2>1. 0 \in Picture
    BY PoolAssumption DEF Picture
  <2>2. [pic |-> 0, buf |-> NoBuf] \in [pic : Picture, buf : Buffer]
    BY <2>1 DEF Buffer
  <2>3. out' \in Seq([pic : Picture, buf : Buffer])
    BY <1>7, <2>2, Newest DEF TypeOK, mpp_info_change
  <2> QED
    BY <1>2, <1>7, <2>3 DEF TypeOK, mpp_info_change, poolVars, surfVars,
         putVars, ctxVars
<1>8. ASSUME NEW i \in Indices \cup {NoBuf}, NEW kept, mpp_decode(i, kept)
      PROVE  TypeOK'
  <2>1. input # <<>> /\ input \in Seq(Picture)
    BY <1>8 DEF mpp_decode, MppIdle, TypeOK
  <2>2. Head(input) \in Picture /\ Tail(input) \in Seq(Picture)
    BY <2>1, Oldest
  <2>3. out' \in Seq([pic : Picture, buf : Buffer])
    <3>1. [pic |-> Head(input), buf |-> i] \in [pic : Picture, buf : Buffer]
      BY <2>2 DEF Buffer
    <3> QED
      BY <1>8, <3>1, Newest DEF TypeOK, mpp_decode
  <2>4. content' \in [Indices -> Picture] /\ refset' \subseteq Indices
    BY <1>8, <2>2 DEF TypeOK, mpp_decode
  <2> QED
    BY <1>2, <1>8, <2>2, <2>3, <2>4 DEF TypeOK, mpp_decode, poolVars,
         surfVars, putVars, ctxVars
<1>9. CASE worker_drain_one \/ drain_hevc_after_submit \/ full_drained
  <2>1. CASE drain_output_frame
    <3>1. /\ starved' \in 0 .. StarvedTries - 1 /\ got_frame' \in BOOLEAN
          /\ pc' \in {"loop", "put", "full", "grow", "after"}
      BY <1>9, PushTypes DEF worker_drain_one, drain_hevc_after_submit,
           full_drained, TypeOK, putVars
    <3> QED
      BY <1>2, <2>1, <3>1, DrainTypes DEF TypeOK, drain_output_frame
  <2>2. CASE UNCHANGED <<poolVars, surfVars, ctxVars, tries, starved, added,
                         got_frame, no_memory, mppVars>> /\ pc' = "loop"
    BY <1>2, <2>2 DEF TypeOK, poolVars, surfVars, ctxVars, mppVars
  <2> QED
    BY <1>9, <2>1, <2>2
       DEF worker_drain_one, drain_hevc_after_submit, full_drained
<1>10. CASE take_job
  <2>1. Head(jobs) \in Task
    BY <1>10, JobFacts DEF take_job, Job
  <2> QED
    BY <1>2, <1>10, <2>1 DEF TypeOK, take_job, poolVars, surfVars, mppVars
<1>11. CASE put_accepted
  <2>1. Job.pic \in Picture /\ Tail(jobs) \in Seq(Task)
    BY <1>11, JobFacts DEF put_accepted
  <2>2. input' \in Seq(Picture)
    BY <1>11, <2>1, Newest DEF TypeOK, put_accepted
  <2>3. tries' \in 0 .. PutTries /\ starved' \in 0 .. StarvedTries - 1
        /\ got_frame' \in BOOLEAN
    BY <1>11, PushTypes DEF put_accepted, NoPush
  <2> QED
    BY <1>2, <1>11, <2>1, <2>2, <2>3
       DEF TypeOK, put_accepted, poolVars, surfVars
<1>12. CASE put_given_up \/ grow_failed
  <2>1. GiveUp /\ no_memory' \in BOOLEAN /\ Tail(jobs) \in Seq(Task)
    BY <1>12, JobFacts
       DEF put_given_up, grow_failed, commit_failed, TypeOK
  <2>2. status' \in [Surfaces -> {"idle", "pending", "decoded", "failed"}]
    BY <2>1, FailTypes DEF GiveUp
  <2>3. tries' \in 0 .. PutTries /\ starved' \in 0 .. StarvedTries - 1
        /\ got_frame' \in BOOLEAN
    BY <2>1, PushTypes DEF GiveUp, NoPush
  <2> QED
    BY <1>2, <2>1, <2>2, <2>3 DEF TypeOK, GiveUp, poolVars, mppVars
<1>13. CASE put_rejected \/ full_starved
  <2>1. tries' \in 0 .. PutTries /\ starved' \in 0 .. StarvedTries - 1
        /\ pc' \in {"loop", "put", "full", "grow", "after"}
    BY <1>13, PushTypes DEF put_rejected, full_starved, TypeOK
  <2> QED
    BY <1>2, <1>13, <2>1 DEF TypeOK, put_rejected, full_starved, poolVars,
         surfVars, ctxVars, mppVars
<1>14. CASE commit_pool_buffer
  <2>1. count + added \in Indices /\ added + 1 \in 0 .. PoolGrow
    BY <1>14, GrowthBounded DEF commit_pool_buffer
  <2> QED
    BY <1>2, <1>14, <2>1 DEF TypeOK, commit_pool_buffer, surfVars, ctxVars,
         mppVars
<1>15. CASE grew
  <2>1. count + added \in 0 .. PoolMax /\ 0 \in 0 .. PoolGrow
        /\ no_memory' \in BOOLEAN
    <3>1. PoolGrow \in Nat /\ PoolMax \in Nat /\ count \in 0 .. PoolMax
          /\ added \in Nat
      BY PoolAssumption DEF TypeOK
    <3>2. GrowTarget \in 0 .. PoolMax
      BY <3>1 DEF GrowTarget
    <3>3. count + added <= GrowTarget
      BY <1>15, <3>1, <3>2 DEF grew, commit_failed
    <3>4. no_memory' \in BOOLEAN
      BY <1>15 DEF grew, commit_failed, TypeOK
    <3> QED
      BY <3>1, <3>2, <3>3, <3>4
  <2> QED
    BY <1>2, <1>15, <2>1 DEF TypeOK, grew, surfVars, ctxVars, mppVars
<1>16. CASE stall_timeout
  BY <1>2, <1>16, FailTypes DEF TypeOK, stall_timeout, poolVars, putVars,
       mppVars
<1>17. CASE context_destroy
  <2>1. <<>> \in Seq(Task) /\ <<>> \in Seq(Picture)
        /\ <<>> \in Seq([pic : Picture, buf : Buffer])
    OBVIOUS
  <2> QED
    BY <1>2, <1>17, <2>1, FailTypes DEF TypeOK, context_destroy, PoolUnref,
         putVars
<1>18. CASE UNCHANGED vars
  BY <1>2, <1>18 DEF TypeOK, vars, poolVars, surfVars, ctxVars, putVars,
       mppVars
<1> QED
  BY <1>3, <1>4, <1>5, <1>6, <1>7, <1>8, <1>9, <1>10, <1>11, <1>12, <1>13,
     <1>14, <1>15, <1>16, <1>17, <1>18 DEF Next, Worker, mpp_run

-----------------------------------------------------------------------------
(***************************************************************************)
(* Frames and the buffers they are in.                                     *)
(***************************************************************************)

(* The marks for no buffer and for a converted one are no pool index.      *)
LEMMA MarksNotIndices == NoBuf \notin Indices /\ Private \notin Indices
BY PoolAssumption DEF NoBuf, Private, Indices

(* Dropping a surface's references takes buffers out of the pool only when *)
(* the context has gone and nobody else holds them.                        *)
LEMMA UnbindStill ==
  ASSUME PoolInv, Counted', NEW s \in Surfaces, Unbind(s), ctx' = ctx
  PROVE  \/ UNCHANGED <<pool, committed>>
         \/ ctx = "gone" /\ pool' = "destroyed" /\ Users' = {}
BY DEF PoolInv, Counted, Unbind, PoolUnref

(* Every step keeps the frames MPP has handed out in order and in the pool.*)
LEMMA FramedKept ==
  ASSUME PoolInv, [Next]_vars
  PROVE  Framed'
<1> USE DEF PoolInv
<1>1. Counted' /\ TypeOK'
  BY CountedKept, TypesKept
<1>2. /\ out \in Seq([pic : Picture, buf : Buffer])
      /\ input \in Seq(Picture) /\ content \in [Indices -> Picture]
  BY DEF TypeOK
<1>3. CASE UNCHANGED <<out, info_ready, content, pool>>
           /\ committed \subseteq committed'
  BY <1>3 DEF Framed
<1>4. CASE out' = <<>>
  BY <1>4 DEF Framed
<1>5. ASSUME NEW s \in Surfaces, submit(s) \/ surface_destroy(s)
      PROVE  Framed'
  <2>1. Unbind(s) /\ ctx' = ctx /\ UNCHANGED <<out, info_ready, content>>
    BY <1>5 DEF submit, surface_destroy, mppVars, ctxVars
  <2>2. CASE UNCHANGED <<pool, committed>>
    BY <1>3, <2>1, <2>2
  <2>3. CASE ctx = "gone"
    BY <1>4, <2>1, <2>3 DEF Staged
  <2> QED
    BY <1>1, <2>1, <2>2, <2>3, UnbindStill
<1>6. ASSUME NEW n \in Sizes, mpp_info_change(n)
      PROVE  Framed'
  <2> DEFINE e == [pic |-> 0, buf |-> NoBuf]
  <2>1. e \in [pic : Picture, buf : Buffer]
    BY PoolAssumption DEF Picture, Buffer
  <2>2. /\ Len(Append(out, e)) = Len(out) + 1
        /\ \A k \in DOMAIN Append(out, e) :
             \/ k \in DOMAIN out /\ Append(out, e)[k] = out[k]
             \/ k = Len(out) + 1 /\ Append(out, e)[k] = e
    BY <1>2, <2>1, Newest
  <2>3. /\ out' = Append(out, e) /\ info_ready /\ ~info_ready'
        /\ UNCHANGED <<pool, committed, content>>
    BY <1>6 DEF mpp_info_change, poolVars
  <2>4. e.pic = 0 /\ e.buf \notin Indices
    BY MarksNotIndices
  <2> HIDE DEF e
  <2> QED
    BY <2>2, <2>3, <2>4 DEF Framed
<1>7. ASSUME NEW i \in Indices \cup {NoBuf}, NEW kept, mpp_decode(i, kept)
      PROVE  Framed'
  <2> DEFINE e == [pic |-> Head(input), buf |-> i]
  <2>1. input # <<>> /\ info_ready = TRUE
    BY <1>7 DEF mpp_decode, MppIdle, TypeOK
  <2>2. Head(input) \in Picture /\ Head(input) # 0
    BY <1>2, <2>1, Oldest DEF Staged
  <2>3. e \in [pic : Picture, buf : Buffer]
    BY <2>2 DEF Buffer
  <2>4. \A k \in DOMAIN Append(out, e) :
          \/ k \in DOMAIN out /\ Append(out, e)[k] = out[k]
          \/ k = Len(out) + 1 /\ Append(out, e)[k] = e
    BY <1>2, <2>3, Newest
  <2>5. /\ out' = Append(out, e)
        /\ UNCHANGED <<pool, committed, info_ready>>
        /\ content' = IF i = NoBuf THEN content
                                   ELSE [content EXCEPT ![i] = Head(input)]
    BY <1>7 DEF mpp_decode, poolVars
  <2>6. e.pic # 0 /\ e.buf = i
    BY <2>2
  <2>7. i \in Indices => /\ content'[i] = e.pic /\ i \in committed
                         /\ \A k \in DOMAIN out : out[k].buf # i
    BY <1>2, <1>7, <2>5, MarksNotIndices DEF mpp_decode, Free, Held
  <2>8. pool = "alive" => i \in Indices
    BY <1>7 DEF mpp_decode, Free, TypeOK
  <2>9. \A k \in DOMAIN out : out[k].buf \in Indices =>
          content'[out[k].buf] = content[out[k].buf]
    BY <1>2, <2>5, <2>7
  <2> HIDE DEF e
  <2> QED
    BY <2>1, <2>4, <2>5, <2>6, <2>7, <2>8, <2>9 DEF Framed
<1>8. CASE drain_output_frame
  <2>1. out # <<>> /\ out' = Tail(out) /\ content' = content
    BY <1>8 DEF drain_output_frame
  <2>2. /\ Head(out) = out[1] /\ 1 \in DOMAIN out
        /\ Len(Tail(out)) = Len(out) - 1
        /\ \A k \in DOMAIN Tail(out) :
             k + 1 \in DOMAIN out /\ Tail(out)[k] = out[k + 1]
    BY <1>2, <2>1, Oldest
  <2>3. CASE Head(out).pic = 0
    <3>1. Len(out) = 1
      BY <2>2, <2>3 DEF Framed
    <3>2. Tail(out) = <<>>
      BY <1>2, <2>1, <3>1
    <3> QED
      BY <1>4, <2>1, <3>2
  <2>4. CASE Head(out).pic # 0
    <3>1. read_picture(Head(out)) /\ info_ready' = info_ready
      BY <1>8, <2>4 DEF drain_output_frame
    <3>2. UNCHANGED <<pool, committed>>
      BY <3>1 DEF read_picture, poolVars
    <3>3. out' \in Seq([pic : Picture, buf : Buffer])
      BY <1>1 DEF TypeOK
    <3>4. DOMAIN out = 1 .. Len(out) /\ DOMAIN out' = 1 .. Len(out')
          /\ Len(out) \in Nat
      BY <1>2, <3>3
    <3>5. \A k \in DOMAIN out' : k \in Nat /\ k + 1 \in DOMAIN out
                                 /\ out'[k] = out[k + 1]
      BY <2>1, <2>2, <3>4
    <3>6. \A k \in DOMAIN out' : out'[k].pic = 0 =>
            ~info_ready' /\ k = Len(out')
      BY <2>1, <2>2, <3>1, <3>4, <3>5 DEF Framed
    <3> QED
      BY <2>1, <3>2, <3>5, <3>6 DEF Framed
  <2> QED
    BY <2>3, <2>4
<1>9. CASE worker_drain_one \/ drain_hevc_after_submit \/ full_drained
  BY <1>3, <1>8, <1>9 DEF worker_drain_one, drain_hevc_after_submit,
       full_drained, mppVars, poolVars
<1>10. CASE context_destroy
  BY <1>4, <1>10 DEF context_destroy
<1>11. CASE \/ take_job \/ put_accepted \/ put_rejected \/ put_given_up
            \/ full_starved \/ commit_pool_buffer \/ grew \/ grow_failed
            \/ stall_timeout
  BY <1>3, <1>11 DEF take_job, put_accepted, put_rejected, put_given_up,
       GiveUp, full_starved, commit_pool_buffer, grew, grow_failed,
       stall_timeout, mppVars, poolVars
<1>12. ASSUME NEW s \in Surfaces, rk_DestroySurfaces(s)
       PROVE  Framed'
  BY <1>3, <1>12 DEF rk_DestroySurfaces, mppVars, poolVars
<1>13. CASE rk_DestroyContext \/ UNCHANGED vars
  BY <1>3, <1>13 DEF rk_DestroyContext, vars, mppVars, poolVars
<1> QED
  BY <1>5, <1>6, <1>7, <1>9, <1>10, <1>11, <1>12, <1>13
     DEF Next, Worker, mpp_run

(* Every step keeps the picture in the buffer a surface shows.             *)
LEMMA ShownKept ==
  ASSUME PoolInv, [Next]_vars
  PROVE  Shown'
<1> USE DEF PoolInv
<1>1. Counted'
  BY CountedKept
<1>2. /\ frame \in [Surfaces -> Buffer] /\ want \in [Surfaces -> Picture]
      /\ backing \in [Surfaces -> Buffer \cup {Private}]
      /\ has_pool \in [Surfaces -> BOOLEAN]
      /\ content \in [Indices -> Picture]
  BY DEF TypeOK
<1>3. CASE UNCHANGED <<backing, frame, has_pool, want, content>>
           /\ committed \subseteq committed'
  BY <1>3 DEF Shown
<1>4. ASSUME NEW s \in Surfaces, submit(s) \/ surface_destroy(s)
      PROVE  Shown'
  <2>1. /\ Unbind(s) /\ ctx' = ctx /\ content' = content
        /\ \A t \in Surfaces \ {s} : want'[t] = want[t]
    BY <1>2, <1>4 DEF submit, surface_destroy, mppVars, ctxVars
  <2>2. backing'[s] \notin Indices
    BY <1>2, <2>1, MarksNotIndices DEF Unbind
  <2>3. \A t \in Surfaces \ {s} :
          /\ backing'[t] = backing[t] /\ frame'[t] = frame[t]
          /\ has_pool'[t] = has_pool[t]
    BY <1>2, <2>1 DEF Unbind
  <2>4. \/ committed' = committed
        \/ \A t \in Surfaces : ~has_pool'[t]
    BY <1>1, <2>1, UnbindStill DEF Users
  <2> QED
    BY <2>1, <2>2, <2>3, <2>4 DEF Shown
<1>5. ASSUME NEW i, NEW kept, mpp_decode(i, kept)
      PROVE  Shown'
  <2>1. /\ UNCHANGED <<backing, frame, has_pool, want, committed>>
        /\ content' = IF i = NoBuf THEN content
                                   ELSE [content EXCEPT ![i] = Head(input)]
        /\ i # NoBuf => \A s \in Surfaces : frame[s] # i
    BY <1>5 DEF mpp_decode, poolVars, surfVars, Free, Held
  <2>2. \A s \in Surfaces : backing[s] \in Indices =>
          content'[backing[s]] = content[backing[s]]
    BY <1>2, <2>1 DEF Shown
  <2> QED
    BY <2>1, <2>2 DEF Shown
<1>6. CASE drain_output_frame
  <2>1. content' = content /\ out # <<>>
    BY <1>6 DEF drain_output_frame
  <2>2. CASE read_info
    <3>1. UNCHANGED <<backing, frame, has_pool, want>>
      BY <2>2 DEF read_info, surfVars
    <3>2. committed' = committed \/ pool = "none"
      BY <2>2 DEF read_info, configure, poolVars
    <3>3. pool = "none" => committed = {}
      BY DEF Counted
    <3> QED
      BY <1>3, <2>1, <3>1, <3>2, <3>3
  <2>3. CASE read_picture(Head(out))
    <3>1. UNCHANGED <<committed, want>>
      BY <2>3 DEF read_picture, poolVars, surfVars
    <3>2. CASE UNCHANGED <<frame, backing, has_pool>>
      BY <1>3, <2>1, <3>1, <3>2
    <3>3. ASSUME NEW r \in routes, want[r.surf] = Head(out).pic,
                 Bind(r.surf, Head(out).buf) \/ BindCopied(r.surf)
          PROVE  Shown'
      <4> DEFINE s == r.surf
                 i == Head(out).buf
      <4>1. s \in Surfaces
        BY DEF TypeOK, Task
      <4>2. Head(out) = out[1] /\ 1 \in DOMAIN out
        BY <2>1, Oldest DEF TypeOK
      <4>3. i \in Indices => i \in committed /\ content[i] = want[s]
        BY <3>3, <4>2 DEF Framed
      <4>4. i \in Indices => PoolOf = TRUE
        BY <4>3 DEF Counted, PoolOf
      <4>5. \A t \in Surfaces \ {s} :
              /\ backing'[t] = backing[t] /\ frame'[t] = frame[t]
              /\ has_pool'[t] = has_pool[t]
        BY <1>2, <3>3, <4>1 DEF Bind, BindCopied
      <4>6. \/ backing'[s] \in {NoBuf, Private}
            \/ backing'[s] = i /\ frame'[s] = i /\ has_pool'[s] = PoolOf
        BY <1>2, <3>3, <4>1 DEF Bind, BindCopied
      <4> HIDE DEF s, i
      <4>7. backing'[s] \in Indices =>
              /\ has_pool'[s] /\ frame'[s] = backing'[s]
              /\ backing'[s] \in committed
              /\ content[backing'[s]] = want[s]
        BY <4>3, <4>4, <4>6, MarksNotIndices
      <4> QED
        BY <2>1, <3>1, <4>5, <4>7 DEF Shown
    <3> QED
      BY <2>3, <3>2, <3>3 DEF read_picture, surfVars
  <2> QED
    BY <1>6, <2>2, <2>3 DEF drain_output_frame
<1>7. CASE worker_drain_one \/ drain_hevc_after_submit \/ full_drained
  BY <1>3, <1>6, <1>7 DEF worker_drain_one, drain_hevc_after_submit,
       full_drained, mppVars, surfVars, poolVars
<1>8. CASE context_destroy
  <2>1. UNCHANGED <<backing, frame, has_pool, want, content>>
    BY <1>8 DEF context_destroy
  <2>2. committed' = committed \/ Users' = {}
    BY <1>1, <1>8 DEF context_destroy, PoolUnref, Counted
  <2>3. Users' = Users
    BY <2>1 DEF Users
  <2> QED
    BY <1>3, <2>1, <2>2, <2>3 DEF Shown, Users
<1>9. CASE \/ take_job \/ put_accepted \/ put_rejected \/ put_given_up
           \/ full_starved \/ commit_pool_buffer \/ grew \/ grow_failed
           \/ stall_timeout
  BY <1>3, <1>9 DEF take_job, put_accepted, put_rejected, put_given_up,
       GiveUp, full_starved, commit_pool_buffer, grew, grow_failed,
       stall_timeout, mppVars, poolVars, surfVars
<1>10. ASSUME NEW s \in Surfaces, rk_DestroySurfaces(s)
       PROVE  Shown'
  BY <1>3, <1>10 DEF rk_DestroySurfaces, mppVars, poolVars
<1>11. ASSUME NEW n \in Sizes, mpp_info_change(n)
       PROVE  Shown'
  BY <1>3, <1>11 DEF mpp_info_change, surfVars, poolVars
<1>12. CASE rk_DestroyContext \/ UNCHANGED vars
  BY <1>3, <1>12 DEF rk_DestroyContext, vars, mppVars, poolVars, surfVars
<1> QED
  BY <1>4, <1>5, <1>7, <1>8, <1>9, <1>10, <1>11, <1>12
     DEF Next, Worker, mpp_run

-----------------------------------------------------------------------------
(***************************************************************************)
(* Tries and growth of a push.                                             *)
(***************************************************************************)

(* g growths account for the push so far.                                  *)
Grown(g) ==
  /\ tries = StarvedTries * g + starved + Step
  /\ count = PoolMax \/ count >= PoolCount + g * PoolGrow

(* One growth more is StarvedTries tries and PoolGrow buffers more.        *)
LEMMA OneMore ==
  ASSUME NEW a \in Int, NEW g \in Int
  PROVE  /\ a * g \in Int /\ g * a \in Int
         /\ a * (g + 1) = a * g + a /\ (g + 1) * a = g * a + a
         /\ a * 0 = 0 /\ 0 * a = 0
OBVIOUS

(* More growths give more buffers.                                         *)
LEMMA MoreBuffers ==
  ASSUME NEW a \in Nat, NEW g \in Nat, NEW n \in Nat, g >= n
  PROVE  g * a >= n * a
<1>1. PICK d \in Nat : g = n + d
  <2>1. g - n \in Nat /\ g = n + (g - n)
    OBVIOUS
  <2> QED
    BY <2>1
<1>2. g * a = n * a + d * a /\ d * a >= 0
  BY <1>1
<1>3. g * a \in Int /\ n * a \in Int /\ d * a \in Int
  OBVIOUS
<1> QED
  BY <1>2, <1>3

(* Fewer tries than the growths need means fewer growths.                  *)
LEMMA MoreTries ==
  ASSUME NEW a \in Nat, NEW g \in Nat, NEW n \in Nat, NEW s \in 0 .. a - 1,
         a * g + s >= a * (n + 1)
  PROVE  g >= n
<1> SUFFICES ASSUME g + 1 <= n
             PROVE  FALSE
  OBVIOUS
<1>1. n * a >= (g + 1) * a
  BY MoreBuffers
<1>2. /\ a * (n + 1) = n * a + a /\ (g + 1) * a = a * g + a
      /\ a * g \in Int /\ n * a \in Int
  OBVIOUS
<1> QED
  BY <1>1, <1>2

(* Every step keeps the account of tries and growths.                      *)
LEMMA TriedKept ==
  ASSUME PoolInv, [Next]_vars
  PROVE  Tried'
<1> USE DEF PoolInv
<1>1. /\ StarvedTries \in Nat \ {0} /\ PoolGrow \in Nat \ {0}
      /\ PoolCount \in Nat /\ PoolMax \in Nat
      /\ tries \in Nat /\ starved \in 0 .. StarvedTries - 1
      /\ count \in 0 .. PoolMax /\ added \in Nat
      /\ got_frame \in BOOLEAN /\ no_memory \in BOOLEAN
  BY PoolAssumption DEF TypeOK
<1> DEFINE Quiet == pool = "alive" /\ got_frame = FALSE /\ no_memory = FALSE
<1>2. CASE UNCHANGED <<pc, tries, starved, got_frame, no_memory, count>>
           /\ (pool' = "alive" => pool = "alive")
  BY <1>2 DEF Tried, Step
<1>3. CASE UNCHANGED <<pc, tries, starved, got_frame>>
           /\ pc \in {"loop", "after"}
  BY <1>3 DEF Tried
<1>4. CASE pc' = "loop" /\ NoPush
  BY <1>4 DEF Tried, NoPush
<1>5. CASE take_job
  <2>1. /\ tries' = 0 /\ starved' = 0 /\ pc' = "put"
        /\ UNCHANGED <<pool, count, got_frame>>
    BY <1>5 DEF take_job, Tried, poolVars
  <2>2. pool = "alive" => count >= PoolCount
    BY DEF Counted
  <2>3. Step' = 0
    BY <2>1 DEF Step
  <2>4. StarvedTries * 0 = 0 /\ 0 * PoolGrow = 0
    BY <1>1, OneMore
  <2>5. pool' = "alive" =>
          /\ tries' = StarvedTries * 0 + starved' + Step'
          /\ count' = PoolMax \/ count' >= PoolCount + 0 * PoolGrow
    BY <1>1, <2>1, <2>2, <2>3, <2>4
  <2> QED
    BY <2>1, <2>5 DEF Tried
<1>6. CASE put_rejected \/ full_starved \/ grew
  <2>1. SUFFICES ASSUME (pool = "alive" /\ got_frame = FALSE
                           /\ no_memory = FALSE)'
                 PROVE  \E g \in Nat : Grown(g)'
    BY <1>6 DEF Tried, Grown, put_rejected, full_starved, grew
  <2>2. Quiet /\ pc \in {"put", "full", "grow"}
    BY <1>1, <1>6, <2>1 DEF put_rejected, full_starved, grew, poolVars,
         commit_failed
  <2>3. PICK g \in Nat : Grown(g)
    BY <2>2 DEF Tried, Grown
  <2>4. /\ StarvedTries * g \in Int /\ g * PoolGrow \in Int
        /\ StarvedTries * (g + 1) = StarvedTries * g + StarvedTries
        /\ (g + 1) * PoolGrow = g * PoolGrow + PoolGrow
    BY <1>1, OneMore
  <2>5. CASE put_rejected
    <3>1. Grown(g)'
      BY <1>1, <2>3, <2>4, <2>5
         DEF Grown, Step, put_rejected, poolVars
    <3> QED
      BY <3>1
  <2>6. CASE full_starved
    <3>1. Grown(g)'
      BY <1>1, <2>3, <2>4, <2>6
         DEF Grown, Step, full_starved, poolVars
    <3> QED
      BY <3>1
  <2>7. CASE grew
    <3>1. count' = GrowTarget /\ tries' = tries /\ starved' = starved
          /\ pc = "grow" /\ pc' = "put"
      BY <2>1, <2>7 DEF grew, commit_failed
    <3>2. tries' = StarvedTries * (g + 1) + starved' + Step'
      BY <1>1, <2>3, <2>4, <3>1 DEF Grown, Step
    <3>3. count' = PoolMax \/ count' >= PoolCount + (g + 1) * PoolGrow
      BY <1>1, <2>3, <2>4, <3>1 DEF Grown, GrowTarget
    <3>4. g + 1 \in Nat
      OBVIOUS
    <3>5. Grown(g + 1)'
      BY <3>2, <3>3 DEF Grown
    <3> QED
      BY <3>4, <3>5
  <2> QED
    BY <1>6, <2>5, <2>6, <2>7
<1>7. CASE full_drained
  BY <1>7 DEF full_drained, Tried
<1>8. CASE put_given_up \/ grow_failed
  BY <1>4, <1>8 DEF put_given_up, grow_failed, GiveUp
<1>9. CASE put_accepted
  BY <1>9 DEF put_accepted, Tried, NoPush
<1>10. CASE commit_pool_buffer
  BY <1>2, <1>10 DEF commit_pool_buffer
<1>11. CASE worker_drain_one \/ drain_hevc_after_submit
  <2>1. /\ UNCHANGED <<tries, starved, got_frame>>
        /\ pc \in {"loop", "after"} /\ pc' = "loop"
    BY <1>11 DEF worker_drain_one, drain_hevc_after_submit,
         drain_output_frame
  <2> QED
    BY <2>1 DEF Tried
<1>12. CASE stall_timeout \/ context_destroy
  BY <1>3, <1>12 DEF stall_timeout, context_destroy, putVars
<1>13. ASSUME NEW s \in Surfaces, submit(s) \/ surface_destroy(s)
       PROVE  Tried'
  BY <1>2, <1>13 DEF submit, surface_destroy, putVars, Unbind, PoolUnref
<1>14. ASSUME NEW s \in Surfaces, rk_DestroySurfaces(s)
       PROVE  Tried'
  BY <1>2, <1>14 DEF rk_DestroySurfaces, putVars, poolVars
<1>15. ASSUME NEW n \in Sizes, mpp_info_change(n)
       PROVE  Tried'
  BY <1>2, <1>15 DEF mpp_info_change, putVars, poolVars
<1>16. ASSUME NEW i, NEW kept, mpp_decode(i, kept)
       PROVE  Tried'
  BY <1>2, <1>16 DEF mpp_decode, putVars, poolVars
<1>17. CASE rk_DestroyContext \/ UNCHANGED vars
  BY <1>2, <1>17 DEF rk_DestroyContext, vars, putVars, poolVars
<1> QED
  BY <1>5, <1>6, <1>7, <1>8, <1>9, <1>10, <1>11, <1>12, <1>13, <1>14, <1>15,
     <1>16, <1>17 DEF Next, Worker, mpp_run

-----------------------------------------------------------------------------
(***************************************************************************)
(* The invariant and what follows from it.                                 *)
(***************************************************************************)

(* A new context, before its first frame.                                  *)
LEMMA PoolInit == Init => PoolInv
<1> SUFFICES ASSUME Init
             PROVE  PoolInv
  OBVIOUS
<1>1. /\ PutTries \in Nat /\ StarvedTries \in Nat \ {0} /\ PoolMax \in Nat
      /\ PoolGrow \in Nat /\ MaxPictures \in Nat
  BY PoolAssumption
<1>2. Users = {}
  BY DEF Init, Users
<1>3. TypeOK
  <2>1. 0 \in Picture
    BY <1>1 DEF Picture
  <2>2. content \in [Indices -> Picture] /\ want \in [Surfaces -> Picture]
    BY <2>1 DEF Init
  <2>3. /\ frame \in [Surfaces -> Buffer]
        /\ backing \in [Surfaces -> Buffer \cup {Private}]
        /\ has_pool \in [Surfaces -> BOOLEAN] /\ app \in [Surfaces -> BOOLEAN]
        /\ status \in [Surfaces -> {"idle", "pending", "decoded", "failed"}]
    BY DEF Init, Buffer
  <2>4. refs \in 0 .. Cardinality(Surfaces) + 1
    BY UsersFinite DEF Init
  <2>5. /\ jobs \in Seq(Task) /\ input \in Seq(Picture)
        /\ out \in Seq([pic : Picture, buf : Buffer])
    BY DEF Init
  <2>6. /\ count \in 0 .. PoolMax /\ buffer_size \in Nat
        /\ tries \in 0 .. PutTries /\ starved \in 0 .. StarvedTries - 1
        /\ added \in 0 .. PoolGrow
    BY <1>1 DEF Init
  <2>7. /\ pictures \in Picture /\ committed \subseteq Indices
        /\ routes \subseteq Task /\ refset \subseteq Indices
        /\ format \in Formats /\ need \in Sizes \cup {0}
        /\ {got_frame, no_memory, info_ready} \subseteq BOOLEAN
    BY <2>1 DEF Init
  <2>8. /\ pool \in {"none", "alive", "destroyed"}
        /\ ctx \in {"live", "stopping", "gone"}
        /\ pc \in {"loop", "put", "full", "grow", "after"}
    BY DEF Init
  <2> QED
    BY <2>2, <2>3, <2>4, <2>5, <2>6, <2>7, <2>8 DEF TypeOK
<1>4. Counted /\ Staged /\ Framed /\ Tried
  BY <1>2 DEF Init, Counted, Staged, Framed, Tried
<1>5. Shown
  BY MarksNotIndices DEF Init, Shown
<1> QED
  BY <1>3, <1>4, <1>5 DEF PoolInv

(* PoolInv holds of every behaviour of the pool.                           *)
THEOREM PoolInvariant == Spec => []PoolInv
<1>1. PoolInv /\ [Next]_vars => PoolInv'
  BY TypesKept, CountedKept, StagedKept, FramedKept, ShownKept, TriedKept
     DEF PoolInv
<1> QED
  BY PoolInit, <1>1, PTL DEF Spec

(* The pool, the surfaces, the worker and MPP keep their types: the pool   *)
(* never commits a buffer past the end of its array.                       *)
THEOREM PoolTypes == Spec => []TypeOK
<1>1. PoolInv => TypeOK
  BY DEF PoolInv
<1> QED
  BY PoolInvariant, <1>1, PTL

(* The references of the pool are exactly the context's and the bound      *)
(* surfaces': it is destroyed with the last of them and not before, and    *)
(* every buffer a surface shows is still one of its buffers.               *)
THEOREM PoolLifetime == Spec => []PoolAliveWhileUsed
<1>1. PoolInv => PoolAliveWhileUsed
  <2> SUFFICES ASSUME PoolInv
               PROVE  PoolAliveWhileUsed
    OBVIOUS
  <2>1. Users = {s \in Surfaces : has_pool[s]}
    BY DEF Users
  <2>2. pool # "alive" => Cardinality(Users) = 0
    BY FS_EmptySet DEF PoolInv, Counted
  <2>3. \A s \in Surfaces : backing[s] \in Indices => backing[s] \in committed
    BY DEF PoolInv, Shown
  <2>4. pool # "alive" => refs = 0
    BY DEF PoolInv, Counted
  <2>5. pool = "alive" =>
          /\ refs > 0
          /\ refs = Cardinality(Users) + IF ctx = "gone" THEN 0 ELSE 1
    BY DEF PoolInv, Counted
  <2> QED
    BY <2>1, <2>2, <2>3, <2>4, <2>5 DEF PoolAliveWhileUsed
<1> QED
  BY PoolInvariant, <1>1, PTL

(* Whenever the worker may read a frame, external_buffer_matches_pool      *)
(* recognises its buffer, growth or not.                                   *)
THEOREM FramesRecognised == Spec => []FramesMatchPool
<1>1. PoolInv => FramesMatchPool
  <2> SUFFICES ASSUME PoolInv, pool = "alive", pc # "grow",
                      NEW k \in DOMAIN out, out[k].pic # 0
               PROVE  out[k].buf \in 0 .. count - 1
    BY DEF FramesMatchPool, external_buffer_matches_pool
  <2>1. added = 0 /\ count \in Nat
    BY DEF PoolInv, Counted, TypeOK
  <2>2. out[k].buf \in committed
    BY DEF PoolInv, Framed
  <2>3. committed = 0 .. count + added - 1
    BY DEF PoolInv, Counted
  <2> QED
    BY <2>1, <2>2, <2>3
<1> QED
  BY PoolInvariant, <1>1, PTL

(* MPP never decodes into a buffer that a surface shows: it keeps the      *)
(* picture the surface was bound for, also past the context's end.         *)
THEOREM ShownIsStable == Spec => []ShownNotOverwritten
<1>1. PoolInv => ShownNotOverwritten
  BY DEF PoolInv, Shown, ShownNotOverwritten
<1> QED
  BY PoolInvariant, <1>1, PTL

(* A push that runs out of tries on starvation alone has grown the pool to *)
(* its ceiling.                                                            *)
LEMMA TriesReachCeiling ==
  ASSUME PoolInv, pc = "put", tries = PutTries, pool = "alive",
         got_frame = FALSE, no_memory = FALSE
  PROVE  count = PoolMax
<1>1. /\ StarvedTries \in Nat \ {0} /\ PoolGrow \in Nat /\ PoolCount \in Nat
      /\ PoolMax \in Nat /\ PutTries \in Nat
  BY PoolAssumption
<1>2. PICK n \in 0 .. PoolMax : /\ PoolCount + n * PoolGrow >= PoolMax
                                /\ PutTries >= StarvedTries * (n + 1)
  BY PoolAssumption
<1>3. PICK g \in Nat : Grown(g)
  BY DEF PoolInv, Tried, Grown
<1>4. /\ n \in Nat /\ starved \in 0 .. StarvedTries - 1
      /\ count \in 0 .. PoolMax
  BY <1>1 DEF PoolInv, TypeOK
<1>5. /\ StarvedTries * g \in Int /\ StarvedTries * (n + 1) \in Int
      /\ g * PoolGrow \in Int /\ n * PoolGrow \in Int
  BY <1>1, <1>4
<1>6. StarvedTries * g + starved >= StarvedTries * (n + 1)
  BY <1>1, <1>2, <1>3, <1>4, <1>5 DEF Grown, Step
<1>7. g >= n
  BY <1>1, <1>4, <1>6, MoreTries
<1>8. g * PoolGrow >= n * PoolGrow
  BY <1>1, <1>4, <1>7, MoreBuffers
<1> QED
  BY <1>1, <1>2, <1>3, <1>4, <1>5, <1>8 DEF Grown

(* put_packet_draining gives a picture up only at the pool's ceiling,      *)
(* without a pool, out of memory, during teardown, or after frames did     *)
(* come out: whatever the pool's sizes, as long as the tries cover the     *)
(* growths.                                                                *)
THEOREM PushFailsExhausted == Spec => PushFailsOnlyExhausted
<1> DEFINE Fails == pc \in {"put", "full", "grow"} /\ pc' = "loop"
                      /\ input' = input
           Excused == \/ ctx = "stopping"
                      \/ pool # "alive" \/ count = PoolMax \/ no_memory'
                      \/ tries = PutTries /\ got_frame
<1>1. ASSUME PoolInv, Next, Fails
      PROVE  Excused
  <2>1. pc # "loop" /\ pc' = "loop" /\ got_frame \in BOOLEAN
        /\ no_memory \in BOOLEAN
    BY <1>1 DEF PoolInv, TypeOK
  <2>2. CASE put_given_up
    <3>1. no_memory' = no_memory /\ pc = "put"
          /\ (tries = PutTries \/ ctx = "stopping")
      BY <2>2 DEF put_given_up
    <3> QED
      BY <1>1, <2>1, <3>1, TriesReachCeiling
  <2>3. CASE grow_failed
    <3>1. count \in 0 .. PoolMax /\ PoolMax \in Nat
      BY <1>1, PoolAssumption DEF PoolInv, TypeOK
    <3> QED
      BY <2>3, <3>1 DEF grow_failed, commit_failed, CanGrow
  <2>4. CASE put_accepted
    <3>1. input \in Seq(Picture) /\ Job.pic \in Picture
      BY <1>1, <2>4, JobFacts DEF PoolInv, TypeOK, put_accepted
    <3>2. Append(input, Job.pic) # input
      <4>1. Len(Append(input, Job.pic)) = Len(input) + 1 /\ Len(input) \in Nat
        BY <3>1, Newest
      <4> QED
        BY <4>1
    <3> QED
      BY <1>1, <2>4, <3>2 DEF put_accepted
  <2>5. CASE \/ take_job \/ worker_drain_one \/ drain_hevc_after_submit
             \/ put_rejected \/ full_drained \/ full_starved
             \/ commit_pool_buffer \/ grew \/ stall_timeout
             \/ context_destroy
    BY <1>1, <2>5 DEF take_job, worker_drain_one, drain_hevc_after_submit,
         put_rejected, full_drained, full_starved, commit_pool_buffer, grew,
         stall_timeout, context_destroy, putVars
  <2>6. CASE Worker
    BY <2>2, <2>3, <2>4, <2>5, <2>6 DEF Worker
  <2>7. CASE pc' = pc
    BY <2>1, <2>7
  <2> QED
    BY <1>1, <2>6, <2>7 DEF Next, submit, rk_DestroySurfaces, surface_destroy,
         rk_DestroyContext, mpp_info_change, mpp_run, mpp_decode, putVars
<1>2. PoolInv /\ [Next]_vars => [Fails => Excused]_vars
  BY <1>1
<1> QED
  BY PoolInvariant, <1>2, PTL DEF Spec, PushFailsOnlyExhausted
=============================================================================
