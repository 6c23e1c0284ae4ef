-------------------------- MODULE PictureAssembly --------------------------
(***************************************************************************)
(* From VA buffers to the packets MPP reads: RenderPicture collects buffer *)
(* names and snapshots picture state (context.c), EndPicture rebuilds the  *)
(* parameter sets VA does not carry and copies the slices into a job       *)
(* (mpp_dec.c), the worker pushes the job.  The bitstream state this keeps *)
(* (sps_sent, the cached HEVC sequence bundle) describes what MPP has seen *)
(* only as far as the jobs really get there.                               *)
(*                                                                         *)
(* One application thread; the writers of h264.c and hevc.c are injective  *)
(* in the fields they encode, so a parameter set is named by them.         *)
(***************************************************************************)
EXTENDS Naturals, Sequences, FiniteSets, FiniteSetsExt

CONSTANTS
  Codecs,         \* the codecs of the context: among "AVC" (H.264 below the
                  \* High profile), "AVC_HIGH", "HEVC", "VP9"
  StreamSequences,   \* bound: the sequence parameters of the stream
  ScalingSequences,  \* those with scaling_list_enabled_flag (HEVC)
  Matrices,       \* bound: the scaling matrices it sends
  MaxSlices,      \* bound: slices of a picture
  MaxPictures,    \* bound: pictures ended
  BuildFails,     \* codecs for which a writer may refuse its input, or
                  \* memory run out
  PushFails,      \* codecs for which a push may fail (see DecodePool)
  EarlyDestroy    \* types of buffers that may be destroyed between
                  \* RenderPicture and EndPicture

ASSUME AssemblyAssumption ==
  /\ Codecs \subseteq {"AVC", "AVC_HIGH", "HEVC", "VP9"}
  /\ StreamSequences \cup Matrices \subseteq Nat \ {0}
  /\ ScalingSequences \subseteq StreamSequences
  /\ MaxSlices \in Nat \ {0} /\ MaxPictures \in Nat
  /\ BuildFails \cup PushFails \subseteq Codecs

VARIABLES
  \* the application
  pic,            \* the picture under way, or NoPicture
  sent,           \* how many of its buffers were rendered
  live,           \* the VA buffers that exist
  stream,         \* the sequence of the last picture ended
  ended,          \* pictures ended so far
  \* RKContext
  coding, pending, last_pp, last_iq, has_pp, has_iq, sps_sent,
  hevc_sequence,  \* hevc_sequence_headers: the last bundle queued
  jobs,
  \* MPP
  active,         \* the sequence parameters MPP read last
  fed             \* ghost: the last packet as MPP decodes it

appVars == <<pic, sent, live, stream, ended>>
ctxVars == <<pending, last_pp, last_iq, has_pp, has_iq, sps_sent,
             hevc_sequence>>
vars == <<appVars, coding, ctxVars, jobs, active, fed>>

NoPicture == [n |-> 0, seq |-> 0, iq |-> 0, idr |-> FALSE, slices |-> 0]
NoHeader  == 0
NoPps     == [pp |-> 0, iq |-> 0, refs |-> 0]
NoPacket  == [of |-> NoPicture, sps |-> NoHeader, pps |-> NoPps,
              slices |-> <<>>]

Init ==
  /\ pic = NoPicture /\ sent = 0 /\ live = {} /\ stream = 0 /\ ended = 0
  /\ coding \in Codecs
  /\ pending = <<>> /\ last_pp = [n |-> 0, seq |-> 0] /\ last_iq = 0
  /\ has_pp = FALSE /\ has_iq = FALSE /\ sps_sent = FALSE
  /\ hevc_sequence = NoHeader
  /\ jobs = <<>> /\ active = NoHeader /\ fed = NoPacket

-----------------------------------------------------------------------------
(***************************************************************************)
(* What a picture is made of.                                              *)
(***************************************************************************)
Buf(p, type, val) == [n |-> p.n, type |-> type, val |-> val]

(* The application's order: picture state first, then parameters and data  *)
(* of each slice.                                                          *)
BuffersOf(p) ==
  <<Buf(p, "pp", p.seq)>>
  \o (IF p.iq = 0 THEN <<>> ELSE <<Buf(p, "iq", p.iq)>>)
  \o [i \in 1 .. 2 * p.slices |->
        IF i % 2 = 1 THEN Buf(p, "slice_param", (i + 1) \div 2)
                     ELSE Buf(p, "slice_data", i \div 2)]

(* A new sequence starts with an IDR picture.  H.264 pictures may come     *)
(* with or without matrices, HEVC ones as their sequence says.             *)
Pictures ==
  {p \in [n : {ended + 1}, seq : StreamSequences, iq : Matrices \cup {0},
          idr : BOOLEAN, slices : 1 .. MaxSlices] :
     /\ p.seq # stream /\ stream # 0 => p.idr
     /\ coding = "HEVC" => (p.iq # 0 <=> p.seq \in ScalingSequences)}

Positions(q, type) == {i \in DOMAIN q : q[i].type = type}

First(q, type) == q[Min(Positions(q, type))]

H264 == {"AVC", "AVC_HIGH"}

(* Matrices are written for the High profile of H.264, whatever the        *)
(* application sends, and for HEVC where the sequence enables them.        *)
Scaled(seq) == \/ coding = "AVC_HIGH"
               \/ coding = "HEVC" /\ seq \in ScalingSequences

(* The PPS.  H.264 takes its default reference counts from the first       *)
(* slice.                                                                  *)
PictureHeader(pp, iq, q) ==
  [pp   |-> pp.n,
   iq   |-> IF Scaled(pp.seq) THEN iq ELSE 0,
   refs |-> IF coding \in H264 /\ Positions(q, "slice_param") # {}
              THEN First(q, "slice_param").val ELSE 0]

(* HEVC rewrites each slice with the parameters that precede it.           *)
ParamBefore(q, i) ==
  LET before == {j \in Positions(q, "slice_param") : j < i}
  IN  IF coding = "HEVC" /\ before # {} THEN q[Max(before)].val ELSE 0

(* The slices, in the order of their positions.                            *)
Slices(q) ==
  [i \in Positions(q, "slice_data") |->
     [data |-> q[i], param |-> ParamBefore(q, i)]]

-----------------------------------------------------------------------------
(* Slip: the collected buffers of an abandoned picture stay.               *)
BeginPicture_kept(p) ==
  /\ ended < MaxPictures
  /\ pic' = p /\ sent' = 0
  /\ has_iq' = FALSE /\ has_pp' = FALSE
  /\ UNCHANGED <<pending, live, stream, ended, last_pp, last_iq, sps_sent,
                 hevc_sequence, jobs, coding, active, fed>>

(* A picture already under way is abandoned.                               *)
rk_BeginPicture(p) ==
  /\ ended < MaxPictures
  /\ pic' = p /\ sent' = 0
  /\ pending' = <<>>
  /\ has_iq' = FALSE /\ has_pp' = FALSE
  /\ UNCHANGED <<live, stream, ended, last_pp, last_iq, sps_sent,
                 hevc_sequence, jobs, coding, active, fed>>

(* Slip: parameters are only named, like slices, and read in the last call *)
(* of the picture.                                                         *)
RenderPicture_late(k) ==
  LET rest == SubSeq(BuffersOf(pic), sent + 1, sent + k)
      last == sent + k = Len(BuffersOf(pic))
      Readable(type) == last /\ \E b \in live' : b.type = type /\ b.n = pic.n
  IN  /\ pic # NoPicture
      /\ sent + k <= Len(BuffersOf(pic))
      /\ sent' = sent + k
      /\ live' = live \cup {rest[i] : i \in DOMAIN rest}
      /\ pending' = pending \o rest
      /\ last_pp' = IF Readable("pp") THEN [n |-> pic.n, seq |-> pic.seq]
                                      ELSE last_pp
      /\ has_pp' = TRUE
      /\ last_iq' = IF Readable("iq") THEN pic.iq ELSE last_iq
      /\ has_iq' = (pic.iq # 0)
      /\ UNCHANGED <<pic, stream, ended, sps_sent, hevc_sequence, jobs,
                     coding, active, fed>>

(* The next k buffers of the picture in one call.  Parameters and matrices *)
(* are copied now, slices only named.                                      *)
rk_RenderPicture(k) ==
  LET rest == SubSeq(BuffersOf(pic), sent + 1, sent + k)
      pps  == Positions(rest, "pp")
      iqs  == Positions(rest, "iq")
  IN  /\ pic # NoPicture
      /\ sent + k <= Len(BuffersOf(pic))
      /\ sent' = sent + k
      /\ live' = live \cup {rest[i] : i \in DOMAIN rest}
      /\ pending' = pending \o rest
      /\ last_pp' = IF coding # "VP9" /\ pps # {}
                      THEN [n |-> pic.n, seq |-> rest[Max(pps)].val]
                      ELSE last_pp
      /\ has_pp' = (has_pp \/ (coding # "VP9" /\ pps # {}))
      /\ last_iq' = IF coding # "VP9" /\ iqs # {} THEN rest[Max(iqs)].val
                                               ELSE last_iq
      /\ has_iq' = (has_iq \/ (coding # "VP9" /\ iqs # {}))
      /\ UNCHANGED <<pic, stream, ended, sps_sent, hevc_sequence, jobs,
                     coding, active, fed>>

rk_DestroyBuffer(b) ==
  /\ b.type \in EarlyDestroy
  /\ live' = live \ {b}
  /\ UNCHANGED <<pic, sent, stream, ended, ctxVars, jobs, coding, active, fed>>

-----------------------------------------------------------------------------
(***************************************************************************)
(* EndPicture: building the packet.  A name that no longer resolves is     *)
(* skipped.                                                                *)
(***************************************************************************)
Found == [i \in {j \in DOMAIN pending : pending[j] \in live} |-> pending[i]]

Iq == IF has_iq THEN last_iq ELSE 0

is_idr == Positions(Found, "slice_data") # {} /\ pic.idr

Packet(sps) ==
  [of     |-> pic,
   sps    |-> sps,
   pps    |-> IF coding = "VP9" THEN NoPps
                               ELSE PictureHeader(last_pp, Iq, Found),
   slices |-> Slices(Found)]

(* After the call the application drops the picture's buffers.             *)
Ended ==
  /\ pic # NoPicture /\ sent = Len(BuffersOf(pic))
  /\ pic' = NoPicture /\ sent' = 0 /\ live' = {}
  /\ stream' = pic.seq /\ ended' = ended + 1
  /\ pending' = <<>>
  /\ UNCHANGED <<last_pp, last_iq, has_pp, has_iq, coding, active, fed>>

Queue(packet) == jobs' = Append(jobs, packet)

(* sps_sent is set as soon as the SPS is in the packet, whatever comes of  *)
(* the packet.                                                             *)
build_h264_job ==
  LET emit == is_idr \/ ~sps_sent
  IN  /\ coding \in H264
      /\ Ended
      /\ \/ /\ Queue(Packet(IF emit THEN last_pp.seq ELSE NoHeader))
            /\ sps_sent' = TRUE
         \/ /\ coding \in BuildFails
            /\ sps_sent' \in {sps_sent, sps_sent \/ emit}
            /\ UNCHANGED jobs
      /\ UNCHANGED hevc_sequence

(* Picture parameters, a slice, and the matrices they ask for.             *)
HevcReady ==
  /\ has_pp /\ Positions(Found, "slice_data") # {}
  /\ last_pp.seq \in ScalingSequences => has_iq

(* The bundle is cached when the job is queued (rk_mpp_dec_enqueue_job).   *)
build_hevc_job ==
  LET header == last_pp.seq
  IN  /\ coding = "HEVC"
      /\ Ended
      /\ \/ /\ HevcReady
            /\ Queue(Packet(IF header # hevc_sequence THEN header
                                                      ELSE NoHeader))
            /\ hevc_sequence' = header
         \/ /\ coding \in BuildFails \/ ~HevcReady
            /\ UNCHANGED <<jobs, hevc_sequence>>
      /\ UNCHANGED sps_sent

build_generic_job ==
  /\ coding = "VP9"
  /\ Ended
  /\ \/ Queue(Packet(NoHeader))
     \/ coding \in BuildFails /\ UNCHANGED jobs
  /\ UNCHANGED <<sps_sent, hevc_sequence>>

rk_EndPicture == build_h264_job \/ build_hevc_job \/ build_generic_job

-----------------------------------------------------------------------------
(* The worker pushes the oldest job and MPP parses it (external): sequence *)
(* parameters stay active until the next ones.                             *)
submit_decode_packet ==
  LET job == Head(jobs)
  IN  /\ jobs # <<>>
      /\ jobs' = Tail(jobs)
      /\ active' = IF job.sps = NoHeader THEN active ELSE job.sps
      /\ fed' = [job EXCEPT !.sps = active']
      /\ UNCHANGED <<appVars, coding, ctxVars>>

submit_failed ==
  /\ coding \in PushFails /\ jobs # <<>>
  /\ jobs' = Tail(jobs)
  /\ UNCHANGED <<appVars, ctxVars, coding, active, fed>>

Next ==
  \/ \E p \in Pictures : rk_BeginPicture(p)
  \/ \E k \in 1 .. Len(BuffersOf(pic)) : rk_RenderPicture(k)
  \/ \E b \in live : rk_DestroyBuffer(b)
  \/ rk_EndPicture
  \/ submit_decode_packet
  \/ submit_failed

Spec == Init /\ [][Next]_vars

-----------------------------------------------------------------------------
Pic    == [n : 0 .. MaxPictures, seq : StreamSequences \cup {0},
           iq : Matrices \cup {0}, idr : BOOLEAN, slices : 0 .. MaxSlices]
Header == StreamSequences \cup {NoHeader}

(* The values RKContext, a job and MPP can hold; a picture's pending list  *)
(* never outgrows the buffers of one picture.                              *)
TypeOK ==
  /\ coding \in Codecs
  /\ pic \in Pic /\ stream \in StreamSequences \cup {0}
  /\ sent \in 0 .. 2 * MaxSlices + 2 /\ ended \in 0 .. MaxPictures
  /\ Len(pending) = sent
  /\ last_pp \in [n : 0 .. MaxPictures, seq : StreamSequences \cup {0}]
  /\ last_iq \in Matrices \cup {0}
  /\ {has_pp, has_iq, sps_sent} \subseteq BOOLEAN
  /\ {hevc_sequence, active, fed.sps} \subseteq Header
  /\ \A i \in DOMAIN jobs : jobs[i].of \in Pic /\ jobs[i].sps \in Header

(* MPP decodes every picture with the sequence and picture parameters the  *)
(* application declared for it, although sequence parameters are only put  *)
(* into some of the packets.                                               *)
DecodedAsDeclared ==
  LET p == fed.of
  IN  coding # "VP9" /\ p # NoPicture =>
        /\ fed.sps = p.seq
        /\ fed.pps = PictureHeader(p, p.iq, BuffersOf(p))

(* The packet of a picture holds the slices the application rendered for   *)
(* it, all of them, in order, each with its own parameters, and nothing of *)
(* a picture abandoned before.                                             *)
PacketHoldsItsSlices ==
  fed.of # NoPicture => fed.slices = Slices(BuffersOf(fed.of))
=============================================================================
