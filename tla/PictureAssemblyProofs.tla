----------------------- MODULE PictureAssemblyProofs -----------------------
(***************************************************************************)
(* Packets for any stream: whatever calls the application splits a picture *)
(* into, whichever pictures it abandons, and however far the worker lags   *)
(* behind, a job is exactly the packet of its picture, and MPP reads it    *)
(* with the sequence parameters the application declared.                  *)
(*                                                                         *)
(* Then what the packets are made of (Bitstream): emulation prevention for *)
(* any payload, the header of any legal VP9 frame, and the level declared  *)
(* for a picture of any size.                                              *)
(***************************************************************************)
EXTENDS PictureAssembly, Bitstream, SequenceTheorems, WellFoundedInduction,
        NaturalsInduction, TLAPS

SliceTypes == {"slice_param", "slice_data"}
Buffers == [n : Nat, type : {"pp", "iq"} \cup SliceTypes, val : Nat]

(* The packet that a picture ought to have, given its sequence header.     *)
PacketOf(p, sps) ==
  [of     |-> p,
   sps    |-> sps,
   pps    |-> IF coding = "VP9" THEN NoPps
                               ELSE PictureHeader(p, p.iq, BuffersOf(p)),
   slices |-> Slices(BuffersOf(p))]

Packets == {PacketOf(p, sps) : p \in Pic, sps \in Header}

(* What RenderPicture collected is the beginning of the picture under way; *)
(* the application left its slices alone.                                  *)
Collected ==
  /\ coding \in Codecs
  /\ ended \in 0 .. MaxPictures /\ stream \in StreamSequences \cup {0}
  /\ pic = NoPicture => sent = 0
  /\ pic # NoPicture => pic \in Pictures /\ ended < MaxPictures
  /\ sent \in 0 .. Len(BuffersOf(pic))
  /\ pending \in Seq(Buffers) /\ Len(pending) = sent
  /\ \A i \in 1 .. sent : pending[i] = BuffersOf(pic)[i]
  /\ \A i \in 1 .. sent : pending[i].type \in SliceTypes => pending[i] \in live

(* The snapshots of picture parameters and matrices are those of the       *)
(* picture under way, as far as it was rendered.                           *)
Snapshots ==
  /\ last_pp \in [n : 0 .. MaxPictures, seq : StreamSequences \cup {0}]
  /\ last_iq \in Matrices \cup {0}
  /\ has_pp \in BOOLEAN /\ has_iq \in BOOLEAN
  /\ coding # "VP9" /\ pic # NoPicture =>
       /\ sent >= 1 => has_pp /\ last_pp = [n |-> pic.n, seq |-> pic.seq]
       /\ has_iq <=> (pic.iq # 0 /\ sent >= 2)
       /\ has_iq => last_iq = pic.iq

(* Every job is the packet of its picture, and so was what MPP read last.  *)
Packed ==
  /\ {sps_sent} \subseteq BOOLEAN
  /\ {hevc_sequence, active} \subseteq Header
  /\ jobs \in Seq(Packets)
  /\ fed \in Packets \cup {NoPacket}

AssemblyInv == Collected /\ Snapshots /\ Packed

(* The sequence MPP will have active before the k-th job in the queue, and *)
(* after the last.                                                         *)
SequenceBefore(k) == IF k = 1 THEN active ELSE jobs[k - 1].of.seq
LastSequence == SequenceBefore(Len(jobs) + 1)

(* A job without sequence parameters follows a job of the same sequence,   *)
(* and what the context remembers is what MPP will have seen by then.      *)
Chained ==
  coding # "VP9" =>
    /\ \A k \in 1 .. Len(jobs) :
         jobs[k].of.seq = IF jobs[k].sps = NoHeader THEN SequenceBefore(k)
                                                    ELSE jobs[k].sps
    /\ fed.of # NoPicture => fed.sps = fed.of.seq
    /\ coding \in H264 /\ sps_sent => stream # 0 /\ LastSequence = stream
    /\ coding = "HEVC" => hevc_sequence = LastSequence

StreamInv == AssemblyInv /\ Chained
-----------------------------------------------------------------------------
(***************************************************************************)
(* The buffers of a picture.                                               *)
(***************************************************************************)
Streamed == [n : Nat, seq : Nat, iq : Nat, idr : BOOLEAN, slices : Nat]

(* How many buffers come before the slices.                                *)
Lead(p) == IF p.iq = 0 THEN 1 ELSE 2


(* The pictures of the application are made of numbers.                    *)
LEMMA PictureFacts ==
  /\ Pic \subseteq Streamed /\ NoPicture \in Pic
  /\ \A p \in Pictures :
       ended \in 0 .. MaxPictures /\ ended < MaxPictures =>
         p \in Pic /\ p # NoPicture /\ p.slices >= 1
         /\ p.seq \in StreamSequences
BY AssemblyAssumption DEF Pic, Pictures, Streamed, NoPicture

(* Where the buffers of a picture are: parameters first, then matrices if  *)
(* there are any, then parameters and data of each slice in turn.          *)
LEMMA BufferLayout ==
  ASSUME NEW p \in Streamed
  PROVE  /\ BuffersOf(p) \in Seq(Buffers)
         /\ Len(BuffersOf(p)) = Lead(p) + 2 * p.slices
         /\ BuffersOf(p)[1] = Buf(p, "pp", p.seq)
         /\ p.iq # 0 => BuffersOf(p)[2] = Buf(p, "iq", p.iq)
         /\ \A i \in 1 .. 2 * p.slices :
              BuffersOf(p)[Lead(p) + i] =
                IF i % 2 = 1 THEN Buf(p, "slice_param", (i + 1) \div 2)
                             ELSE Buf(p, "slice_data", i \div 2)
<1> DEFINE front == <<Buf(p, "pp", p.seq)>>
           iqs   == IF p.iq = 0 THEN <<>> ELSE <<Buf(p, "iq", p.iq)>>
           At(i) == IF i % 2 = 1 THEN Buf(p, "slice_param", (i + 1) \div 2)
                                 ELSE Buf(p, "slice_data", i \div 2)
           body  == [i \in 1 .. 2 * p.slices |-> At(i)]
<1>1. /\ \A i \in 1 .. 2 * p.slices : At(i) \in Buffers
      /\ Buf(p, "pp", p.seq) \in Buffers /\ Buf(p, "iq", p.iq) \in Buffers
      /\ p.slices \in Nat /\ p.iq \in Nat /\ 2 * p.slices \in Nat
  BY DEF Buf, Buffers, SliceTypes, Streamed
<1> HIDE DEF At
<1>2. body \in Seq(Buffers) /\ Len(body) = 2 * p.slices
  BY <1>1
<1>3. front \in Seq(Buffers) /\ Len(front) = 1 /\ front[1] = Buf(p, "pp", p.seq)
  BY <1>1
<1>4. /\ iqs \in Seq(Buffers) /\ Len(iqs) = Lead(p) - 1
      /\ p.iq # 0 => iqs[1] = Buf(p, "iq", p.iq)
  BY <1>1 DEF Lead
<1>5. BuffersOf(p) = (front \o iqs) \o body
  BY Zenon DEF BuffersOf, At
<1>6. \A i \in 1 .. 2 * p.slices : body[i] = At(i)
  OBVIOUS
<1> HIDE DEF body, front, iqs
<1>7. /\ front \o iqs \in Seq(Buffers) /\ Len(front \o iqs) = Lead(p)
      /\ (front \o iqs)[1] = Buf(p, "pp", p.seq)
      /\ p.iq # 0 => (front \o iqs)[2] = Buf(p, "iq", p.iq)
  <2>1. /\ front \o iqs \in Seq(Buffers)
        /\ Len(front \o iqs) = Len(front) + Len(iqs)
        /\ \A i \in 1 .. Len(front) : (front \o iqs)[i] = front[i]
        /\ \A i \in 1 .. Len(iqs) : (front \o iqs)[Len(front) + i] = iqs[i]
    <3>1. front \in Seq(Buffers)
      BY <1>3
    <3>2. iqs \in Seq(Buffers)
      BY <1>4
    <3> QED
      BY <3>1, <3>2
  <2>2. (front \o iqs)[1] = Buf(p, "pp", p.seq)
    BY <2>1, <1>3
  <2>3. p.iq # 0 => (front \o iqs)[2] = Buf(p, "iq", p.iq)
    <3>1. SUFFICES ASSUME p.iq # 0 PROVE (front \o iqs)[2] = Buf(p, "iq", p.iq)
      OBVIOUS
    <3>2. Len(iqs) = 1 /\ iqs[1] = Buf(p, "iq", p.iq)
      BY <3>1, <1>4 DEF Lead
    <3>3. (front \o iqs)[Len(front) + 1] = iqs[1]
      BY <2>1, <3>2
    <3> QED
      <4>1. Len(front) + 1 = 2
        BY <1>3
      <4> QED
        BY <3>2, <3>3, <4>1, Zenon
  <2> QED
    BY <2>1, <2>2, <2>3, <1>3, <1>4 DEF Lead
<1> DEFINE head == front \o iqs
<1> HIDE DEF head
<1>8. /\ Lead(p) \in {1, 2} /\ (p.iq # 0 => Lead(p) = 2)
  BY DEF Lead
<1>9. /\ (head \o body) \in Seq(Buffers)
      /\ Len(head \o body) = Lead(p) + 2 * p.slices
      /\ (head \o body)[1] = Buf(p, "pp", p.seq)
      /\ p.iq # 0 => (head \o body)[2] = Buf(p, "iq", p.iq)
      /\ \A i \in 1 .. 2 * p.slices : (head \o body)[Lead(p) + i] = body[i]
  <2>1. head \in Seq(Buffers) /\ Len(head) = Lead(p)
    BY <1>7 DEF head
  <2>2. /\ head \o body \in Seq(Buffers)
        /\ Len(head \o body) = Len(head) + Len(body)
        /\ \A i \in 1 .. Len(head) : (head \o body)[i] = head[i]
        /\ \A i \in 1 .. Len(body) : (head \o body)[Len(head) + i] = body[i]
    <3>1. head \in Seq(Buffers)
      BY <2>1
    <3>2. body \in Seq(Buffers)
      BY <1>2
    <3> QED
      BY <3>1, <3>2
  <2>3. 1 \in 1 .. Len(head) /\ (p.iq # 0 => 2 \in 1 .. Len(head))
    BY <1>8, <2>1
  <2>4. head[1] = Buf(p, "pp", p.seq) /\ (p.iq # 0 => head[2] = Buf(p, "iq", p.iq))
    BY <1>7 DEF head
  <2> QED
    BY <1>2, <2>1, <2>2, <2>3, <2>4
<1>10. BuffersOf(p) = head \o body
  BY <1>5 DEF head
<1>11. \A i \in 1 .. 2 * p.slices : BuffersOf(p)[Lead(p) + i] = At(i)
  BY <1>6, <1>9, <1>10
<1> QED
  BY <1>9, <1>10, <1>11 DEF At

(* What follows for the positions of each type.                            *)
LEMMA BufferTypes ==
  ASSUME NEW p \in Streamed
  PROVE  \A i \in 1 .. Len(BuffersOf(p)) :
           /\ BuffersOf(p)[i].type = "pp" <=> i = 1
           /\ BuffersOf(p)[i].type = "iq" <=> i = 2 /\ p.iq # 0
           /\ BuffersOf(p)[i].type \in SliceTypes <=> i > Lead(p)
           /\ BuffersOf(p)[i].type = "slice_data" =>
                /\ i - 1 \in 1 .. Len(BuffersOf(p))
                /\ BuffersOf(p)[i - 1].type = "slice_param"
<1>1. p.slices \in Nat /\ p.iq \in Nat /\ Lead(p) \in {1, 2}
  BY DEF Streamed, Lead
<1>2. SUFFICES ASSUME NEW i \in 1 .. Len(BuffersOf(p))
               PROVE  /\ BuffersOf(p)[i].type = "pp" <=> i = 1
                      /\ BuffersOf(p)[i].type = "iq" <=> i = 2 /\ p.iq # 0
                      /\ BuffersOf(p)[i].type \in SliceTypes <=> i > Lead(p)
                      /\ BuffersOf(p)[i].type = "slice_data" =>
                           /\ i - 1 \in 1 .. Len(BuffersOf(p))
                           /\ BuffersOf(p)[i - 1].type = "slice_param"
  OBVIOUS
<1>3. CASE i = 1
  <2>1. BuffersOf(p)[i] = Buf(p, "pp", p.seq)
    BY <1>3, BufferLayout
  <2> QED
    BY <1>1, <1>3, <2>1 DEF Buf, SliceTypes
<1>4. CASE i = 2 /\ p.iq # 0
  <2>1. BuffersOf(p)[i] = Buf(p, "iq", p.iq)
    BY <1>4, BufferLayout
  <2> QED
    BY <1>4, <2>1 DEF Buf, Lead, SliceTypes
<1>5. CASE i > Lead(p)
  <2> DEFINE k == i - Lead(p)
  <2>1. k \in 1 .. 2 * p.slices /\ i = Lead(p) + k /\ i \in Int
    BY <1>1, <1>5, BufferLayout
  <2>2. BuffersOf(p)[i] = IF k % 2 = 1 THEN Buf(p, "slice_param", (k + 1) \div 2)
                                       ELSE Buf(p, "slice_data", k \div 2)
    BY <2>1, BufferLayout
  <2>3. i # 1 /\ ~(i = 2 /\ p.iq # 0)
    BY <1>1, <1>5 DEF Lead
  <2>4. ASSUME k % 2 # 1
        PROVE  /\ i - 1 \in 1 .. Len(BuffersOf(p))
               /\ BuffersOf(p)[i - 1].type = "slice_param"
    <3>1. k - 1 \in 1 .. 2 * p.slices /\ (k - 1) % 2 = 1
      BY <2>1, <2>4, <1>1
    <3>2. i - 1 = Lead(p) + (k - 1)
      BY <2>1, <1>1
    <3>3. BuffersOf(p)[i - 1] = Buf(p, "slice_param", ((k - 1) + 1) \div 2)
      BY <3>1, <3>2, BufferLayout
    <3>4. i - 1 \in 1 .. Len(BuffersOf(p))
      BY <2>1, <3>1, <3>2, <1>1, BufferLayout
    <3> QED
      BY <3>3, <3>4 DEF Buf
  <2> QED
    BY <1>5, <2>2, <2>3, <2>4 DEF Buf, SliceTypes
<1> QED
  BY <1>1, <1>3, <1>4, <1>5 DEF Lead

-----------------------------------------------------------------------------
(***************************************************************************)
(* What EndPicture makes of a picture whose slices still resolve.          *)
(***************************************************************************)
(* EndPicture finds every slice buffer of the picture where the            *)
(* application put it, whether or not the others still resolve.            *)
LEMMA SlicesFound ==
  ASSUME Collected, pic # NoPicture, sent = Len(BuffersOf(pic))
  PROVE  /\ pic \in Streamed /\ pic.slices >= 1
         /\ \A t \in SliceTypes :
              Positions(Found, t) = Positions(BuffersOf(pic), t)
         /\ \A i \in 1 .. sent : BuffersOf(pic)[i].type \in SliceTypes =>
              Found[i] = BuffersOf(pic)[i]
<1>1. pic \in Streamed /\ pic.slices >= 1
  BY PictureFacts DEF Collected
<1>2. /\ DOMAIN pending = 1 .. sent /\ DOMAIN BuffersOf(pic) = 1 .. sent
      /\ \A i \in 1 .. sent : pending[i] = BuffersOf(pic)[i]
      /\ \A i \in 1 .. sent : pending[i].type \in SliceTypes => pending[i] \in live
  BY <1>1, BufferLayout DEF Collected
<1>3. /\ DOMAIN Found = {j \in 1 .. sent : pending[j] \in live}
      /\ \A j \in DOMAIN Found : Found[j] = pending[j]
  BY <1>2 DEF Found
<1>4. ASSUME NEW t \in SliceTypes
      PROVE  Positions(Found, t) = Positions(BuffersOf(pic), t)
  BY <1>2, <1>3 DEF Positions
<1> QED
  BY <1>1, <1>2, <1>3, <1>4

(* The parameters a slice is rewritten with are the ones right before it.  *)
LEMMA OwnParameters ==
  ASSUME NEW p \in Streamed, NEW i \in Positions(BuffersOf(p), "slice_data")
  PROVE  LET before == {j \in Positions(BuffersOf(p), "slice_param") : j < i}
         IN  before # {} /\ Max(before) = i - 1 /\ i - 1 \in before
<1> DEFINE before == {j \in Positions(BuffersOf(p), "slice_param") : j < i}
<1>1. DOMAIN BuffersOf(p) = 1 .. Len(BuffersOf(p)) /\ Len(BuffersOf(p)) \in Nat
  BY BufferLayout
<1>2. /\ i \in 1 .. Len(BuffersOf(p)) /\ i \in Int
      /\ BuffersOf(p)[i].type = "slice_data"
  BY <1>1 DEF Positions
<1>3. i - 1 \in before
  BY <1>1, <1>2, BufferTypes DEF Positions
<1>4. \A j \in before : j \in Int /\ j <= i - 1
  BY <1>1, <1>2 DEF Positions
<1> HIDE DEF before
<1>5. \A x \in before : (\A y \in before : x >= y) => x = i - 1
  <2>1. SUFFICES ASSUME NEW x \in before, \A y \in before : x >= y
                 PROVE  x = i - 1
    OBVIOUS
  <2>2. x >= i - 1 /\ x <= i - 1 /\ x \in Int
    BY <1>3, <1>4, <2>1
  <2> QED
    BY <1>2, <2>2
<1>6. \A y \in before : i - 1 >= y
  BY <1>2, <1>4
<1>7. Max(before) = i - 1
  BY <1>3, <1>5, <1>6 DEF Max
<1> QED
  BY <1>3, <1>7 DEF before

(* The first slice's parameters come right after the picture's.            *)
LEMMA FirstParameters ==
  ASSUME NEW p \in Streamed, p.slices >= 1
  PROVE  /\ Lead(p) + 1 \in Positions(BuffersOf(p), "slice_param")
         /\ Min(Positions(BuffersOf(p), "slice_param")) = Lead(p) + 1
         /\ Lead(p) + 2 \in Positions(BuffersOf(p), "slice_data")
<1> DEFINE all == Positions(BuffersOf(p), "slice_param")
<1>1. /\ DOMAIN BuffersOf(p) = 1 .. Len(BuffersOf(p))
      /\ Len(BuffersOf(p)) = Lead(p) + 2 * p.slices
      /\ Lead(p) \in {1, 2} /\ p.slices \in Nat
  BY BufferLayout DEF Lead, Streamed
<1>2. Lead(p) + 1 \in all /\ Lead(p) + 2 \in Positions(BuffersOf(p), "slice_data")
  <2>1. 1 \in 1 .. 2 * p.slices /\ 2 \in 1 .. 2 * p.slices /\ 1 % 2 = 1 /\ 2 % 2 # 1
    BY <1>1
  <2>2. /\ BuffersOf(p)[Lead(p) + 1] = Buf(p, "slice_param", (1 + 1) \div 2)
        /\ BuffersOf(p)[Lead(p) + 2] = Buf(p, "slice_data", 2 \div 2)
    BY <2>1, BufferLayout
  <2> QED
    BY <1>1, <2>1, <2>2 DEF Positions, Buf
<1>3. \A j \in all : j \in Int /\ j >= Lead(p) + 1
  <2>1. SUFFICES ASSUME NEW j \in all PROVE j \in Int /\ j >= Lead(p) + 1
    OBVIOUS
  <2>2. j \in 1 .. Len(BuffersOf(p)) /\ BuffersOf(p)[j].type \in SliceTypes
    BY <1>1 DEF Positions, SliceTypes
  <2>3. j > Lead(p)
    BY <2>2, BufferTypes
  <2> QED
    BY <1>1, <2>2, <2>3
<1> HIDE DEF all
<1>4. \A x \in all : (\A y \in all : x <= y) => x = Lead(p) + 1
  BY <1>1, <1>2, <1>3
<1>5. Min(all) = Lead(p) + 1
  BY <1>1, <1>2, <1>3, <1>4 DEF Min
<1> QED
  BY <1>2, <1>5 DEF all

(* The packet of a whole picture is the one it ought to have.              *)
LEMMA PacketIsThePictures ==
  ASSUME Collected, Snapshots, pic # NoPicture, sent = Len(BuffersOf(pic))
  PROVE  /\ \A sps : Packet(sps) = PacketOf(pic, sps)
         /\ is_idr = pic.idr
         /\ coding # "VP9" => last_pp.seq = pic.seq
         /\ coding = "HEVC" => HevcReady
<1> DEFINE B == BuffersOf(pic)
<1>1. /\ pic \in Streamed /\ pic.slices >= 1
      /\ \A t \in SliceTypes : Positions(Found, t) = Positions(B, t)
      /\ \A i \in 1 .. sent : B[i].type \in SliceTypes => Found[i] = B[i]
      /\ DOMAIN B = 1 .. sent
  BY SlicesFound, BufferLayout
<1>2. /\ Lead(pic) + 1 \in Positions(B, "slice_param")
      /\ Min(Positions(B, "slice_param")) = Lead(pic) + 1
      /\ Positions(B, "slice_data") # {}
  BY <1>1, FirstParameters
<1>3. /\ Positions(Found, "slice_param") = Positions(B, "slice_param")
      /\ Positions(Found, "slice_data") = Positions(B, "slice_data")
  BY <1>1 DEF SliceTypes
<1>4. \A t \in SliceTypes : \A i \in Positions(B, t) : Found[i] = B[i]
  BY <1>1 DEF Positions
<1>5. coding # "VP9" =>
        /\ has_pp /\ last_pp.n = pic.n /\ last_pp.seq = pic.seq
        /\ has_iq <=> pic.iq # 0
        /\ Iq = pic.iq
  <2>1. sent >= 1 /\ (pic.iq # 0 => sent >= 2) /\ pic.iq \in Nat
    BY <1>1, BufferLayout DEF Lead, Streamed
  <2> QED
    BY <2>1 DEF Snapshots, Iq
<1>6. coding # "VP9" =>
        PictureHeader(last_pp, Iq, Found) = PictureHeader(pic, pic.iq, B)
  <2>1. First(Found, "slice_param") = First(B, "slice_param")
    BY <1>2, <1>3, <1>4 DEF First, SliceTypes
  <2> QED
    BY <1>3, <1>5, <2>1 DEF PictureHeader, Scaled
<1>7. Slices(Found) = Slices(B)
  <2>1. ASSUME NEW i \in Positions(B, "slice_data")
        PROVE  Found[i] = B[i] /\ ParamBefore(Found, i) = ParamBefore(B, i)
    <3> DEFINE before == {j \in Positions(B, "slice_param") : j < i}
    <3>1. Max(before) \in before
      BY <1>1, OwnParameters
    <3>2. Found[Max(before)] = B[Max(before)] /\ Found[i] = B[i]
      BY <1>4, <3>1 DEF SliceTypes
    <3>3. before = {j \in Positions(Found, "slice_param") : j < i}
      BY <1>3
    <3> HIDE DEF before
    <3> QED
      BY <3>2, <3>3 DEF ParamBefore, before
  <2> HIDE DEF B
  <2> QED
    BY <1>3, <2>1 DEF Slices
<1>8. \A sps : Packet(sps) = PacketOf(pic, sps)
  BY <1>6, <1>7 DEF Packet, PacketOf
<1>9. is_idr = pic.idr
  BY <1>1, <1>2, <1>3 DEF is_idr, Streamed
<1>10. ASSUME coding = "HEVC" PROVE HevcReady
  <2>1. pic.iq # 0 <=> pic.seq \in ScalingSequences
    BY <1>10 DEF Collected, Pictures
  <2> QED
    BY <1>2, <1>3, <1>5, <1>10, <2>1 DEF HevcReady
<1> QED
  BY <1>5, <1>8, <1>9, <1>10

-----------------------------------------------------------------------------
(***************************************************************************)
(* Every step keeps the invariant, if slices live until EndPicture.        *)
(***************************************************************************)
SlicesKept == EarlyDestroy \cap SliceTypes = {}

(* The packets depend on the codec only, which never changes.              *)
LEMMA SamePackets ==
  ASSUME coding' = coding
  PROVE  Packets' = Packets /\ \A p, s : PacketOf(p, s)' = PacketOf(p, s)
<1>1. ASSUME NEW p, NEW q
      PROVE  PictureHeader(p, p.iq, q)' = PictureHeader(p, p.iq, q)
  BY DEF PictureHeader, Scaled
<1>2. ASSUME NEW q, NEW i PROVE ParamBefore(q, i)' = ParamBefore(q, i)
  BY DEF ParamBefore
<1>3. ASSUME NEW q PROVE Slices(q)' = Slices(q)
  BY <1>2 DEF Slices
<1>4. ASSUME NEW p, NEW s PROVE PacketOf(p, s)' = PacketOf(p, s)
  BY <1>1, <1>3 DEF PacketOf
<1> QED
  BY <1>4 DEF Packets

(* Nothing is under way at the start.                                      *)
LEMMA AssemblyInit == Init => AssemblyInv /\ Chained
<1> SUFFICES ASSUME Init PROVE AssemblyInv /\ Chained
  OBVIOUS
<1> USE DEF Init
<1>1. NoPicture \in Streamed /\ Len(BuffersOf(NoPicture)) \in Nat
  BY PictureFacts, BufferLayout DEF Lead, NoPicture
<1>2. Collected
  BY <1>1, AssemblyAssumption DEF Collected
<1>3. Snapshots
  <2>1. /\ last_pp \in [n : 0 .. MaxPictures, seq : StreamSequences \cup {0}]
        /\ last_iq \in Matrices \cup {0}
    BY AssemblyAssumption
  <2>2. has_pp \in BOOLEAN /\ has_iq \in BOOLEAN /\ pic = NoPicture
    BY Zenon
  <2> QED
    BY <2>1, <2>2, Zenon DEF Snapshots
<1>4. Packed
  <2>1. hevc_sequence \in Header /\ active \in Header
    BY DEF Header, NoHeader
  <2>2. jobs \in Seq(Packets)
    OBVIOUS
  <2>3. sps_sent \in BOOLEAN /\ fed = NoPacket
    BY Zenon
  <2> QED
    BY <2>1, <2>2, <2>3, Zenon DEF Packed
<1>5. Chained
  BY DEF Chained, SequenceBefore, LastSequence, NoPacket, NoHeader
<1> QED
  BY <1>2, <1>3, <1>4, <1>5 DEF AssemblyInv

(* A new picture starts with nothing collected.                            *)
LEMMA BeginKeeps ==
  ASSUME AssemblyInv, NEW p \in Pictures, rk_BeginPicture(p)
  PROVE  AssemblyInv'
<1> USE DEF AssemblyInv
<1>1. /\ pic' = p /\ sent' = 0 /\ pending' = <<>> /\ ended < MaxPictures
      /\ has_iq' = FALSE /\ has_pp' = FALSE
      /\ UNCHANGED <<live, stream, ended, last_pp, last_iq, sps_sent,
                     hevc_sequence, jobs, coding, active, fed>>
  BY DEF rk_BeginPicture
<1>2. p \in Pic /\ p # NoPicture /\ p \in Streamed
  BY <1>1, PictureFacts DEF Collected
<1>3. Pictures' = Pictures
  BY <1>1 DEF Pictures
<1>4. BuffersOf(pic') = BuffersOf(p) /\ Len(BuffersOf(p)) \in Nat
  BY <1>1, <1>2, BufferLayout
<1>5. Collected'
  BY <1>1, <1>2, <1>3, <1>4 DEF Collected
<1>6. Snapshots'
  <2>1. has_iq' \in BOOLEAN /\ has_pp' \in BOOLEAN /\ ~has_iq'
    BY <1>1, Zenon
  <2>2. sent' = 0 /\ ~(0 >= 1) /\ ~(0 >= 2)
    BY <1>1
  <2>3. ~(sent' >= 1) /\ ~(sent' >= 2)
    BY <2>2, Zenon
  <2>4. /\ last_pp' \in [n : 0 .. MaxPictures, seq : StreamSequences \cup {0}]
        /\ last_iq' \in Matrices \cup {0}
    BY <1>1 DEF Snapshots
  <2> QED
    BY <2>1, <2>3, <2>4, Zenon DEF Snapshots
<1>7. Packed'
  BY <1>1, SamePackets DEF Packed
<1> QED
  BY <1>5, <1>6, <1>7

(* RenderPicture goes on where it stopped, and copies the parameters when  *)
(* it comes across them.                                                   *)
LEMMA RenderKeeps ==
  ASSUME AssemblyInv, NEW k \in 1 .. Len(BuffersOf(pic)), rk_RenderPicture(k)
  PROVE  AssemblyInv'
<1> USE DEF AssemblyInv
<1> DEFINE B    == BuffersOf(pic)
           rest == SubSeq(B, sent + 1, sent + k)
           pps  == Positions(rest, "pp")
           iqs  == Positions(rest, "iq")
<1>1. /\ pic # NoPicture /\ sent + k <= Len(B) /\ sent' = sent + k
      /\ live' = live \cup {rest[i] : i \in DOMAIN rest}
      /\ pending' = pending \o rest
      /\ last_pp' = IF coding # "VP9" /\ pps # {}
                      THEN [n |-> pic.n, seq |-> rest[Max(pps)].val]
                      ELSE last_pp
      /\ has_pp' = (has_pp \/ (coding # "VP9" /\ pps # {}))
      /\ last_iq' = IF coding # "VP9" /\ iqs # {} THEN rest[Max(iqs)].val
                                               ELSE last_iq
      /\ has_iq' = (has_iq \/ (coding # "VP9" /\ iqs # {}))
      /\ UNCHANGED <<pic, stream, ended, sps_sent, hevc_sequence, jobs,
                     coding, active, fed>>
  BY DEF rk_RenderPicture
<1>2. /\ pic \in Pic /\ pic \in Streamed /\ B \in Seq(Buffers)
      /\ pic.seq \in StreamSequences /\ pic.n \in 0 .. MaxPictures
      /\ pic.iq \in Matrices \cup {0} /\ Lead(pic) \in {1, 2}
  BY <1>1, PictureFacts, BufferLayout DEF Collected, Pic, Lead
<1>3. sent \in Nat /\ k \in Nat /\ k >= 1 /\ Len(B) \in Nat
  BY <1>2 DEF Collected
<1> HIDE DEF B
<1>4. /\ rest \in Seq(Buffers) /\ Len(rest) = k /\ DOMAIN rest = 1 .. k
      /\ \A i \in 1 .. k : rest[i] = B[sent + i]
  BY <1>1, <1>2, <1>3
<1>5. \A i \in 1 .. Len(B) :
        /\ B[i].type = "pp" <=> i = 1
        /\ B[i].type = "iq" <=> i = 2 /\ pic.iq # 0
  BY <1>2, BufferTypes DEF B
<1> HIDE DEF rest
<1>6. Collected'
  <2>1. /\ pending \in Seq(Buffers) /\ Len(pending) = sent
        /\ \A i \in 1 .. sent : pending[i] = B[i]
        /\ \A i \in 1 .. sent : pending[i].type \in SliceTypes => pending[i] \in live
    BY DEF Collected, B
  <2>2. pending' \in Seq(Buffers) /\ Len(pending') = sent'
    <3>1. pending \in Seq(Buffers) /\ rest \in Seq(Buffers)
      BY <1>4, <2>1
    <3>2. /\ pending \o rest \in Seq(Buffers)
          /\ Len(pending \o rest) = Len(pending) + Len(rest)
      BY <3>1
    <3> QED
      BY <1>1, <1>4, <2>1, <3>2
  <2>3. ASSUME NEW i \in 1 .. sent'
        PROVE  /\ pending'[i] = B[i]
               /\ pending'[i].type \in SliceTypes => pending'[i] \in live'
    <3>1. CASE i <= sent
      BY <1>1, <1>3, <1>4, <2>1, <3>1
    <3>2. CASE i > sent
      <4>1. i - sent \in 1 .. k /\ i = sent + (i - sent)
        BY <1>1, <1>3, <3>2
      <4>2. pending'[i] = rest[i - sent]
        BY <1>1, <1>4, <2>1, <3>2, <4>1, <1>3
      <4>3. rest[i - sent] = B[i]
        BY <1>4, <4>1
      <4>4. rest[i - sent] \in live'
        BY <1>1, <1>4, <4>1
      <4> QED
        BY <4>2, <4>3, <4>4
    <3>3. i \in Int
      OBVIOUS
    <3> QED
      BY <1>3, <3>1, <3>2, <3>3
  <2>4. Pictures' = Pictures /\ BuffersOf(pic') = B
    BY <1>1 DEF Pictures, B
  <2>5. sent' \in 0 .. Len(BuffersOf(pic'))
    BY <1>1, <1>3, <2>4
  <2>6. \A i \in 1 .. sent' : pending'[i] = BuffersOf(pic')[i]
    BY <2>3, <2>4
  <2> QED
    BY <1>1, <2>2, <2>3, <2>4, <2>5, <2>6 DEF Collected
<1>7. pps = IF sent = 0 THEN {1} ELSE {}
  <2>1. ASSUME NEW i \in 1 .. k
        PROVE  rest[i].type = "pp" <=> i = 1 /\ sent = 0
    <3>1. sent + i \in 1 .. Len(B) /\ rest[i] = B[sent + i]
      BY <1>1, <1>3, <1>4
    <3>2. rest[i].type = "pp" <=> sent + i = 1
      BY <3>1, <1>5
    <3> QED
      BY <3>2, <1>3
  <2>2. 1 \in 1 .. k
    BY <1>3
  <2> QED
    BY <2>1, <2>2, <1>4 DEF Positions
<1>8. pps # {} => rest[Max(pps)].val = pic.seq
  <2>1. SUFFICES ASSUME pps # {} PROVE rest[Max(pps)].val = pic.seq
    OBVIOUS
  <2>2. pps = {1}
    BY <2>1, <1>7
  <2> HIDE DEF pps
  <2>3. Max(pps) = 1
    BY <2>2 DEF Max
  <2>4. rest[1] = Buf(pic, "pp", pic.seq)
    BY <2>1, <1>2, <1>3, <1>4, <1>7, BufferLayout DEF B
  <2> QED
    BY <2>3, <2>4 DEF Buf
<1>9. iqs # {} <=> sent < 2 /\ sent + k >= 2 /\ pic.iq # 0
  <2>1. ASSUME iqs # {} PROVE sent < 2 /\ sent + k >= 2 /\ pic.iq # 0
    <3>1. PICK i \in 1 .. k : rest[i].type = "iq"
      BY <2>1, <1>4 DEF Positions
    <3>2. sent + i \in 1 .. Len(B) /\ B[sent + i].type = "iq"
      BY <3>1, <1>1, <1>3, <1>4
    <3> QED
      BY <3>1, <3>2, <1>3, <1>5
  <2>2. ASSUME sent < 2, sent + k >= 2, pic.iq # 0 PROVE iqs # {}
    <3>1. 2 - sent \in 1 .. k /\ sent + (2 - sent) = 2 /\ 2 \in 1 .. Len(B)
      BY <2>2, <1>1, <1>3
    <3>2. rest[2 - sent].type = "iq"
      BY <2>2, <3>1, <1>4, <1>5
    <3> QED
      BY <3>1, <3>2, <1>4 DEF Positions
  <2> QED
    BY <2>1, <2>2
<1>10. iqs # {} => rest[Max(iqs)].val = pic.iq
  <2>1. SUFFICES ASSUME iqs # {} PROVE rest[Max(iqs)].val = pic.iq
    OBVIOUS
  <2>2. ASSUME NEW i \in iqs PROVE i = 2 - sent
    <3>1. i \in 1 .. k /\ rest[i].type = "iq"
      BY <1>4 DEF Positions
    <3>2. sent + i \in 1 .. Len(B) /\ B[sent + i].type = "iq"
      BY <3>1, <1>1, <1>3, <1>4
    <3> QED
      BY <3>1, <3>2, <1>3, <1>5
  <2>3. iqs = {2 - sent}
    BY <2>1, <2>2
  <2> HIDE DEF iqs
  <2>4. Max(iqs) = 2 - sent
    BY <2>3, <1>3 DEF Max
  <2>5. 2 - sent \in 1 .. k /\ sent + (2 - sent) = 2 /\ pic.iq # 0
    BY <2>1, <1>3, <1>9
  <2>6. rest[2 - sent] = Buf(pic, "iq", pic.iq)
    BY <2>5, <1>2, <1>4, BufferLayout DEF B
  <2> QED
    BY <2>4, <2>6 DEF Buf
<1> HIDE DEF pps, iqs
<1>11. Snapshots'
  <2>1. /\ last_pp' \in [n : 0 .. MaxPictures, seq : StreamSequences \cup {0}]
        /\ last_iq' \in Matrices \cup {0}
        /\ has_pp' \in BOOLEAN /\ has_iq' \in BOOLEAN
    BY <1>1, <1>2, <1>8, <1>10 DEF Snapshots
  <2>2. ASSUME coding # "VP9"
        PROVE  /\ has_pp' /\ last_pp' = [n |-> pic.n, seq |-> pic.seq]
               /\ has_iq' <=> (pic.iq # 0 /\ sent' >= 2)
               /\ has_iq' => last_iq' = pic.iq
    <3>1. /\ sent >= 1 => has_pp /\ last_pp = [n |-> pic.n, seq |-> pic.seq]
          /\ has_iq <=> (pic.iq # 0 /\ sent >= 2)
          /\ has_iq => last_iq = pic.iq
      BY <2>2, <1>1 DEF Snapshots
    <3>2. pps # {} <=> sent = 0
      BY <1>7
    <3>a. sent >= 1 \/ sent = 0
      BY <1>3
    <3>b. sent' >= 2 <=> sent >= 2 \/ (sent < 2 /\ sent + k >= 2)
      BY <1>1, <1>3
    <3>3. has_pp' /\ last_pp' = [n |-> pic.n, seq |-> pic.seq]
      <4>1. CASE sent = 0
        BY <2>2, <1>1, <1>8, <3>2, <4>1, Zenon
      <4>2. CASE sent # 0
        BY <2>2, <1>1, <3>1, <3>2, <3>a, <4>2, Zenon
      <4> QED
        BY <4>1, <4>2
    <3>4. has_iq' <=> (pic.iq # 0 /\ sent' >= 2)
      BY <2>2, <1>1, <1>9, <3>1, <3>b, Zenon
    <3>5. has_iq' => last_iq' = pic.iq
      BY <2>2, <1>1, <1>10, <3>1
    <3> QED
      BY <3>3, <3>4, <3>5
  <2> QED
    BY <1>1, <2>1, <2>2 DEF Snapshots
<1>12. Packed'
  BY <1>1, SamePackets DEF Packed
<1> QED
  BY <1>6, <1>11, <1>12

(* Slices are not destroyed between RenderPicture and EndPicture.          *)
LEMMA DestroyKeeps ==
  ASSUME SlicesKept, AssemblyInv, NEW b \in live, rk_DestroyBuffer(b)
  PROVE  AssemblyInv'
<1> USE DEF AssemblyInv
<1>1. /\ b.type \notin SliceTypes /\ live' = live \ {b}
      /\ UNCHANGED <<pic, sent, stream, ended, ctxVars, jobs, coding, active,
                     fed>>
  BY DEF rk_DestroyBuffer, SlicesKept
<1>2. Pictures' = Pictures /\ BuffersOf(pic)' = BuffersOf(pic)
  BY <1>1 DEF Pictures
<1>3. \A i \in 1 .. sent : pending[i].type \in SliceTypes => pending[i] \in live'
  BY <1>1 DEF Collected
<1>4. Collected'
  BY <1>1, <1>2, <1>3 DEF Collected, ctxVars
<1>5. Snapshots'
  BY <1>1 DEF Snapshots, ctxVars
<1>6. Packed'
  BY <1>1, SamePackets DEF Packed, ctxVars
<1> QED
  BY <1>4, <1>5, <1>6

(* The parts of EndPicture that all codecs share.                          *)
LEMMA EndedKeeps ==
  ASSUME AssemblyInv, Ended
  PROVE  /\ Collected' /\ Snapshots' /\ coding' = coding
         /\ pic \in Pic /\ pic.seq \in StreamSequences
         /\ stream' = pic.seq
<1> USE DEF AssemblyInv
<1>1. /\ pic # NoPicture /\ sent = Len(BuffersOf(pic))
      /\ pic' = NoPicture /\ sent' = 0 /\ live' = {}
      /\ stream' = pic.seq /\ ended' = ended + 1 /\ pending' = <<>>
      /\ UNCHANGED <<last_pp, last_iq, has_pp, has_iq, coding, active, fed>>
  BY DEF Ended
<1>2. pic \in Pic /\ pic.seq \in StreamSequences /\ ended < MaxPictures
  BY <1>1, PictureFacts DEF Collected
<1>3. NoPicture \in Streamed /\ Len(BuffersOf(NoPicture)) \in Nat
  BY PictureFacts, BufferLayout DEF Lead, NoPicture
<1>4. Collected'
  BY <1>1, <1>2, <1>3, AssemblyAssumption DEF Collected
<1>5. Snapshots'
  BY <1>1 DEF Snapshots
<1> QED
  BY <1>1, <1>2, <1>4, <1>5

(* Queuing the packet of the picture keeps the queue a queue of packets.   *)
LEMMA QueueKeeps ==
  ASSUME AssemblyInv, Ended, NEW s \in Header, Queue(Packet(s))
  PROVE  /\ jobs' \in Seq(Packets) /\ Packets' = Packets
         /\ jobs' = Append(jobs, PacketOf(pic, s))
<1>1. /\ jobs' = Append(jobs, Packet(s)) /\ Packet(s) = PacketOf(pic, s)
  BY PacketIsThePictures DEF Queue, Ended, AssemblyInv
<1>2. PacketOf(pic, s) \in Packets
  BY EndedKeeps DEF Packets
<1>3. jobs \in Seq(Packets)
  BY DEF AssemblyInv, Packed
<1> QED
  BY <1>1, <1>2, <1>3, SamePackets, EndedKeeps

(* EndPicture queues the packet of the picture, or nothing.                *)
LEMMA EndKeeps ==
  ASSUME AssemblyInv, rk_EndPicture
  PROVE  AssemblyInv'
<1> USE DEF AssemblyInv
<1>1. Ended /\ Collected' /\ Snapshots'
  BY EndedKeeps DEF rk_EndPicture, build_h264_job, build_hevc_job,
                    build_generic_job
<1>2. /\ coding' = coding /\ active' = active /\ fed' = fed
      /\ pic.seq \in StreamSequences
  BY <1>1, EndedKeeps DEF Ended
<1>3. Packets' = Packets
  BY <1>2, SamePackets
<1>4. \A s \in Header : Queue(Packet(s)) => jobs' \in Seq(Packets)
  BY <1>1, QueueKeeps
<1>5. /\ coding # "VP9" => last_pp.seq \in Header
      /\ NoHeader \in Header
  BY <1>1, <1>2, PacketIsThePictures DEF Ended, Header
<1>6. CASE build_h264_job
  <2>1. jobs' \in Seq(Packets)
    <3>1. coding \in H264 /\ last_pp.seq \in Header
      BY <1>5, <1>6 DEF build_h264_job, H264
    <3>2. CASE UNCHANGED jobs
      BY <3>2 DEF Packed
    <3>3. CASE Queue(Packet(IF is_idr \/ ~sps_sent THEN last_pp.seq ELSE NoHeader))
      BY <3>1, <3>3, <1>4, <1>5
    <3> QED
      BY <1>6, <3>2, <3>3 DEF build_h264_job
  <2>2. sps_sent' \in BOOLEAN
    BY <1>6, Zenon DEF build_h264_job, Packed
  <2>3. hevc_sequence' = hevc_sequence
    BY <1>6 DEF build_h264_job
  <2> QED
    BY <1>1, <1>2, <1>3, <2>1, <2>2, <2>3 DEF Packed
<1>7. CASE build_hevc_job
  <2>1. coding = "HEVC" /\ last_pp.seq \in Header
    BY <1>5, <1>7 DEF build_hevc_job
  <2>2. CASE UNCHANGED <<jobs, hevc_sequence>>
    BY <1>1, <1>2, <1>3, <1>7, <2>2 DEF Packed, build_hevc_job
  <2>3. CASE /\ Queue(Packet(IF last_pp.seq # hevc_sequence THEN last_pp.seq
                                                        ELSE NoHeader))
             /\ hevc_sequence' = last_pp.seq
    <3>1. jobs' \in Seq(Packets)
      BY <2>1, <2>3, <1>4, <1>5
    <3> QED
      BY <1>1, <1>2, <1>3, <1>7, <2>1, <2>3, <3>1 DEF Packed, build_hevc_job
  <2> QED
    BY <1>7, <2>2, <2>3 DEF build_hevc_job
<1>8. CASE build_generic_job
  <2>1. jobs' \in Seq(Packets)
    BY <1>4, <1>5, <1>8 DEF build_generic_job, Packed
  <2> QED
    BY <1>1, <1>2, <1>3, <1>8, <2>1 DEF build_generic_job, Packed
<1> QED
  BY <1>6, <1>7, <1>8 DEF rk_EndPicture

(* MPP reads jobs only.                                                    *)
LEMMA SubmitKeeps ==
  ASSUME AssemblyInv, submit_decode_packet \/ submit_failed
  PROVE  AssemblyInv'
<1> USE DEF AssemblyInv
<1>1. /\ jobs # <<>> /\ jobs' = Tail(jobs)
      /\ UNCHANGED <<appVars, ctxVars, coding>>
      /\ \/ UNCHANGED <<active, fed>>
         \/ /\ active' = IF Head(jobs).sps = NoHeader THEN active
                                                      ELSE Head(jobs).sps
            /\ fed' = [Head(jobs) EXCEPT !.sps = active']
  BY DEF submit_decode_packet, submit_failed
<1>2. jobs \in Seq(Packets) /\ Packets' = Packets
  BY <1>1, SamePackets DEF Packed
<1>3. jobs' \in Seq(Packets) /\ Head(jobs) \in Packets
  BY <1>1, <1>2
<1>4. PICK p \in Pic, s \in Header : Head(jobs) = PacketOf(p, s)
  BY <1>3 DEF Packets
<1>5. Head(jobs).sps = s
  BY <1>4 DEF PacketOf
<1>6. active' \in Header
  BY <1>1, <1>5 DEF Packed
<1>7. fed' \in Packets \cup {NoPacket}
  <2>1. CASE fed' = fed
    BY <2>1, <1>2 DEF Packed
  <2>2. CASE fed' = [Head(jobs) EXCEPT !.sps = active']
    <3>1. \A a : [PacketOf(p, s) EXCEPT !.sps = a] = PacketOf(p, a)
      BY DEF PacketOf
    <3>2. fed' = PacketOf(p, active')
      BY <1>4, <2>2, <3>1
    <3> QED
      BY <1>6, <3>2 DEF Packets
  <2> QED
    BY <1>1, <2>1, <2>2
<1>8. Packed'
  BY <1>1, <1>2, <1>3, <1>6, <1>7 DEF Packed, ctxVars
<1>9. Collected'
  <2>1. Pictures' = Pictures /\ BuffersOf(pic)' = BuffersOf(pic)
    BY <1>1 DEF Pictures, appVars
  <2> QED
    BY <1>1, <2>1 DEF Collected, appVars, ctxVars
<1>10. Snapshots'
  BY <1>1 DEF Snapshots, appVars, ctxVars
<1> QED
  BY <1>8, <1>9, <1>10

(* Every step keeps the invariant.                                         *)
LEMMA AssemblyStep ==
  ASSUME SlicesKept, AssemblyInv, [Next]_vars
  PROVE  AssemblyInv'
<1>1. CASE UNCHANGED vars
  <2>1. Pictures' = Pictures /\ BuffersOf(pic)' = BuffersOf(pic)
    BY <1>1 DEF Pictures, vars, appVars
  <2>2. Collected'
    BY <1>1, <2>1 DEF AssemblyInv, Collected, vars, appVars, ctxVars
  <2>3. Snapshots'
    BY <1>1 DEF AssemblyInv, Snapshots, vars, appVars, ctxVars
  <2>4. Packed'
    BY <1>1, SamePackets DEF AssemblyInv, Packed, vars, appVars, ctxVars
  <2> QED
    BY <2>2, <2>3, <2>4 DEF AssemblyInv
<1> QED
  BY <1>1, BeginKeeps, RenderKeeps, DestroyKeeps, EndKeeps, SubmitKeeps DEF Next

(* If slice buffers live until EndPicture, a job is exactly the packet of  *)
(* its picture, whatever MPP, the queue and the other buffers do.          *)
THEOREM AssemblyInvariant ==
  ASSUME SlicesKept
  PROVE  Spec => []AssemblyInv
<1>1. Init => AssemblyInv
  BY AssemblyInit
<1>2. AssemblyInv /\ [Next]_vars => AssemblyInv'
  BY AssemblyStep
<1> QED
  BY <1>1, <1>2, PTL DEF Spec

(* The values RKContext, a job and MPP can hold, for any stream.           *)
THEOREM AssemblyTypes ==
  ASSUME SlicesKept
  PROVE  Spec => []TypeOK
<1>1. AssemblyInv => TypeOK
  <2>1. SUFFICES ASSUME AssemblyInv PROVE TypeOK
    OBVIOUS
  <2>2. pic \in Pic /\ sent \in 0 .. 2 * MaxSlices + 2
    <3>1. pic \in Pic
      BY <2>1, PictureFacts DEF AssemblyInv, Collected
    <3>2. pic \in Streamed /\ pic.slices \in 0 .. MaxSlices
      BY <3>1, PictureFacts DEF Pic
    <3>3. Len(BuffersOf(pic)) <= 2 * MaxSlices + 2
      BY <3>2, BufferLayout, AssemblyAssumption DEF Lead
    <3> QED
      BY <2>1, <3>1, <3>2, <3>3, BufferLayout, AssemblyAssumption
         DEF AssemblyInv, Collected, Lead
  <2>3. \A x \in Packets : x.of \in Pic /\ x.sps \in Header
    BY DEF Packets, PacketOf
  <2>4. fed.sps \in Header
    BY <2>1, <2>3 DEF AssemblyInv, Packed, NoPacket, Header, NoHeader
  <2>5. \A i \in DOMAIN jobs : jobs[i].of \in Pic /\ jobs[i].sps \in Header
    BY <2>1, <2>3 DEF AssemblyInv, Packed
  <2> QED
    BY <2>1, <2>2, <2>4, <2>5, Zenon
       DEF AssemblyInv, Collected, Snapshots, Packed, TypeOK
<1> QED
  BY <1>1, AssemblyInvariant, PTL

(* The packet of a picture holds the slices the application rendered for   *)
(* it, all of them, in order, each with its own parameters, and nothing of *)
(* a picture abandoned before (rk_BeginPicture, rk_RenderPicture and the   *)
(* build_*_job functions), for any number of slices and pictures and       *)
(* whether or not parameter buffers are destroyed early.                   *)
THEOREM PacketsAreWhole ==
  ASSUME SlicesKept
  PROVE  Spec => []PacketHoldsItsSlices
<1>1. AssemblyInv => PacketHoldsItsSlices
  BY DEF AssemblyInv, Packed, Packets, PacketOf, NoPacket, PacketHoldsItsSlices
<1> QED
  BY <1>1, AssemblyInvariant, PTL

-----------------------------------------------------------------------------
(***************************************************************************)
(* The sequence parameters MPP has when it reads a packet.  H.264 marks    *)
(* them as sent while it builds the job, so the job must then be queued;   *)
(* both codecs rely on queued jobs reaching MPP.                           *)
(***************************************************************************)
JobsArrive == BuildFails \cap H264 = {} /\ PushFails \subseteq {"VP9"}

(* One more job in the queue: the sequence before each of them, and after. *)
LEMMA ChainGrows ==
  ASSUME AssemblyInv, AssemblyInv', Chained, coding # "VP9",
         NEW p \in Pic, NEW s \in Header,
         jobs' = Append(jobs, PacketOf(p, s)),
         active' = active /\ fed' = fed /\ coding' = coding,
         p.seq = IF s = NoHeader THEN LastSequence ELSE s
  PROVE  /\ \A k \in 1 .. Len(jobs)' :
              jobs'[k].of.seq = IF jobs'[k].sps = NoHeader
                                  THEN SequenceBefore(k)' ELSE jobs'[k].sps
         /\ LastSequence' = p.seq
         /\ fed'.of # NoPicture => fed'.sps = fed'.of.seq
<1>1. jobs \in Seq(Packets) /\ PacketOf(p, s) \in Packets
  BY DEF AssemblyInv, Packed, Packets
<1>2. /\ Len(jobs') = Len(jobs) + 1 /\ Len(jobs) \in Nat
      /\ \A k \in 1 .. Len(jobs) : jobs'[k] = jobs[k]
      /\ jobs'[Len(jobs) + 1] = PacketOf(p, s)
  BY <1>1
<1>3. PacketOf(p, s).of = p /\ PacketOf(p, s).sps = s
  BY DEF PacketOf
<1>4. \A k \in 1 .. Len(jobs) + 1 : SequenceBefore(k)' = SequenceBefore(k)
  BY <1>2 DEF SequenceBefore
<1>5. LastSequence' = p.seq
  <2>1. LastSequence' = jobs'[(Len(jobs') + 1) - 1].of.seq
    BY <1>2 DEF LastSequence, SequenceBefore
  <2>2. (Len(jobs') + 1) - 1 = Len(jobs) + 1
    BY <1>2
  <2> QED
    BY <2>1, <2>2, <1>2, <1>3
<1>6. ASSUME NEW k \in 1 .. Len(jobs)'
      PROVE  jobs'[k].of.seq = IF jobs'[k].sps = NoHeader
                                 THEN SequenceBefore(k)' ELSE jobs'[k].sps
  <2>1. CASE k = Len(jobs) + 1
    BY <1>2, <1>3, <1>4, <2>1 DEF LastSequence
  <2>2. CASE k \in 1 .. Len(jobs)
    BY <1>2, <1>4, <2>2 DEF Chained
  <2> QED
    BY <1>2, <2>1, <2>2
<1>7. fed'.of # NoPicture => fed'.sps = fed'.of.seq
  BY DEF Chained
<1> QED
  BY <1>5, <1>6, <1>7

(* The queue, the packet read last and what follows are as they were.      *)
LEMMA ChainStays ==
  ASSUME Chained,
         UNCHANGED <<coding, jobs, active, fed, stream, sps_sent, hevc_sequence>>
  PROVE  Chained'
<1>1. /\ coding' = coding /\ jobs' = jobs /\ active' = active /\ fed' = fed
      /\ stream' = stream /\ sps_sent' = sps_sent
      /\ hevc_sequence' = hevc_sequence
  OBVIOUS
<1>2. /\ \A k : SequenceBefore(k)' = SequenceBefore(k)
      /\ LastSequence' = LastSequence
  BY <1>1 DEF SequenceBefore, LastSequence
<1> QED
  BY <1>1, <1>2 DEF Chained

(* EndPicture: the packet brings its sequence parameters, or MPP has them. *)
LEMMA EndChains ==
  ASSUME JobsArrive, StreamInv, AssemblyInv', rk_EndPicture
  PROVE  Chained'
<1> USE DEF StreamInv
<1>1. Ended /\ pic # NoPicture /\ sent = Len(BuffersOf(pic))
  BY DEF rk_EndPicture, build_h264_job, build_hevc_job, build_generic_job, Ended
<1>2. /\ is_idr = pic.idr
      /\ coding # "VP9" => last_pp.seq = pic.seq
      /\ coding = "HEVC" => HevcReady
      /\ pic \in Pic /\ pic.seq \in StreamSequences
      /\ coding' = coding /\ stream' = pic.seq
  BY <1>1, PacketIsThePictures, EndedKeeps DEF AssemblyInv
<1>3. /\ active' = active /\ fed' = fed
      /\ pic.seq # stream /\ stream # 0 => pic.idr
      /\ pic.seq # 0 /\ pic.seq \in Header /\ NoHeader \in Header
      /\ pic.idr \in BOOLEAN
  BY <1>1, <1>2, AssemblyAssumption
     DEF Ended, AssemblyInv, Collected, Pictures, Header, Pic
<1>4. CASE build_h264_job
  <2> DEFINE emit == is_idr \/ ~sps_sent
             s == IF emit THEN pic.seq ELSE NoHeader
  <2>1. coding \in H264 /\ Queue(Packet(s)) /\ hevc_sequence' = hevc_sequence
    BY <1>2, <1>4 DEF build_h264_job, JobsArrive, H264
  <2>2. s \in Header
    BY <1>3
  <2>3. pic.seq = IF s = NoHeader THEN LastSequence ELSE s
    <3>1. CASE emit
      BY <1>3, <3>1 DEF NoHeader
    <3>2. CASE ~emit
      <4>1. stream # 0 /\ LastSequence = stream /\ ~pic.idr
        BY <1>2, <2>1, <3>2 DEF Chained, H264
      <4>2. pic.seq = stream
        BY <1>3, <4>1
      <4> QED
        BY <3>2, <4>1, <4>2
    <3> QED
      BY <3>1, <3>2
  <2> HIDE DEF s
  <2>4. jobs' = Append(jobs, PacketOf(pic, s))
    BY <1>1, <2>1, <2>2, QueueKeeps
  <2>5. /\ \A k \in 1 .. Len(jobs)' :
             jobs'[k].of.seq = IF jobs'[k].sps = NoHeader
                                 THEN SequenceBefore(k)' ELSE jobs'[k].sps
        /\ LastSequence' = pic.seq
        /\ fed'.of # NoPicture => fed'.sps = fed'.of.seq
    BY <1>2, <1>3, <2>1, <2>2, <2>3, <2>4, ChainGrows DEF H264
  <2> QED
    BY <1>2, <1>3, <2>1, <2>5 DEF Chained, H264
<1>5. CASE build_hevc_job
  <2>1. coding = "HEVC"
    BY <1>5 DEF build_hevc_job
  <2>2. CASE UNCHANGED <<jobs, hevc_sequence>>
    <3>1. /\ \A k : SequenceBefore(k)' = SequenceBefore(k)
          /\ LastSequence' = LastSequence
      BY <1>3, <2>2 DEF SequenceBefore, LastSequence
    <3> QED
      BY <1>2, <1>3, <2>1, <2>2, <3>1 DEF Chained, H264
  <2> DEFINE s == IF pic.seq # hevc_sequence THEN pic.seq ELSE NoHeader
  <2>3. CASE Queue(Packet(s)) /\ hevc_sequence' = pic.seq
    <3>1. s \in Header
      BY <1>3
    <3>2. pic.seq = IF s = NoHeader THEN LastSequence ELSE s
      <4>1. hevc_sequence = LastSequence
        BY <2>1 DEF Chained
      <4> QED
        BY <1>3, <4>1 DEF NoHeader
    <3> HIDE DEF s
    <3>3. jobs' = Append(jobs, PacketOf(pic, s))
      BY <1>1, <2>3, <3>1, QueueKeeps
    <3>4. /\ \A k \in 1 .. Len(jobs)' :
               jobs'[k].of.seq = IF jobs'[k].sps = NoHeader
                                   THEN SequenceBefore(k)' ELSE jobs'[k].sps
          /\ LastSequence' = pic.seq
          /\ fed'.of # NoPicture => fed'.sps = fed'.of.seq
      BY <1>2, <1>3, <2>1, <3>1, <3>2, <3>3, ChainGrows
    <3> QED
      BY <1>2, <1>3, <2>1, <2>3, <3>4 DEF Chained
  <2> QED
    BY <1>2, <1>5, <2>1, <2>2, <2>3 DEF build_hevc_job
<1>6. CASE build_generic_job
  BY <1>2, <1>6 DEF build_generic_job, Chained
<1> QED
  BY <1>4, <1>5, <1>6 DEF rk_EndPicture

(* MPP reads the oldest job: its sequence is active then, and is the one   *)
(* before the next.                                                        *)
LEMMA SubmitChains ==
  ASSUME StreamInv, AssemblyInv', submit_decode_packet
  PROVE  Chained'
<1> USE DEF StreamInv
<1>1. /\ jobs # <<>> /\ jobs' = Tail(jobs)
      /\ active' = IF Head(jobs).sps = NoHeader THEN active ELSE Head(jobs).sps
      /\ fed' = [Head(jobs) EXCEPT !.sps = active']
      /\ UNCHANGED <<coding, stream, sps_sent, hevc_sequence>>
  BY DEF submit_decode_packet, appVars, ctxVars
<1>2. SUFFICES ASSUME coding # "VP9" PROVE Chained'
  BY <1>1 DEF Chained
<1>3. jobs \in Seq(Packets)
  BY DEF AssemblyInv, Packed
<1>4. /\ Len(jobs') = Len(jobs) - 1 /\ Len(jobs) \in Nat /\ Len(jobs) >= 1
      /\ \A k \in 1 .. Len(jobs) - 1 : jobs'[k] = jobs[k + 1]
      /\ Head(jobs) = jobs[1] /\ Head(jobs) \in Packets
  BY <1>1, <1>3
<1>5. active' = jobs[1].of.seq
  <2>1. jobs[1].of.seq = IF jobs[1].sps = NoHeader THEN SequenceBefore(1)
                                                   ELSE jobs[1].sps
    BY <1>2, <1>4 DEF Chained
  <2>2. SequenceBefore(1) = active
    BY DEF SequenceBefore
  <2> QED
    BY <1>1, <1>4, <2>1, <2>2
<1>6. fed'.sps = active' /\ fed'.of = jobs[1].of
  <2>1. PICK p \in Pic, s \in Header : jobs[1] = PacketOf(p, s)
    BY <1>4 DEF Packets
  <2>2. \A a : /\ [PacketOf(p, s) EXCEPT !.sps = a].sps = a
               /\ [PacketOf(p, s) EXCEPT !.sps = a].of = PacketOf(p, s).of
    BY DEF PacketOf
  <2>3. fed' = [PacketOf(p, s) EXCEPT !.sps = active']
    BY <1>1, <1>4, <2>1
  <2> QED
    BY <2>1, <2>2, <2>3
<1>7. \A k \in 1 .. Len(jobs) : SequenceBefore(k)' = SequenceBefore(k + 1)
  <2>1. SUFFICES ASSUME NEW k \in 1 .. Len(jobs)
                 PROVE  SequenceBefore(k)' = SequenceBefore(k + 1)
    OBVIOUS
  <2>2. SequenceBefore(k + 1) = jobs[k].of.seq
    <3>1. k + 1 # 1 /\ (k + 1) - 1 = k
      BY <1>4
    <3> QED
      BY <3>1 DEF SequenceBefore
  <2>3. CASE k = 1
    BY <1>5, <2>2, <2>3 DEF SequenceBefore
  <2>4. CASE k # 1
    <3>1. k - 1 \in 1 .. Len(jobs) - 1 /\ (k - 1) + 1 = k
      BY <1>4, <2>4
    <3>2. jobs'[k - 1] = jobs[k]
      BY <1>4, <3>1
    <3> QED
      BY <2>2, <2>4, <3>2 DEF SequenceBefore
  <2> QED
    BY <2>3, <2>4
<1>8. LastSequence' = LastSequence
  <2>1. PICK m : m = Len(jobs)
    OBVIOUS
  <2>2. m = Len(jobs') + 1 /\ m \in 1 .. Len(jobs)
    BY <1>4, <2>1
  <2>3. LastSequence' = SequenceBefore(m)'
    BY <2>2 DEF LastSequence, SequenceBefore
  <2>4. LastSequence = SequenceBefore(m + 1)
    BY <2>1 DEF LastSequence
  <2> QED
    BY <1>7, <2>2, <2>3, <2>4
<1>9. \A k \in 1 .. Len(jobs)' :
        jobs'[k].of.seq = IF jobs'[k].sps = NoHeader THEN SequenceBefore(k)'
                                                     ELSE jobs'[k].sps
  <2>1. SUFFICES ASSUME NEW k \in 1 .. Len(jobs) - 1
                 PROVE  jobs'[k].of.seq = IF jobs'[k].sps = NoHeader
                                            THEN SequenceBefore(k)'
                                            ELSE jobs'[k].sps
    BY <1>4
  <2>2. k + 1 \in 1 .. Len(jobs) /\ k \in 1 .. Len(jobs)
    BY <1>4
  <2>3. jobs[k + 1].of.seq = IF jobs[k + 1].sps = NoHeader
                               THEN SequenceBefore(k + 1) ELSE jobs[k + 1].sps
    BY <1>2, <2>2 DEF Chained
  <2> QED
    BY <1>4, <1>7, <2>1, <2>2, <2>3
<1> QED
  BY <1>1, <1>2, <1>5, <1>6, <1>8, <1>9 DEF Chained

(* Every step keeps the chain of sequences.                                *)
LEMMA StreamStep ==
  ASSUME SlicesKept, JobsArrive, StreamInv, [Next]_vars
  PROVE  StreamInv'
<1>1. AssemblyInv' /\ Chained /\ AssemblyInv
  BY AssemblyStep DEF StreamInv
<1>2. CASE UNCHANGED <<coding, jobs, active, fed, stream, sps_sent,
                       hevc_sequence>>
  BY <1>1, <1>2, ChainStays DEF StreamInv
<1>3. ASSUME UNCHANGED vars
             \/ (\E p \in Pictures : rk_BeginPicture(p))
             \/ (\E k \in 1 .. Len(BuffersOf(pic)) : rk_RenderPicture(k))
             \/ (\E b \in live : rk_DestroyBuffer(b))
      PROVE  UNCHANGED <<coding, jobs, active, fed, stream, sps_sent,
                         hevc_sequence>>
  BY <1>3 DEF vars, appVars, ctxVars, rk_BeginPicture, rk_RenderPicture,
              rk_DestroyBuffer
<1>4. CASE rk_EndPicture
  BY <1>1, <1>4, EndChains DEF StreamInv
<1>5. CASE submit_decode_packet
  BY <1>1, <1>5, SubmitChains DEF StreamInv
<1>6. CASE submit_failed
  <2>1. coding = "VP9" /\ coding' = coding
    BY <1>6 DEF submit_failed, JobsArrive
  <2> QED
    BY <1>1, <2>1 DEF StreamInv, Chained
<1> QED
  BY <1>2, <1>3, <1>4, <1>5, <1>6 DEF Next

(* MPP decodes every picture with the sequence and picture parameters the  *)
(* application declared for it, although sequence parameters are only put  *)
(* into some of the packets (sps_sent, hevc_sequence_headers): for any     *)
(* stream, provided slice buffers live until EndPicture and queued H.264   *)
(* and HEVC jobs reach MPP.                                                *)
THEOREM DecodesAsDeclared ==
  ASSUME SlicesKept, JobsArrive
  PROVE  Spec => []DecodedAsDeclared
<1>1. Init => StreamInv
  BY AssemblyInit DEF StreamInv
<1>2. StreamInv /\ [Next]_vars => StreamInv'
  BY StreamStep
<1>3. StreamInv => DecodedAsDeclared
  <2>1. SUFFICES ASSUME StreamInv, coding # "VP9", fed.of # NoPicture
                 PROVE  /\ fed.sps = fed.of.seq
                        /\ fed.pps = PictureHeader(fed.of, fed.of.iq,
                                                   BuffersOf(fed.of))
    BY DEF DecodedAsDeclared
  <2>2. fed # NoPacket
    BY <2>1 DEF NoPacket
  <2>3. PICK p \in Pic, s \in Header : fed = PacketOf(p, s)
    BY <2>1, <2>2 DEF StreamInv, AssemblyInv, Packed, Packets
  <2>4. /\ fed.of = p
        /\ fed.pps = PictureHeader(p, p.iq, BuffersOf(p))
    BY <2>1, <2>3 DEF PacketOf
  <2> QED
    BY <2>1, <2>4 DEF StreamInv, Chained
<1> QED
  BY <1>1, <1>2, <1>3, PTL DEF Spec
-----------------------------------------------------------------------------
(***************************************************************************)
(* Emulation prevention.                                                   *)
(***************************************************************************)
(* Induction over an interval of numbers, as a statement about a set: a    *)
(* counterexample would have a least one.                                  *)
LEMMA Induction ==
  ASSUME NEW N \in Nat, NEW P \in SUBSET Nat, 0 \in P,
         \A n \in 1 .. N : n - 1 \in P => n \in P
  PROVE  0 .. N \subseteq P
<1> DEFINE T == (0 .. N) \ P
<1> SUFFICES ASSUME T # {} PROVE FALSE
    OBVIOUS
<1>1. IsWellFoundedOn(OpToRel(<, Nat), Nat)
  BY NatLessThanWellFounded
<1>2. PICK n \in T : \A m \in T : ~(<<m, n>> \in OpToRel(<, Nat))
  <2>1. T \subseteq Nat  OBVIOUS
  <2> QED BY <1>1, <2>1, WFMin
<1>3. n \in 1 .. N /\ n - 1 \in 0 .. N
  OBVIOUS
<1>4. n - 1 \in P
  <2> SUFFICES ASSUME n - 1 \notin P PROVE FALSE  OBVIOUS
  <2>1. n - 1 \in T  BY <1>3
  <2>2. <<n - 1, n>> \in OpToRel(<, Nat)
    BY <1>3 DEF OpToRel
  <2> QED BY <2>1, <2>2, <1>2
<1> QED BY <1>3, <1>4

(* The steps of a recursion over 1 .. N with values in A, and its run.     *)
Steps(A, N) == [A \X (1 .. N) -> A]

Runs(f, A, N, base, step) ==
  /\ f \in [0 .. N -> A]
  /\ f[0] = base
  /\ \A i \in 1 .. N : f[i] = step[<<f[i - 1], i>>]

(* A recursion over an interval has a run, so that CHOOSE in the meaning   *)
(* of a recursive function finds one.                                      *)
LEMMA Recursion ==
  ASSUME NEW N \in Nat, NEW A, NEW base \in A, NEW step \in Steps(A, N)
  PROVE  \E f : Runs(f, A, N, base, step)
<1> USE DEF Steps
<1> DEFINE Good(f, n) == /\ f[0] = base
                         /\ \A i \in 1 .. n : f[i] = step[<<f[i - 1], i>>]
           P == {n \in 0 .. N : \E f \in [0 .. N -> A] : Good(f, n)}
<1>1. 0 \in P
  <2>1. [i \in 0 .. N |-> base] \in [0 .. N -> A]  OBVIOUS
  <2>2. Good([i \in 0 .. N |-> base], 0)  OBVIOUS
  <2> HIDE DEF Good
  <2>3. \E f \in [0 .. N -> A] : Good(f, 0)  BY <2>1, <2>2
  <2> QED BY <2>3
<1>2. ASSUME NEW n \in 1 .. N, n - 1 \in P PROVE n \in P
  <2>1. PICK f \in [0 .. N -> A] : Good(f, n - 1)
    BY <1>2
  <2> DEFINE g == [f EXCEPT ![n] = step[<<f[n - 1], n>>]]
  <2>2. step[<<f[n - 1], n>>] \in A
    OBVIOUS
  <2>3. g \in [0 .. N -> A]
    BY <2>2
  <2>4. g[0] = base
    BY <2>1
  <2>5. ASSUME NEW i \in 1 .. n PROVE g[i] = step[<<g[i - 1], i>>]
    BY <2>1
  <2>6. Good(g, n)  BY <2>4, <2>5
  <2> HIDE DEF Good, g
  <2>7. \E h \in [0 .. N -> A] : Good(h, n)  BY <2>3, <2>6
  <2> QED BY <2>7
<1>3. N \in P
  <2> HIDE DEF P
  <2>1. P \in SUBSET Nat  BY DEF P
  <2>2. \A n \in 1 .. N : n - 1 \in P => n \in P  BY <1>2
  <2>3. 0 .. N \subseteq P  BY <1>1, <2>1, <2>2, Induction
  <2> QED BY <2>3
<1> QED BY <1>3 DEF Runs

(* What a loop over bytes keeps: the bytes written and the zeros counted.  *)
Escape == [out : Seq(Byte), zeros : Nat]

(* A turn of the loop of emulation_prevent writes bytes.                   *)
LEMMA EscapeTypes ==
  /\ NoBytes \in Escape
  /\ \A a \in Escape, b \in Byte : escape(a, b) \in Escape
<1>1. NoBytes \in Escape
  BY DEF Escape, NoBytes
<1>2. ASSUME NEW a \in Escape, NEW b \in Byte PROVE escape(a, b) \in Escape
  <2>1. a.out \in Seq(Byte) /\ a.zeros \in Nat
    BY DEF Escape
  <2>2. <<3>> \in Seq(Byte) /\ <<>> \in Seq(Byte) /\ <<b>> \in Seq(Byte)
    BY DEF Byte
  <2>3. a.out \o <<3>> \o <<b>> \in Seq(Byte)
        /\ a.out \o <<>> \o <<b>> \in Seq(Byte)
    BY <2>1, <2>2, ConcatProperties
  <2>4. \A z \in Nat : ZerosAfter(z, b) \in Nat
    BY DEF ZerosAfter
  <2>5. CASE a.zeros >= 2 /\ b <= 3
    BY <2>1, <2>3, <2>4, <2>5 DEF Escape, escape
  <2>6. CASE ~(a.zeros >= 2 /\ b <= 3)
    BY <2>1, <2>3, <2>4, <2>6 DEF Escape, escape
  <2> QED BY <2>5, <2>6
<1> QED BY <1>1, <1>2

(* emulation_prevent is the run of its loop.                               *)
LEMMA EscapeUnfolds ==
  ASSUME NEW src \in Seq(Byte)
  PROVE  \E f \in [0 .. Len(src) -> Escape] :
           /\ f[0] = NoBytes
           /\ \A n \in 1 .. Len(src) : f[n] = escape(f[n - 1], src[n])
           /\ emulation_prevent(src) = f[Len(src)].out
<1> DEFINE N == Len(src)
           Def(f) == [n \in 0 .. N |->
                        IF n = 0 THEN NoBytes ELSE escape(f[n - 1], src[n])]
           step == [p \in Escape \X (1 .. N) |-> escape(p[1], src[p[2]])]
           h == CHOOSE f : f = Def(f)
<1>1. N \in Nat /\ \A n \in 1 .. N : src[n] \in Byte
  OBVIOUS
<1>2. step \in Steps(Escape, N)
  BY <1>1, EscapeTypes DEF Steps
<1>3. PICK g : Runs(g, Escape, N, NoBytes, step)
  <2>1. NoBytes \in Escape
    BY EscapeTypes
  <2> HIDE DEF step, N
  <2> QED BY <1>1, <1>2, <2>1, Recursion
<1> g \in [0 .. N -> Escape]
  BY <1>3 DEF Runs
<1>4. \A i \in 1 .. N : g[i] = escape(g[i - 1], src[i])
  <2> SUFFICES ASSUME NEW i \in 1 .. N PROVE g[i] = escape(g[i - 1], src[i])
    OBVIOUS
  <2>1. <<g[i - 1], i>> \in Escape \X (1 .. N)
    BY <1>1
  <2> QED BY <2>1, <1>3 DEF Runs
<1>5. g = Def(g)
  BY <1>1, <1>3, <1>4 DEF Runs
<1>6. h = Def(h)
  BY <1>5
<1>7. emulation_prevent(src) = h[N].out
  BY DEF emulation_prevent
<1> HIDE DEF h
<1>8. 0 .. N \subseteq {n \in 0 .. N : h[n] = g[n]}
  <2> DEFINE P == {n \in 0 .. N : h[n] = g[n]}
  <2>1. 0 \in P
    BY <1>1, <1>3, <1>6 DEF Runs
  <2>2. \A n \in 1 .. N : n - 1 \in P => n \in P
    BY <1>1, <1>4, <1>6
  <2>3. P \in SUBSET Nat
    BY <1>1
  <2> HIDE DEF P
  <2>4. 0 .. N \subseteq P
    BY <1>1, <2>1, <2>2, <2>3, Induction
  <2> QED BY <2>4 DEF P
<1>9. h[N] = g[N]
  BY <1>1, <1>8
<1> HIDE DEF Def, step
<1> QED BY <1>1, <1>3, <1>4, <1>7, <1>9 DEF Runs

(* A turn leaves what was written and adds the byte, behind a 3 when two   *)
(* zeros stand in front of a byte that is at most 3.                       *)
LEMMA EscapeGrows ==
  ASSUME NEW a \in Escape, NEW b \in Byte
  PROVE  LET out == escape(a, b).out
             L == Len(a.out)
         IN  /\ \A i \in 1 .. L : out[i] = a.out[i]
             /\ a.zeros >= 2 /\ b <= 3 =>
                  /\ Len(out) = L + 2 /\ out[L + 1] = 3 /\ out[L + 2] = b
                  /\ escape(a, b).zeros = IF b = 0 THEN 1 ELSE 0
             /\ ~(a.zeros >= 2 /\ b <= 3) =>
                  /\ Len(out) = L + 1 /\ out[L + 1] = b
                  /\ escape(a, b).zeros = IF b = 0 THEN a.zeros + 1 ELSE 0
<1> DEFINE L == Len(a.out)
<1>1. a.out \in Seq(Byte) /\ a.zeros \in Nat /\ L \in Nat
  BY DEF Escape
<1>2. <<3>> \in Seq(Byte) /\ <<>> \in Seq(Byte) /\ <<b>> \in Seq(Byte)
  BY DEF Byte
<1>3. CASE a.zeros >= 2 /\ b <= 3
  <2>1. escape(a, b).out = a.out \o <<3>> \o <<b>>
        /\ escape(a, b).zeros = IF b = 0 THEN 1 ELSE 0
    <3>1. escape(a, b) = [out |-> a.out \o <<3>> \o <<b>>,
                          zeros |-> ZerosAfter(0, b)]
      BY <1>3 DEF escape
    <3> QED BY <3>1 DEF ZerosAfter
  <2>2. /\ a.out \o <<3>> \in Seq(Byte) /\ Len(a.out \o <<3>>) = L + 1
        /\ \A i \in 1 .. L + 1 :
             (a.out \o <<3>>)[i] = IF i <= L THEN a.out[i] ELSE 3
    BY <1>1, <1>2
  <2>3. /\ Len(a.out \o <<3>> \o <<b>>) = L + 2
        /\ \A i \in 1 .. L + 2 :
             (a.out \o <<3>> \o <<b>>)[i]
               = IF i <= L + 1 THEN (a.out \o <<3>>)[i] ELSE b
    BY <1>1, <1>2, <2>2
  <2> QED BY <1>1, <1>3, <2>1, <2>2, <2>3
<1>4. CASE ~(a.zeros >= 2 /\ b <= 3)
  <2>1. escape(a, b).out = a.out \o <<b>>
        /\ escape(a, b).zeros = IF b = 0 THEN a.zeros + 1 ELSE 0
    <3>1. escape(a, b) = [out |-> a.out \o <<>> \o <<b>>,
                          zeros |-> ZerosAfter(a.zeros, b)]
      BY <1>4 DEF escape
    <3>2. a.out \o <<>> = a.out
      BY <1>1
    <3> QED BY <3>1, <3>2 DEF ZerosAfter
  <2>2. /\ Len(a.out \o <<b>>) = L + 1
        /\ \A i \in 1 .. L + 1 :
             (a.out \o <<b>>)[i] = IF i <= L THEN a.out[i] ELSE b
    BY <1>1, <1>2
  <2> QED BY <1>1, <1>4, <2>1, <2>2
<1> QED BY <1>3, <1>4

(* The invariant of the loop: what was written is free of start codes, and *)
(* zeros is the number of zeros it ends in, up to two.                     *)
Settled(a) ==
  LET L == Len(a.out)
  IN  /\ ByteStreamSafe(a.out)
      /\ a.zeros \in 0 .. 2 /\ a.zeros <= L
      /\ \A i \in 1 .. L : i > L - a.zeros => a.out[i] = 0
      /\ a.zeros < 2 /\ a.zeros < L => a.out[L - a.zeros] # 0

(* Every turn keeps the invariant: this is where >= 2 and the reset behind *)
(* the inserted byte are needed.                                           *)
LEMMA EscapeSettles ==
  ASSUME NEW a \in Escape, NEW b \in Byte, Settled(a)
  PROVE  Settled(escape(a, b))
<1> DEFINE L == Len(a.out)
           c == escape(a, b)
           M == Len(c.out)
<1>1. a.out \in Seq(Byte) /\ a.zeros \in 0 .. 2 /\ L \in Nat /\ b \in Int
  BY DEF Escape, Settled, Byte
<1>2. /\ a.zeros <= L
      /\ \A i \in 1 .. L : i > L - a.zeros => a.out[i] = 0
      /\ a.zeros < 2 /\ a.zeros < L => a.out[L - a.zeros] # 0
      /\ \A i \in 1 .. (L - 2) :
           ~(a.out[i] = 0 /\ a.out[i + 1] = 0 /\ a.out[i + 2] <= 2)
  BY DEF Settled, ByteStreamSafe
<1>3. \A i \in 1 .. L : c.out[i] = a.out[i]
  BY EscapeGrows
<1> SUFFICES /\ c.zeros \in 0 .. 2 /\ c.zeros <= M
             /\ \A i \in 1 .. M : i > M - c.zeros => c.out[i] = 0
             /\ c.zeros < 2 /\ c.zeros < M => c.out[M - c.zeros] # 0
             /\ \A i \in 1 .. (M - 2) :
                  ~(c.out[i] = 0 /\ c.out[i + 1] = 0 /\ c.out[i + 2] <= 2)
  BY DEF Settled, ByteStreamSafe
<1>4. CASE a.zeros >= 2 /\ b <= 3
  <2>1. /\ M = L + 2 /\ c.out[L + 1] = 3 /\ c.out[L + 2] = b
        /\ c.zeros = IF b = 0 THEN 1 ELSE 0
    BY <1>4, EscapeGrows
  <2> HIDE DEF c, L, M
  <2>2. ASSUME NEW i \in 1 .. (M - 2)
        PROVE  ~(c.out[i] = 0 /\ c.out[i + 1] = 0 /\ c.out[i + 2] <= 2)
    <3>1. CASE i <= L - 2
      <4>1. i \in 1 .. (L - 2) /\ i \in 1 .. L /\ i + 1 \in 1 .. L
            /\ i + 2 \in 1 .. L
        BY <1>1, <2>1, <3>1
      <4>2. c.out[i] = a.out[i] /\ c.out[i + 1] = a.out[i + 1]
            /\ c.out[i + 2] = a.out[i + 2]
        BY <1>3, <4>1
      <4> QED BY <1>2, <4>1, <4>2
    <3>2. CASE i = L - 1 \/ i = L
      BY <1>1, <2>1, <3>2
    <3> QED BY <1>1, <2>1, <3>1, <3>2
  <2> QED BY <1>1, <1>2, <1>3, <2>1, <2>2
<1>5. CASE ~(a.zeros >= 2 /\ b <= 3)
  <2>1. /\ M = L + 1 /\ c.out[L + 1] = b
        /\ c.zeros = IF b = 0 THEN a.zeros + 1 ELSE 0
    BY <1>5, EscapeGrows
  <2> HIDE DEF c, L, M
  <2>2. ASSUME NEW i \in 1 .. (M - 2)
        PROVE  ~(c.out[i] = 0 /\ c.out[i + 1] = 0 /\ c.out[i + 2] <= 2)
    <3>1. CASE i <= L - 2
      <4>1. i \in 1 .. (L - 2) /\ i \in 1 .. L /\ i + 1 \in 1 .. L
            /\ i + 2 \in 1 .. L
        BY <1>1, <2>1, <3>1
      <4>2. c.out[i] = a.out[i] /\ c.out[i + 1] = a.out[i + 1]
            /\ c.out[i + 2] = a.out[i + 2]
        BY <1>3, <4>1
      <4> QED BY <1>2, <4>1, <4>2
    <3>2. CASE i = L - 1
      BY <1>1, <1>2, <1>3, <1>5, <2>1, <3>2
    <3> QED BY <1>1, <2>1, <3>1, <3>2
  <2>3. c.zeros \in 0 .. 2 /\ c.zeros <= M
    BY <1>1, <1>2, <1>5, <2>1
  <2>4. \A i \in 1 .. M : i > M - c.zeros => c.out[i] = 0
    BY <1>1, <1>2, <1>3, <2>1
  <2>5. c.zeros < 2 /\ c.zeros < M => c.out[M - c.zeros] # 0
    BY <1>1, <1>2, <1>3, <2>1
  <2> QED BY <2>2, <2>3, <2>4, <2>5
<1> QED BY <1>4, <1>5

(* A turn of the loop of unescape_prefix writes bytes.                     *)
LEMMA UnescapeTypes ==
  ASSUME NEW a \in Escape, NEW src \in Seq(Byte), NEW n \in 1 .. Len(src),
         NEW size \in Nat
  PROVE  unescape(a, src, n, size) \in Escape
<1>1. a.out \in Seq(Byte) /\ a.zeros \in Nat /\ src[n] \in Byte
  BY DEF Escape
<1>2. Append(a.out, src[n]) \in Seq(Byte) /\ ZerosAfter(a.zeros, src[n]) \in Nat
  BY <1>1 DEF ZerosAfter
<1>3. [a EXCEPT !.zeros = 0] \in Escape
  BY DEF Escape
<1>4. [out |-> Append(a.out, src[n]), zeros |-> ZerosAfter(a.zeros, src[n])]
        \in Escape
  BY <1>2 DEF Escape
<1> QED BY <1>3, <1>4 DEF unescape

(* unescape_prefix is the run of its loop.                                 *)
LEMMA UnescapeUnfolds ==
  ASSUME NEW src \in Seq(Byte), NEW size \in Nat
  PROVE  \E f \in [0 .. Len(src) -> Escape] :
           /\ f[0] = NoBytes
           /\ \A n \in 1 .. Len(src) : f[n] = unescape(f[n - 1], src, n, size)
           /\ unescape_prefix(src, size) = f[Len(src)].out
<1> DEFINE N == Len(src)
           Def(f) == [n \in 0 .. N |->
                        IF n = 0 THEN NoBytes
                        ELSE unescape(f[n - 1], src, n, size)]
           step == [p \in Escape \X (1 .. N) |->
                      unescape(p[1], src, p[2], size)]
           h == CHOOSE f : f = Def(f)
<1>1. N \in Nat /\ \A n \in 1 .. N : src[n] \in Byte
  OBVIOUS
<1>2. step \in Steps(Escape, N)
  BY <1>1, UnescapeTypes DEF Steps
<1>3. PICK g : Runs(g, Escape, N, NoBytes, step)
  <2>1. NoBytes \in Escape
    BY EscapeTypes
  <2> HIDE DEF step, N
  <2> QED BY <1>1, <1>2, <2>1, Recursion
<1> g \in [0 .. N -> Escape]
  BY <1>3 DEF Runs
<1>4. \A i \in 1 .. N : g[i] = unescape(g[i - 1], src, i, size)
  <2> SUFFICES ASSUME NEW i \in 1 .. N
               PROVE  g[i] = unescape(g[i - 1], src, i, size)
    OBVIOUS
  <2>1. <<g[i - 1], i>> \in Escape \X (1 .. N)
    BY <1>1
  <2> QED BY <2>1, <1>3 DEF Runs
<1>5. g = Def(g)
  BY <1>1, <1>3, <1>4 DEF Runs
<1>6. h = Def(h)
  BY <1>5
<1>7. unescape_prefix(src, size) = h[N].out
  BY DEF unescape_prefix
<1> HIDE DEF h
<1>8. 0 .. N \subseteq {n \in 0 .. N : h[n] = g[n]}
  <2> DEFINE P == {n \in 0 .. N : h[n] = g[n]}
  <2>1. 0 \in P
    BY <1>1, <1>3, <1>6 DEF Runs
  <2>2. \A n \in 1 .. N : n - 1 \in P => n \in P
    BY <1>1, <1>4, <1>6
  <2>3. P \in SUBSET Nat
    BY <1>1
  <2> HIDE DEF P
  <2>4. 0 .. N \subseteq P
    BY <1>1, <2>1, <2>2, <2>3, Induction
  <2> QED BY <2>4 DEF P
<1>9. h[N] = g[N]
  BY <1>1, <1>8
<1> HIDE DEF Def, step
<1> QED BY <1>1, <1>3, <1>4, <1>7, <1>9 DEF Runs

(* What the standard keeps of the n-th byte: all but the 3 behind two      *)
(* zeros.                                                                  *)
Decoded(a, src, n) ==
  IF n > 2 /\ src[n] = 3 /\ src[n - 1] = 0 /\ src[n - 2] = 0
    THEN a ELSE Append(a, src[n])

(* The standard keeps bytes.                                               *)
LEMMA DecodedTypes ==
  ASSUME NEW a \in Seq(Byte), NEW src \in Seq(Byte), NEW n \in 1 .. Len(src)
  PROVE  Decoded(a, src, n) \in Seq(Byte)
BY DEF Decoded

(* Unescaped, the standard's reading of a payload, is the run of its       *)
(* recursion.                                                              *)
LEMMA KeptUnfolds ==
  ASSUME NEW src \in Seq(Byte)
  PROVE  \E f \in [0 .. Len(src) -> Seq(Byte)] :
           /\ f[0] = <<>>
           /\ \A n \in 1 .. Len(src) : f[n] = Decoded(f[n - 1], src, n)
           /\ Unescaped(src) = f[Len(src)]
<1> DEFINE N == Len(src)
           Def(f) == [n \in 0 .. N |->
                        IF n = 0 THEN <<>> ELSE Decoded(f[n - 1], src, n)]
           step == [p \in Seq(Byte) \X (1 .. N) |-> Decoded(p[1], src, p[2])]
           h == CHOOSE f : f = Def(f)
<1>1. N \in Nat /\ \A n \in 1 .. N : src[n] \in Byte
  OBVIOUS
<1>2. step \in Steps(Seq(Byte), N)
  BY <1>1, DecodedTypes DEF Steps
<1>3. PICK g : Runs(g, Seq(Byte), N, <<>>, step)
  <2>1. <<>> \in Seq(Byte)
    OBVIOUS
  <2> HIDE DEF step, N
  <2> QED BY <1>1, <1>2, <2>1, Recursion
<1> g \in [0 .. N -> Seq(Byte)]
  BY <1>3 DEF Runs
<1>4. \A i \in 1 .. N : g[i] = Decoded(g[i - 1], src, i)
  <2> SUFFICES ASSUME NEW i \in 1 .. N PROVE g[i] = Decoded(g[i - 1], src, i)
    OBVIOUS
  <2>1. <<g[i - 1], i>> \in Seq(Byte) \X (1 .. N)
    <3>1. i - 1 \in 0 .. N
      BY <1>1
    <3>2. g[i - 1] \in Seq(Byte)
      BY <3>1
    <3> QED BY <3>2, Zenon
  <2> QED BY <2>1, <1>3 DEF Runs
<1>5. g = Def(g)
  BY <1>1, <1>3, <1>4 DEF Runs
<1>6. h = Def(h)
  BY <1>5
<1>7. Unescaped(src) = h[N]
  BY DEF Unescaped, Decoded
<1> HIDE DEF h
<1>8. 0 .. N \subseteq {n \in 0 .. N : h[n] = g[n]}
  <2> DEFINE P == {n \in 0 .. N : h[n] = g[n]}
  <2>1. 0 \in P
    BY <1>1, <1>3, <1>6 DEF Runs
  <2>2. \A n \in 1 .. N : n - 1 \in P => n \in P
    BY <1>1, <1>4, <1>6
  <2>3. P \in SUBSET Nat
    BY <1>1
  <2> HIDE DEF P
  <2>4. 0 .. N \subseteq P
    BY <1>1, <2>1, <2>2, <2>3, Induction
  <2> QED BY <2>4 DEF P
<1>9. h[N] = g[N]
  BY <1>1, <1>8
<1> HIDE DEF Def, step
<1> QED BY <1>1, <1>3, <1>4, <1>7, <1>9 DEF Runs


(* The bytes written so far stay as they are.                              *)
Extends(t, s) == Len(s) <= Len(t) /\ \A i \in 1 .. Len(s) : t[i] = s[i]

(* f is the run of emulation_prevent over src.                             *)
Escapes(f, src) ==
  /\ f \in [0 .. Len(src) -> Escape]
  /\ f[0] = NoBytes
  /\ \A n \in 1 .. Len(src) : f[n] = escape(f[n - 1], src[n])

(* The invariant holds at every turn.                                      *)
LEMMA EscapesSettled ==
  ASSUME NEW src \in Seq(Byte), NEW f, Escapes(f, src)
  PROVE  \A n \in 0 .. Len(src) : Settled(f[n])
<1> DEFINE N == Len(src)
           P == {n \in 0 .. N : Settled(f[n])}
<1>1. N \in Nat /\ \A n \in 1 .. N : src[n] \in Byte
  OBVIOUS
<1>2. 0 \in P
  <2>1. f[0].out = <<>> /\ f[0].zeros = 0
    BY DEF Escapes, NoBytes
  <2>2. Settled(f[0])
    BY <2>1 DEF Settled, ByteStreamSafe
  <2> QED BY <1>1, <2>2
<1>3. ASSUME NEW n \in 1 .. N, n - 1 \in P PROVE n \in P
  <2>1. f[n - 1] \in Escape /\ f[n] = escape(f[n - 1], src[n])
    BY <1>1 DEF Escapes
  <2>2. Settled(f[n])
    BY <1>1, <1>3, <2>1, EscapeSettles
  <2> QED BY <1>1, <2>2
<1>4. P \in SUBSET Nat
  BY <1>1
<1>5. 0 .. N \subseteq P
  <2> HIDE DEF P
  <2>1. \A n \in 1 .. N : n - 1 \in P => n \in P
    BY <1>3
  <2> QED BY <1>1, <1>2, <1>4, <2>1, Induction
<1> QED BY <1>5

(* What an earlier turn wrote is the beginning of what a later one wrote.  *)
LEMMA EscapesExtend ==
  ASSUME NEW src \in Seq(Byte), NEW f, Escapes(f, src)
  PROVE  \A n \in 0 .. Len(src) :
           /\ n <= Len(f[n].out)
           /\ Extends(f[Len(src)].out, f[n].out)
<1> DEFINE N == Len(src)
           P == {n \in 0 .. N : /\ n <= Len(f[n].out)
                               /\ \A m \in 0 .. n :
                                    Extends(f[n].out, f[m].out)}
<1>1. N \in Nat /\ (\A n \in 1 .. N : src[n] \in Byte)
      /\ \A n \in 0 .. N : f[n] \in Escape /\ Len(f[n].out) \in Nat
  BY DEF Escapes, Escape
<1>2. 0 \in P
  BY <1>1 DEF Extends
<1>3. ASSUME NEW n \in 1 .. N, n - 1 \in P PROVE n \in P
  <2>0. n - 1 \in 0 .. N /\ n \in 0 .. N /\ src[n] \in Byte
    BY <1>1
  <2>1. f[n - 1] \in Escape /\ f[n] = escape(f[n - 1], src[n])
    BY <1>1 DEF Escapes
  <2>2. /\ \A i \in 1 .. Len(f[n - 1].out) : f[n].out[i] = f[n - 1].out[i]
        /\ \/ Len(f[n].out) = Len(f[n - 1].out) + 2
           \/ Len(f[n].out) = Len(f[n - 1].out) + 1
    <3> DEFINE a == f[n - 1]
    <3>1. /\ \A i \in 1 .. Len(a.out) : escape(a, src[n]).out[i] = a.out[i]
          /\ \/ Len(escape(a, src[n]).out) = Len(a.out) + 2
             \/ Len(escape(a, src[n]).out) = Len(a.out) + 1
      <4> HIDE DEF a
      <4>1. a \in Escape
        BY <2>1 DEF a
      <4> QED BY <2>0, <4>1, EscapeGrows
    <3> QED BY <2>1, <3>1
  <2>3. n <= Len(f[n].out)
    BY <1>1, <1>3, <2>0, <2>2
  <2>4. ASSUME NEW m \in 0 .. n PROVE Extends(f[n].out, f[m].out)
    <3>1. CASE m = n
      BY <1>1, <2>0, <3>1 DEF Extends
    <3>2. CASE m # n
      <4>1. m \in 0 .. n - 1 /\ m \in 0 .. N
        BY <1>1, <3>2
      <4>2. Extends(f[n - 1].out, f[m].out)
        BY <1>3, <4>1
      <4> QED BY <1>1, <2>0, <2>2, <4>1, <4>2, SMTT(30) DEF Extends
    <3> QED BY <3>1, <3>2
  <2> QED BY <2>0, <2>3, <2>4
<1>4. P \in SUBSET Nat
  BY <1>1
<1>5. 0 .. N \subseteq P
  <2> HIDE DEF P
  <2>1. \A n \in 1 .. N : n - 1 \in P => n \in P
    BY <1>3
  <2> QED BY <1>1, <1>2, <1>4, <2>1, Induction
<1>6. N \in P
  BY <1>1, <1>5
<1> QED BY <1>1, <1>5, <1>6

(* The first n bytes and the next one are the first n + 1.                 *)
LEMMA PrefixGrows ==
  ASSUME NEW src \in Seq(Byte), NEW n \in 1 .. Len(src)
  PROVE  SubSeq(src, 1, n) = Append(SubSeq(src, 1, n - 1), src[n])
<1>1. SubSeq(src, 1, n) = SubSeq(src, 1, n - 1) \o <<src[n]>>
  BY SubSeqRecursiveSecond
<1>2. SubSeq(src, 1, n - 1) \in Seq(Byte) /\ src[n] \in Byte
  OBVIOUS
<1> QED BY <1>1, <1>2

(* What a turn of the loop adds to the bytes that come out in the end.     *)
LEMMA EscapesAppend ==
  ASSUME NEW src \in Seq(Byte), NEW f, Escapes(f, src),
         NEW n \in 1 .. Len(src)
  PROVE  LET O == f[Len(src)].out
             L == Len(f[n - 1].out)
             K == Len(f[n].out)
             z == f[n - 1].zeros
             b == src[n]
         IN  /\ O \in Seq(Byte) /\ L \in Nat /\ n - 1 <= L /\ K <= Len(O)
             /\ z \in 0 .. 2 /\ z <= L
             /\ z = 2 => O[L] = 0 /\ O[L - 1] = 0
             /\ z < 2 /\ L > 1 => O[L] # 0 \/ O[L - 1] # 0
             /\ z = 2 /\ b <= 3 =>
                  /\ K = L + 2 /\ O[L + 1] = 3 /\ O[L + 2] = b
                  /\ f[n].zeros = IF b = 0 THEN 1 ELSE 0
             /\ ~(z = 2 /\ b <= 3) =>
                  /\ K = L + 1 /\ O[L + 1] = b
                  /\ f[n].zeros = IF b = 0 THEN z + 1 ELSE 0
<1> DEFINE N == Len(src)
           O == f[N].out
           a == f[n - 1]
           L == Len(a.out)
           c == f[n]
           K == Len(c.out)
           z == a.zeros
           b == src[n]
<1>1. /\ N \in Nat /\ n - 1 \in 0 .. N /\ n \in 0 .. N /\ N \in 0 .. N
      /\ b \in Byte
  OBVIOUS
<1>2. a \in Escape /\ c \in Escape /\ f[N] \in Escape /\ c = escape(a, b)
  BY <1>1 DEF Escapes
<1>3. O \in Seq(Byte) /\ L \in Nat /\ K \in Nat /\ z \in Nat /\ b \in Int
  <2> HIDE DEF a, c, b
  <2>1. b \in Int
    BY <1>1 DEF Byte
  <2>2. a.out \in Seq(Byte) /\ c.out \in Seq(Byte) /\ z \in Nat
        /\ O \in Seq(Byte)
    BY <1>2 DEF Escape
  <2> QED BY <2>1, <2>2
<1>4. Settled(a)
  BY <1>1, EscapesSettled
<1>5. n - 1 <= L /\ Extends(O, a.out) /\ Extends(O, c.out)
  BY <1>1, EscapesExtend
<1>6. /\ \A i \in 1 .. L : c.out[i] = a.out[i]
      /\ z >= 2 /\ b <= 3 =>
           /\ K = L + 2 /\ c.out[L + 1] = 3 /\ c.out[L + 2] = b
           /\ c.zeros = IF b = 0 THEN 1 ELSE 0
      /\ ~(z >= 2 /\ b <= 3) =>
           /\ K = L + 1 /\ c.out[L + 1] = b
           /\ c.zeros = IF b = 0 THEN z + 1 ELSE 0
  <2> HIDE DEF a, b, c
  <2>1. b \in Byte /\ a \in Escape /\ c = escape(a, b)
    BY <1>1, <1>2
  <2> QED BY <2>1, EscapeGrows
<1>7. /\ z \in 0 .. 2 /\ z <= L
      /\ \A i \in 1 .. L : i > L - z => a.out[i] = 0
      /\ z < 2 /\ z < L => a.out[L - z] # 0
  BY <1>4 DEF Settled
<1>8. /\ \A i \in 1 .. L : O[i] = a.out[i]
      /\ \A i \in 1 .. K : O[i] = c.out[i]
      /\ K <= Len(O)
  BY <1>5 DEF Extends
<1> HIDE DEF a, b, c, z, K, L, O, N
<1>9. z = 2 => O[L] = 0 /\ O[L - 1] = 0
  BY <1>3, <1>7, <1>8
<1>10. z < 2 /\ L > 1 => O[L] # 0 \/ O[L - 1] # 0
  BY <1>3, <1>7, <1>8
<1>11. z = 2 /\ b <= 3 =>
         /\ K = L + 2 /\ O[L + 1] = 3 /\ O[L + 2] = b
         /\ c.zeros = IF b = 0 THEN 1 ELSE 0
  BY <1>3, <1>6, <1>8
<1>12. ~(z = 2 /\ b <= 3) =>
         /\ K = L + 1 /\ O[L + 1] = b
         /\ c.zeros = IF b = 0 THEN z + 1 ELSE 0
  BY <1>3, <1>6, <1>7, <1>8
<1> USE DEF a, b, c, z, K, L, O, N
<1> QED BY <1>3, <1>5, <1>7, <1>8, <1>9, <1>10, <1>11, <1>12

(* A decoder that follows the standard gets the payload back: each turn of *)
(* the loop matches one or two turns of the reading.                       *)
LEMMA DecoderGetsPayload ==
  ASSUME NEW src \in Seq(Byte)
  PROVE  Unescaped(emulation_prevent(src)) = src
<1>1. PICK f : Escapes(f, src) /\ emulation_prevent(src) = f[Len(src)].out
  BY EscapeUnfolds DEF Escapes
<1> DEFINE N == Len(src)
           O == f[N].out
           at(n) == Len(f[n].out)
<1>2. N \in Nat /\ N \in 0 .. N /\ O \in Seq(Byte)
  <2>1. N \in Nat /\ N \in 0 .. N
    OBVIOUS
  <2> QED BY <1>1, <2>1 DEF Escapes, Escape
<1>3. PICK k \in [0 .. Len(O) -> Seq(Byte)] :
        /\ k[0] = <<>>
        /\ \A i \in 1 .. Len(O) : k[i] = Decoded(k[i - 1], O, i)
        /\ Unescaped(O) = k[Len(O)]
  <2> HIDE DEF O
  <2> QED BY <1>2, KeptUnfolds
<1> DEFINE P == {n \in 0 .. N : k[at(n)] = SubSeq(src, 1, n)}
<1>4. 0 \in P
  <2>1. at(0) = 0
    BY <1>1 DEF Escapes, NoBytes
  <2>2. SubSeq(src, 1, 0) = <<>>
    OBVIOUS
  <2> QED BY <1>2, <1>3, <2>1, <2>2
<1>5. ASSUME NEW n \in 1 .. N, n - 1 \in P PROVE n \in P
  <2> DEFINE L == at(n - 1)
             z == f[n - 1].zeros
             b == src[n]
  <2>1. /\ L \in Nat /\ at(n) <= Len(O) /\ z \in 0 .. 2 /\ z <= L
        /\ z = 2 => O[L] = 0 /\ O[L - 1] = 0
        /\ z < 2 /\ L > 1 => O[L] # 0 \/ O[L - 1] # 0
        /\ z = 2 /\ b <= 3 =>
             at(n) = L + 2 /\ O[L + 1] = 3 /\ O[L + 2] = b
        /\ ~(z = 2 /\ b <= 3) => at(n) = L + 1 /\ O[L + 1] = b
    BY <1>1, EscapesAppend
  <2>2. k[L] = SubSeq(src, 1, n - 1) /\ b \in Byte /\ Len(O) \in Nat
    BY <1>2, <1>5
  <2>3. SubSeq(src, 1, n) = Append(k[L], b)
    BY <2>2, PrefixGrows
  <2> HIDE DEF L, z, b, O
  <2>4. CASE z = 2 /\ b <= 3
    <3>1. L + 1 \in 1 .. Len(O) /\ L + 2 \in 1 .. Len(O) /\ L >= 2
      BY <2>1, <2>2, <2>4
    <3>2. k[L + 1] = k[L]
      BY <1>3, <2>1, <2>4, <3>1 DEF Decoded
    <3>3. k[L + 2] = Append(k[L + 1], b)
      <4>1. k[L + 2] = Decoded(k[(L + 2) - 1], O, L + 2)
        BY <1>3, <3>1
      <4>2. (L + 2) - 1 = L + 1 /\ O[(L + 2) - 1] # 0
        BY <2>1, <2>4
      <4> QED BY <2>1, <2>4, <4>1, <4>2 DEF Decoded
    <3>4. k[at(n)] = SubSeq(src, 1, n)
      BY <2>1, <2>3, <2>4, <3>2, <3>3
    <3> QED BY <1>2, <3>4
  <2>5. CASE ~(z = 2 /\ b <= 3)
    <3>1. L + 1 \in 1 .. Len(O)
      BY <2>1, <2>2, <2>5
    <3>2. ~(/\ L + 1 > 2 /\ O[L + 1] = 3
            /\ O[(L + 1) - 1] = 0 /\ O[(L + 1) - 2] = 0)
      BY <2>1, <2>2, <2>5 DEF Byte
    <3>3. k[L + 1] = Append(k[L], b)
      <4>1. k[L + 1] = Decoded(k[(L + 1) - 1], O, L + 1)
        BY <1>3, <3>1
      <4>2. (L + 1) - 1 = L
        BY <2>1
      <4> QED BY <2>1, <2>5, <3>2, <4>1, <4>2 DEF Decoded
    <3>4. k[at(n)] = SubSeq(src, 1, n)
      BY <2>1, <2>3, <2>5, <3>3
    <3> QED BY <1>2, <3>4
  <2> QED BY <2>4, <2>5
<1>6. P \in SUBSET Nat
  BY <1>2
<1>7. 0 .. N \subseteq P
  <2> HIDE DEF P
  <2>1. \A n \in 1 .. N : n - 1 \in P => n \in P
    BY <1>5
  <2> QED BY <1>2, <1>4, <1>6, <2>1, Induction
<1>8. k[Len(O)] = SubSeq(src, 1, N)
  BY <1>2, <1>7
<1>9. SubSeq(src, 1, N) = src
  BY SubSeqFull
<1> QED BY <1>1, <1>3, <1>8, <1>9
(* So does unescape_prefix, which looks at the byte behind a 3 before it   *)
(* takes it for an escape: the byte is there, and it is at most 3.         *)
LEMMA DriverGetsPayload ==
  ASSUME NEW src \in Seq(Byte)
  PROVE  LET out == emulation_prevent(src)
         IN  unescape_prefix(out, Len(out)) = src
<1>1. PICK f : Escapes(f, src) /\ emulation_prevent(src) = f[Len(src)].out
  BY EscapeUnfolds DEF Escapes
<1> DEFINE N == Len(src)
           O == f[N].out
           at(n) == Len(f[n].out)
<1>2. N \in Nat /\ N \in 0 .. N /\ O \in Seq(Byte)
  <2>1. N \in Nat /\ N \in 0 .. N
    OBVIOUS
  <2> QED BY <1>1, <2>1 DEF Escapes, Escape
<1>3. PICK k \in [0 .. Len(O) -> Escape] :
        /\ k[0] = NoBytes
        /\ \A i \in 1 .. Len(O) : k[i] = unescape(k[i - 1], O, i, Len(O))
        /\ unescape_prefix(O, Len(O)) = k[Len(O)].out
  <2> HIDE DEF O
  <2>1. Len(O) \in Nat
    BY <1>2
  <2> QED BY <1>2, <2>1, UnescapeUnfolds
<1> DEFINE Back(n) == [out |-> SubSeq(src, 1, n), zeros |-> f[n].zeros]
           P == {n \in 0 .. N : k[at(n)] = Back(n)}
<1>4. 0 \in P
  <2>1. at(0) = 0 /\ f[0].zeros = 0
    BY <1>1 DEF Escapes, NoBytes
  <2>2. SubSeq(src, 1, 0) = <<>>
    OBVIOUS
  <2> QED BY <1>2, <1>3, <2>1, <2>2 DEF NoBytes
<1>5. ASSUME NEW n \in 1 .. N, n - 1 \in P PROVE n \in P
  <2> DEFINE L == at(n - 1)
             z == f[n - 1].zeros
             b == src[n]
  <2>1. /\ L \in Nat /\ n - 1 <= L /\ at(n) <= Len(O)
        /\ z \in 0 .. 2 /\ z <= L
        /\ z = 2 /\ b <= 3 =>
             /\ at(n) = L + 2 /\ O[L + 1] = 3 /\ O[L + 2] = b
             /\ f[n].zeros = IF b = 0 THEN 1 ELSE 0
        /\ ~(z = 2 /\ b <= 3) =>
             /\ at(n) = L + 1 /\ O[L + 1] = b
             /\ f[n].zeros = IF b = 0 THEN z + 1 ELSE 0
    BY <1>1, EscapesAppend
  <2>2. k[L] = Back(n - 1) /\ b \in Byte /\ Len(O) \in Nat
    BY <1>2, <1>5
  <2> DEFINE s == SubSeq(src, 1, n - 1)
  <2>3. SubSeq(src, 1, n) = Append(s, b)
    BY PrefixGrows
  <2>4. Len(s) = n - 1 /\ k[L] = [out |-> s, zeros |-> z]
    BY <2>2
  <2> HIDE DEF L, z, b, O, s
  <2>5. CASE z = 2 /\ b <= 3
    <3>1. L + 1 \in 1 .. Len(O) /\ L + 2 \in 1 .. Len(O) /\ L + 1 < Len(O)
          /\ n - 1 # Len(O)
      BY <2>1, <2>2, <2>5
    <3>2. k[L + 1] = [out |-> s, zeros |-> 0]
      <4>1. k[L + 1] = unescape(k[(L + 1) - 1], O, L + 1, Len(O))
        BY <1>3, <3>1
      <4>2. (L + 1) - 1 = L /\ L + 1 + 1 = L + 2
        BY <2>1
      <4>3. k[L].out = s /\ k[L].zeros = z
            /\ [k[L] EXCEPT !.zeros = 0] = [out |-> s, zeros |-> 0]
        BY <2>4
      <4>4. /\ Len(k[L].out) # Len(O) /\ k[L].zeros >= 2 /\ O[L + 1] = 3
            /\ L + 1 < Len(O) /\ O[(L + 1) + 1] <= 3
        BY <2>1, <2>4, <2>5, <3>1, <4>2, <4>3
      <4> QED BY <4>1, <4>2, <4>3, <4>4 DEF unescape
    <3>3. k[L + 2] = [out |-> Append(s, b), zeros |-> IF b = 0 THEN 1 ELSE 0]
      <4>1. k[L + 2] = unescape(k[(L + 2) - 1], O, L + 2, Len(O))
        BY <1>3, <3>1
      <4>2. (L + 2) - 1 = L + 1
        BY <2>1
      <4>3. k[L + 1].out = s /\ k[L + 1].zeros = 0
        BY <3>2
      <4>4. Len(k[L + 1].out) # Len(O) /\ ~(k[L + 1].zeros >= 2)
            /\ O[L + 2] = b
        BY <2>1, <2>4, <2>5, <3>1, <4>3
      <4>5. k[L + 2] = [out |-> Append(k[L + 1].out, b),
                        zeros |-> ZerosAfter(k[L + 1].zeros, b)]
        BY <4>1, <4>2, <4>4 DEF unescape
      <4> QED BY <4>3, <4>5 DEF ZerosAfter
    <3>4. k[at(n)] = Back(n)
      BY <2>1, <2>3, <2>5, <3>3
    <3> QED BY <1>2, <3>4
  <2>6. CASE ~(z = 2 /\ b <= 3)
    <3>1. L + 1 \in 1 .. Len(O) /\ n - 1 # Len(O)
      BY <2>1, <2>2, <2>6
    <3>2. ~(z >= 2 /\ b = 3)
      BY <2>1, <2>6
    <3>3. k[L + 1]
            = [out |-> Append(s, b), zeros |-> IF b = 0 THEN z + 1 ELSE 0]
      <4>1. k[L + 1] = unescape(k[(L + 1) - 1], O, L + 1, Len(O))
        BY <1>3, <3>1
      <4>2. (L + 1) - 1 = L
        BY <2>1
      <4>3. k[L].out = s /\ k[L].zeros = z
        BY <2>4
      <4> QED BY <2>1, <2>4, <2>6, <3>1, <3>2, <4>1, <4>2, <4>3
            DEF unescape, ZerosAfter
    <3>4. k[at(n)] = Back(n)
      BY <2>1, <2>3, <2>6, <3>3
    <3> QED BY <1>2, <3>4
  <2> QED BY <2>5, <2>6
<1>6. P \in SUBSET Nat
  BY <1>2
<1>7. 0 .. N \subseteq P
  <2> HIDE DEF P
  <2>1. \A n \in 1 .. N : n - 1 \in P => n \in P
    BY <1>5
  <2> QED BY <1>2, <1>4, <1>6, <2>1, Induction
<1>8. k[Len(O)].out = SubSeq(src, 1, N)
  <2>1. k[at(N)] = Back(N)
    BY <1>2, <1>7
  <2> QED BY <2>1
<1>9. SubSeq(src, 1, N) = src
  BY SubSeqFull
<1> QED BY <1>1, <1>3, <1>8, <1>9

(* The invariant at the end of the loop.                                   *)
LEMMA PayloadIsSafe ==
  ASSUME NEW src \in Seq(Byte)
  PROVE  ByteStreamSafe(emulation_prevent(src))
<1>1. PICK f : Escapes(f, src) /\ emulation_prevent(src) = f[Len(src)].out
  BY EscapeUnfolds DEF Escapes
<1>2. Len(src) \in 0 .. Len(src)
  OBVIOUS
<1>3. Settled(f[Len(src)])
  BY <1>1, <1>2, EscapesSettled
<1> QED BY <1>1, <1>3 DEF Settled

(* "Insert emulation prevention bytes" (h264.c:82), for every payload of   *)
(* any length and not just the short ones TLC enumerates: no start code is *)
(* left, and both a decoder and the driver's own unescape get the payload  *)
(* back.                                                                   *)
THEOREM EscapingIsSound == HeaderSpec => []EscapeSound
<1> DEFINE Inv == /\ input.codec = "raw" => input.of \in Seq(Byte)
                  /\ output.returned \in BOOLEAN
                  /\ Answered("raw") =>
                       output.value = emulation_prevent(input.of)
<1>1. HeaderInit => Inv
  BY PayloadAssumption DEF HeaderInit, Pending, Answered
<1>2. Inv /\ [HeaderNext]_headerVars => Inv'
  <2> SUFFICES ASSUME Inv, [HeaderNext]_headerVars PROVE Inv'
    OBVIOUS
  <2>1. CASE hevc_headers
    BY <2>1 DEF hevc_headers, Made, Answered
  <2>2. CASE h264_headers
    BY <2>2 DEF h264_headers, Made, Answered
  <2>3. CASE vp9_headers
    BY <2>3 DEF vp9_headers, Made, Answered
  <2>4. CASE finish_nal
    BY <2>4 DEF finish_nal, Made, Answered
  <2>5. CASE UNCHANGED headerVars
    BY <2>5 DEF headerVars, Answered
  <2> QED BY <2>1, <2>2, <2>3, <2>4, <2>5 DEF HeaderNext
<1>3. Inv => EscapeSound
  <2> SUFFICES ASSUME Inv, Answered("raw")
               PROVE  /\ ByteStreamSafe(output.value)
                      /\ Unescaped(output.value) = input.of
                      /\ unescape_prefix(output.value, Len(output.value))
                           = input.of
    BY DEF EscapeSound
  <2>1. input.of \in Seq(Byte) /\ output.value = emulation_prevent(input.of)
    BY DEF Answered
  <2> QED BY <2>1, PayloadIsSafe, DecoderGetsPayload, DriverGetsPayload
<1> QED BY <1>1, <1>2, <1>3, PTL DEF HeaderSpec


-----------------------------------------------------------------------------
(***************************************************************************)
(* The VP9 frame header.                                                   *)
(***************************************************************************)
(* What a bit string is made of.                                           *)
BitValues == {0, 1}

(* ValueOf is the run of its recursion: the first bit is the highest.      *)
LEMMA ValueUnfolds ==
  ASSUME NEW bits \in Seq(BitValues)
  PROVE  \E f \in [0 .. Len(bits) -> Nat] :
           /\ f[0] = 0
           /\ \A n \in 1 .. Len(bits) : f[n] = 2 * f[n - 1] + bits[n]
           /\ ValueOf(bits) = f[Len(bits)]
<1> DEFINE N == Len(bits)
           Def(f) == [n \in 0 .. N |->
                        IF n = 0 THEN 0 ELSE 2 * f[n - 1] + bits[n]]
           step == [p \in Nat \X (1 .. N) |-> 2 * p[1] + bits[p[2]]]
           h == CHOOSE f : f = Def(f)
<1>1. N \in Nat /\ \A n \in 1 .. N : bits[n] \in Nat
  BY DEF BitValues
<1>2. step \in Steps(Nat, N)
  BY <1>1 DEF Steps
<1>3. PICK g : Runs(g, Nat, N, 0, step)
  <2> HIDE DEF step, N
  <2> QED BY <1>1, <1>2, Recursion
<1> g \in [0 .. N -> Nat]
  BY <1>3 DEF Runs
<1>4. \A i \in 1 .. N : g[i] = 2 * g[i - 1] + bits[i]
  <2> SUFFICES ASSUME NEW i \in 1 .. N PROVE g[i] = 2 * g[i - 1] + bits[i]
    OBVIOUS
  <2>1. <<g[i - 1], i>> \in Nat \X (1 .. N)
    <3>1. i - 1 \in 0 .. N
      BY <1>1
    <3>2. g[i - 1] \in Nat
      BY <3>1
    <3> QED BY <3>2
  <2> QED BY <2>1, <1>3 DEF Runs
<1>5. g = Def(g)
  BY <1>1, <1>3, <1>4 DEF Runs
<1>6. h = Def(h)
  BY <1>5
<1>7. ValueOf(bits) = h[N]
  BY DEF ValueOf
<1> HIDE DEF h
<1>8. 0 .. N \subseteq {n \in 0 .. N : h[n] = g[n]}
  <2> DEFINE P == {n \in 0 .. N : h[n] = g[n]}
  <2>1. 0 \in P
    BY <1>1, <1>3, <1>6 DEF Runs
  <2>2. \A n \in 1 .. N : n - 1 \in P => n \in P
    BY <1>1, <1>4, <1>6
  <2>3. P \in SUBSET Nat
    BY <1>1
  <2> HIDE DEF P
  <2>4. 0 .. N \subseteq P
    BY <1>1, <2>1, <2>2, <2>3, Induction
  <2> QED BY <2>4 DEF P
<1>9. h[N] = g[N]
  BY <1>1, <1>8
<1> HIDE DEF Def, step
<1> QED BY <1>1, <1>3, <1>4, <1>7, <1>9 DEF Runs

(* The widths of VP9's fields and the values they hold.                    *)
Fits(x, w) == \/ w = 1 /\ x \in 0 .. 1
              \/ w = 2 /\ x \in 0 .. 3
              \/ w = 3 /\ x \in 0 .. 7
              \/ w = 8 /\ x \in 0 .. 255
              \/ w = 24 /\ x = SyncCode

(* The divisors of bs_write are not zero.                                  *)
LEMMA PowersPositive == \A k \in 0 .. 23 : 2^k \in Nat \ {0}
<1> DEFINE S == Nat \ {0}
<1> SUFFICES ASSUME NEW k \in 0 .. 23 PROVE 2^k \in S
  OBVIOUS
<1>1. /\ 2^0 \in S /\ 2^1 \in S /\ 2^2 \in S /\ 2^3 \in S /\ 2^4 \in S
      /\ 2^5 \in S /\ 2^6 \in S /\ 2^7 \in S /\ 2^8 \in S /\ 2^9 \in S
      /\ 2^10 \in S /\ 2^11 \in S /\ 2^12 \in S /\ 2^13 \in S /\ 2^14 \in S
      /\ 2^15 \in S /\ 2^16 \in S /\ 2^17 \in S /\ 2^18 \in S /\ 2^19 \in S
      /\ 2^20 \in S /\ 2^21 \in S /\ 2^22 \in S /\ 2^23 \in S
  OBVIOUS
<1>2. \/ k = 0 \/ k = 1 \/ k = 2 \/ k = 3 \/ k = 4 \/ k = 5 \/ k = 6
      \/ k = 7 \/ k = 8 \/ k = 9 \/ k = 10 \/ k = 11 \/ k = 12 \/ k = 13
      \/ k = 14 \/ k = 15 \/ k = 16 \/ k = 17 \/ k = 18 \/ k = 19
      \/ k = 20 \/ k = 21 \/ k = 22 \/ k = 23
  OBVIOUS
<1> HIDE DEF S
<1> QED BY <1>1, <1>2, Zenon

(* A field is written in as many bits as it has.                           *)
LEMMA WrittenBits ==
  ASSUME NEW x, NEW w, Fits(x, w)
  PROVE  /\ w \in Nat /\ x \in Nat
         /\ bs_write(x, w) \in Seq(BitValues)
         /\ Len(bs_write(x, w)) = w
<1>1. w \in Nat /\ x \in Nat
  BY DEF Fits, SyncCode
<1>2. \A i \in 1 .. w : w - i \in 0 .. 23
  BY DEF Fits
<1>3. \A i \in 1 .. w : (x \div 2^(w - i)) % 2 \in BitValues
  <2> SUFFICES ASSUME NEW i \in 1 .. w
               PROVE  (x \div 2^(w - i)) % 2 \in BitValues
    OBVIOUS
  <2> QED BY <1>1, <1>2, PowersPositive DEF BitValues
<1>4. bs_write(x, w) \in [1 .. w -> BitValues]
  BY <1>3 DEF bs_write
<1> QED BY <1>1, <1>4

(* What bs_write wrote of a value that fits, ValueOf reads.                *)
LEMMA ReadBack ==
  ASSUME NEW x, NEW w, Fits(x, w)
  PROVE  ValueOf(bs_write(x, w)) = x
<1>1. w \in Nat /\ bs_write(x, w) \in Seq(BitValues) /\ Len(bs_write(x, w)) = w
  BY WrittenBits
<1>2. PICK f \in [0 .. w -> Nat] :
        /\ f[0] = 0
        /\ \A n \in 1 .. w : f[n] = 2 * f[n - 1] + bs_write(x, w)[n]
        /\ ValueOf(bs_write(x, w)) = f[w]
  BY <1>1, ValueUnfolds
<1>10. CASE w = 1
  <2> DEFINE b == bs_write(x, 1)
  <2>1. x \in 0 .. 1
    BY <1>10 DEF Fits
  <2>2. /\ b[1] = (x \div 1) % 2
    BY <2>1 DEF bs_write
  <2> HIDE DEF b
  <2>3. \A n \in 1 .. 1 : f[n] = 2 * f[n - 1] + b[n]
    BY <1>2, <1>10 DEF b
  <2>4. /\ f[1] = 2 * f[0] + b[1]
    BY <2>3
  <2>5. /\ f[0] = 0 /\ ValueOf(bs_write(x, w)) = f[1]
    BY <1>2, <1>10
  <2>6. f[1] = x \div 1
    BY <2>1, <2>2, <2>4, <2>5
  <2> QED BY <2>1, <2>5, <2>6
<1>20. CASE w = 2
  <2> DEFINE b == bs_write(x, 2)
  <2>1. x \in 0 .. 3
    BY <1>20 DEF Fits
  <2>2. /\ b[1] = (x \div 2) % 2
        /\ b[2] = (x \div 1) % 2
    BY <2>1 DEF bs_write
  <2> HIDE DEF b
  <2>3. \A n \in 1 .. 2 : f[n] = 2 * f[n - 1] + b[n]
    BY <1>2, <1>20 DEF b
  <2>4. /\ f[1] = 2 * f[0] + b[1]
        /\ f[2] = 2 * f[1] + b[2]
    BY <2>3
  <2>5. /\ f[0] = 0 /\ ValueOf(bs_write(x, w)) = f[2]
    BY <1>2, <1>20
  <2>6. f[1] = x \div 2
    BY <2>1, <2>2, <2>4, <2>5
  <2>7. f[2] = x \div 1
    BY <2>1, <2>2, <2>4, <2>5, <2>6
  <2> QED BY <2>1, <2>5, <2>7
<1>30. CASE w = 3
  <2> DEFINE b == bs_write(x, 3)
  <2>1. x \in 0 .. 7
    BY <1>30 DEF Fits
  <2>2. /\ b[1] = (x \div 4) % 2
        /\ b[2] = (x \div 2) % 2
        /\ b[3] = (x \div 1) % 2
    BY <2>1 DEF bs_write
  <2> HIDE DEF b
  <2>3. \A n \in 1 .. 3 : f[n] = 2 * f[n - 1] + b[n]
    BY <1>2, <1>30 DEF b
  <2>4. /\ f[1] = 2 * f[0] + b[1]
        /\ f[2] = 2 * f[1] + b[2]
        /\ f[3] = 2 * f[2] + b[3]
    BY <2>3
  <2>5. /\ f[0] = 0 /\ ValueOf(bs_write(x, w)) = f[3]
    BY <1>2, <1>30
  <2>6. f[1] = x \div 4
    BY <2>1, <2>2, <2>4, <2>5
  <2>7. f[2] = x \div 2
    BY <2>1, <2>2, <2>4, <2>5, <2>6
  <2>8. f[3] = x \div 1
    BY <2>1, <2>2, <2>4, <2>5, <2>7
  <2> QED BY <2>1, <2>5, <2>8
<1>80. CASE w = 8
  <2> DEFINE b == bs_write(x, 8)
  <2>1. x \in 0 .. 255
    BY <1>80 DEF Fits
  <2>2. /\ b[1] = (x \div 128) % 2
        /\ b[2] = (x \div 64) % 2
        /\ b[3] = (x \div 32) % 2
        /\ b[4] = (x \div 16) % 2
        /\ b[5] = (x \div 8) % 2
        /\ b[6] = (x \div 4) % 2
        /\ b[7] = (x \div 2) % 2
        /\ b[8] = (x \div 1) % 2
    BY <2>1 DEF bs_write
  <2> HIDE DEF b
  <2>3. \A n \in 1 .. 8 : f[n] = 2 * f[n - 1] + b[n]
    BY <1>2, <1>80 DEF b
  <2>5. /\ f[0] = 0 /\ ValueOf(bs_write(x, w)) = f[8]
    BY <1>2, <1>80
  <2>6. f[1] = x \div 128
    <3>1. f[1] = 2 * f[0] + b[1]
      BY <2>3
    <3>2. b[1] = (x \div 128) % 2
      BY <2>2
    <3> QED BY <2>1, <2>5, <3>1, <3>2
  <2>7. f[2] = x \div 64
    <3>1. f[2] = 2 * f[1] + b[2]
      BY <2>3
    <3>2. b[2] = (x \div 64) % 2
      BY <2>2
    <3> QED BY <2>1, <2>6, <3>1, <3>2
  <2>8. f[3] = x \div 32
    <3>1. f[3] = 2 * f[2] + b[3]
      BY <2>3
    <3>2. b[3] = (x \div 32) % 2
      BY <2>2
    <3> QED BY <2>1, <2>7, <3>1, <3>2
  <2>9. f[4] = x \div 16
    <3>1. f[4] = 2 * f[3] + b[4]
      BY <2>3
    <3>2. b[4] = (x \div 16) % 2
      BY <2>2
    <3> QED BY <2>1, <2>8, <3>1, <3>2
  <2>10. f[5] = x \div 8
    <3>1. f[5] = 2 * f[4] + b[5]
      BY <2>3
    <3>2. b[5] = (x \div 8) % 2
      BY <2>2
    <3> QED BY <2>1, <2>9, <3>1, <3>2
  <2>11. f[6] = x \div 4
    <3>1. f[6] = 2 * f[5] + b[6]
      BY <2>3
    <3>2. b[6] = (x \div 4) % 2
      BY <2>2
    <3> QED BY <2>1, <2>10, <3>1, <3>2
  <2>12. f[7] = x \div 2
    <3>1. f[7] = 2 * f[6] + b[7]
      BY <2>3
    <3>2. b[7] = (x \div 2) % 2
      BY <2>2
    <3> QED BY <2>1, <2>11, <3>1, <3>2
  <2>13. f[8] = x \div 1
    <3>1. f[8] = 2 * f[7] + b[8]
      BY <2>3
    <3>2. b[8] = (x \div 1) % 2
      BY <2>2
    <3> QED BY <2>1, <2>12, <3>1, <3>2
  <2> QED BY <2>1, <2>5, <2>13
<1>240. CASE w = 24
  <2> DEFINE b == bs_write(x, 24)
  <2>1. x = 4817730
    BY <1>240 DEF Fits, SyncCode
  <2>2. /\ b[1] = 0
        /\ b[2] = 1
        /\ b[3] = 0
        /\ b[4] = 0
        /\ b[5] = 1
        /\ b[6] = 0
        /\ b[7] = 0
        /\ b[8] = 1
        /\ b[9] = 1
        /\ b[10] = 0
        /\ b[11] = 0
        /\ b[12] = 0
        /\ b[13] = 0
        /\ b[14] = 0
        /\ b[15] = 1
        /\ b[16] = 1
        /\ b[17] = 0
        /\ b[18] = 1
        /\ b[19] = 0
        /\ b[20] = 0
        /\ b[21] = 0
        /\ b[22] = 0
        /\ b[23] = 1
        /\ b[24] = 0
    BY <2>1 DEF bs_write
  <2> HIDE DEF b
  <2>3. \A n \in 1 .. 24 : f[n] = 2 * f[n - 1] + b[n]
    BY <1>2, <1>240 DEF b
  <2>4. /\ f[1] = 2 * f[0] + b[1]
        /\ f[2] = 2 * f[1] + b[2]
        /\ f[3] = 2 * f[2] + b[3]
        /\ f[4] = 2 * f[3] + b[4]
        /\ f[5] = 2 * f[4] + b[5]
        /\ f[6] = 2 * f[5] + b[6]
        /\ f[7] = 2 * f[6] + b[7]
        /\ f[8] = 2 * f[7] + b[8]
        /\ f[9] = 2 * f[8] + b[9]
        /\ f[10] = 2 * f[9] + b[10]
        /\ f[11] = 2 * f[10] + b[11]
        /\ f[12] = 2 * f[11] + b[12]
        /\ f[13] = 2 * f[12] + b[13]
        /\ f[14] = 2 * f[13] + b[14]
        /\ f[15] = 2 * f[14] + b[15]
        /\ f[16] = 2 * f[15] + b[16]
        /\ f[17] = 2 * f[16] + b[17]
        /\ f[18] = 2 * f[17] + b[18]
        /\ f[19] = 2 * f[18] + b[19]
        /\ f[20] = 2 * f[19] + b[20]
        /\ f[21] = 2 * f[20] + b[21]
        /\ f[22] = 2 * f[21] + b[22]
        /\ f[23] = 2 * f[22] + b[23]
        /\ f[24] = 2 * f[23] + b[24]
    BY <2>3
  <2>5. /\ f[0] = 0 /\ ValueOf(bs_write(x, w)) = f[24]
    BY <1>2, <1>240
  <2> QED BY <2>1, <2>2, <2>4, <2>5
<1> QED BY <1>10, <1>20, <1>30, <1>80, <1>240 DEF Fits

(* What is left of B behind p bits is t.                                   *)
Holds(B, p, t) ==
  /\ p \in Nat /\ B \in Seq(BitValues) /\ t \in Seq(BitValues)
  /\ p + Len(t) = Len(B)
  /\ \A i \in 1 .. Len(t) : B[p + i] = t[i]

(* Reading the bits of the next field leaves the rest of the string.       *)
LEMMA TakeField ==
  ASSUME NEW B, NEW p, NEW s \in Seq(BitValues), NEW t \in Seq(BitValues),
         Holds(B, p, s \o t)
  PROVE  /\ Holds(B, p + Len(s), t)
         /\ Len(s) <= Len(B) - p
         /\ SubSeq(B, p + 1, p + Len(s)) = s
<1> DEFINE n == Len(s)
           m == Len(t)
<1>1. /\ p \in Nat /\ B \in Seq(BitValues) /\ n \in Nat /\ m \in Nat
      /\ Len(B) = p + (n + m)
      /\ \A i \in 1 .. (n + m) :
           B[p + i] = IF i <= n THEN s[i] ELSE t[i - n]
  <2>1. Len(s \o t) = n + m
    OBVIOUS
  <2>2. \A i \in 1 .. (n + m) : (s \o t)[i] = IF i <= n THEN s[i] ELSE t[i - n]
    OBVIOUS
  <2>3. n \in Nat /\ m \in Nat
    OBVIOUS
  <2> QED BY <2>1, <2>2, <2>3 DEF Holds
<1>2. ASSUME NEW i \in 1 .. m PROVE B[(p + n) + i] = t[i]
  <2>1. n + i \in 1 .. (n + m) /\ p + (n + i) = (p + n) + i
        /\ ~(n + i <= n) /\ (n + i) - n = i
    BY <1>1
  <2> QED BY <1>1, <2>1
<1>3. Holds(B, p + n, t)
  BY <1>1, <1>2 DEF Holds
<1>4. SubSeq(B, p + 1, p + n) = s
  <2>1. /\ SubSeq(B, p + 1, p + n) \in Seq(BitValues)
        /\ Len(SubSeq(B, p + 1, p + n)) = n
        /\ \A i \in 1 .. n : SubSeq(B, p + 1, p + n)[i] = B[p + i]
    BY <1>1
  <2>2. \A i \in 1 .. n : SubSeq(B, p + 1, p + n)[i] = s[i]
    BY <1>1, <2>1
  <2> QED BY <2>1, <2>2, SeqEqual
<1> QED BY <1>1, <1>3, <1>4

(* A field of the header, or nothing.                                      *)
Field(c, x, w) == IF c = 1 THEN bs_write(x, w) ELSE <<>>
Coded(c, w) == IF c = 1 THEN Fixed(w) ELSE Skipped(0)
Value0(c, x) == IF c = 1 THEN x ELSE 0

(* A field is a bit string, whether it is there or not.                    *)
LEMMA FieldType ==
  ASSUME NEW c, NEW x, NEW w, Fits(x, w)
  PROVE  Field(c, x, w) \in Seq(BitValues)
BY WrittenBits DEF Field

(* The reader did not fail, as a name the provers do not look behind.      *)
Yes == TRUE

(* The reader at position p of B, with the last value and what it          *)
(* recorded.                                                               *)
IsReader(br, B, p, y, v, a) ==
  br = [bits |-> B, bit |-> p, ok |-> Yes, value |-> y, v |-> v, at |-> a]

(* br_read takes a field that is there, and nothing for one that is not.   *)
LEMMA ReadField ==
  ASSUME NEW B, NEW p, NEW y, NEW v, NEW a, NEW t \in Seq(BitValues),
         NEW c \in {0, 1}, NEW x, NEW w, Fits(x, w), NEW br,
         IsReader(br, B, p, y, v, a), Holds(B, p, Field(c, x, w) \o t)
  PROVE  /\ Holds(B, p + Len(Field(c, x, w)), t)
         /\ IsReader(br_read(br, Coded(c, w)), B, p + Len(Field(c, x, w)),
                     Value0(c, x), v, a)
<1> DEFINE s == Field(c, x, w)
<1>1. s \in Seq(BitValues)
  BY FieldType
<1>2. /\ Holds(B, p + Len(s), t) /\ Len(s) <= Len(B) - p
      /\ SubSeq(B, p + 1, p + Len(s)) = s
  BY <1>1, TakeField
<1>3. Left(br) = Len(B) - p
  BY DEF Left, IsReader
<1>4. CASE c = 1
  <2>1. s = bs_write(x, w) /\ Len(s) = w
    BY <1>4, WrittenBits DEF Field
  <2>2. ValueOf(SubSeq(B, p + 1, p + w)) = x
    BY <1>2, <2>1, ReadBack
  <2>3. br_read_bits(br, w) = [bits |-> B, bit |-> p + w, ok |-> Yes,
                               value |-> x, v |-> v, at |-> a]
    BY <1>2, <1>3, <2>1, <2>2 DEF br_read_bits, IsReader
  <2>4. br_read(br, Coded(c, w)) = br_read_bits(br, w)
    BY <1>4 DEF br_read, Coded, Fixed
  <2> QED BY <1>2, <1>4, <2>1, <2>3, <2>4 DEF Value0, IsReader
<1>5. CASE c # 1
  <2>1. Len(s) = 0
    BY <1>5 DEF Field
  <2>2. br_skip_bits(br, 0) = [bits |-> B, bit |-> p + 0, ok |-> Yes,
                               value |-> 0, v |-> v, at |-> a]
    BY <1>2, <1>3, <2>1 DEF br_skip_bits, IsReader
  <2>3. br_read(br, Coded(c, w)) = br_skip_bits(br, 0)
    BY <1>5 DEF br_read, Coded, Skipped
  <2> QED BY <1>2, <1>5, <2>1, <2>2, <2>3 DEF Value0, IsReader
<1> QED BY <1>4, <1>5

(* One turn of read_elements for the VP9 header.                           *)
Vp9Next(br, e, profile) ==
  LET read == Recorded(br_read(br, Vp9Coding(e, br.v)), e)
  IN  IF br.ok THEN Checked(read, Vp9Accepts(e, read.v, profile)) ELSE br

(* The reader has t of B in front of it and recorded the values v.         *)
Reading(br, B, t, v) ==
  \E p, y, a : IsReader(br, B, p, y, v, a) /\ Holds(B, p, t)

(* Recorded changes two fields of the reader.                              *)
LEMMA RecordedIs ==
  ASSUME NEW B, NEW q, NEW val, NEW v, NEW a, NEW e, NEW r, NEW k,
         r = [bits |-> B, bit |-> q, ok |-> k, value |-> val, v |-> v,
              at |-> a]
  PROVE  Recorded(r, e)
           = [bits |-> B, bit |-> q, ok |-> k, value |-> val,
              v |-> Put(v, e, val), at |-> Put(a, e, q)]
<1>1. Recorded(r, e) = [r EXCEPT !.v = Put(v, e, val), !.at = Put(a, e, q)]
  BY DEF Recorded
<1> DEFINE V == Put(v, e, val)
           A == Put(a, e, q)
           c == [r EXCEPT !.v = V]
<1> HIDE DEF V, A
<1>2. c = [bits |-> B, bit |-> q, ok |-> k, value |-> val, v |-> V,
           at |-> a]
  OBVIOUS
<1>3. [r EXCEPT !.v = V, !.at = A] = [c EXCEPT !.at = A]
  OBVIOUS
<1> HIDE DEF c
<1>4. [c EXCEPT !.at = A]
        = [bits |-> B, bit |-> q, ok |-> k, value |-> val, v |-> V,
           at |-> A]
  BY <1>2
<1> QED BY <1>1, <1>3, <1>4 DEF V, A

(* When the next field is the one the parser expects and its value is      *)
(* accepted, the turn records the value and goes on behind the field.      *)
LEMMA NextElement ==
  ASSUME NEW br, NEW B, NEW v, NEW e, NEW profile, NEW t \in Seq(BitValues),
         NEW c \in {0, 1}, NEW x, NEW w, Fits(x, w),
         Reading(br, B, Field(c, x, w) \o t, v),
         Vp9Coding(e, v) = Coded(c, w),
         Vp9Accepts(e, Put(v, e, Value0(c, x)), profile)
  PROVE  Reading(Vp9Next(br, e, profile), B, t,
                 Put(v, e, Value0(c, x)))
<1>1. PICK p, y, a : /\ IsReader(br, B, p, y, v, a)
                     /\ Holds(B, p, Field(c, x, w) \o t)
  BY DEF Reading
<1> DEFINE val == Value0(c, x)
           q == p + Len(Field(c, x, w))
           r == br_read(br, Coded(c, w))
<1>2. Holds(B, q, t) /\ IsReader(r, B, q, val, v, a)
  BY <1>1, ReadField
<1>3. br.ok = Yes /\ br.v = v
  BY <1>1 DEF IsReader
<1>4. r = br_read(br, Vp9Coding(e, br.v))
  BY <1>3
<1> HIDE DEF r, val, q
<1>5. Recorded(r, e) = [bits |-> B, bit |-> q, ok |-> Yes, value |-> val,
                        v |-> Put(v, e, val), at |-> Put(a, e, q)]
  BY <1>2, RecordedIs DEF IsReader
<1>6. /\ Recorded(r, e).v = Put(v, e, val) /\ Recorded(r, e).ok = Yes
      /\ IsReader(Recorded(r, e), B, q, val, Put(v, e, val), Put(a, e, q))
  BY <1>5 DEF IsReader
<1>7. Vp9Next(br, e, profile) = Recorded(r, e)
  BY <1>3, <1>4, <1>6 DEF Vp9Next, Checked, Yes, val
<1> QED BY <1>2, <1>6, <1>7 DEF Reading, val


(* The frames of Vp9Assumption.                                            *)
Vp9Legal ==
  [profile : {0, 2}, existing : BOOLEAN, slot : 0..7, key : BOOLEAN,
   show : BOOLEAN, error : BOOLEAN, intra : BOOLEAN, reset : 0..3,
   refresh : Byte, space : 0..6, rest : Seq({0, 1})]

(* When the standard puts the fields behind the flags into the header.     *)
InterFrame(f)  == ~f.existing /\ ~f.key
SyncedFrame(f) == ~f.existing /\ (f.key \/ (f.intra /\ ~f.show))
Coloured(f)    == SyncedFrame(f) /\ f.profile = 2

(* The header from its n-th field on, for each of the 16 fields.           *)
T16(f) == Field(Bit(InterFrame(f)), f.refresh, 8) \o f.rest
T15(f) == Field(Bit(Coloured(f)), 1, 1) \o T16(f)
T14(f) == Field(Bit(Coloured(f)), f.space, 3) \o T15(f)
T13(f) == Field(Bit(Coloured(f)), 0, 1) \o T14(f)
T12(f) == Field(Bit(SyncedFrame(f)), SyncCode, 24) \o T13(f)
T11(f) == Field(Bit(InterFrame(f) /\ ~f.error), f.reset, 2) \o T12(f)
T10(f) == Field(Bit(InterFrame(f) /\ ~f.show), Bit(f.intra), 1) \o T11(f)
T9(f) == Field(Bit(~f.existing), Bit(f.error), 1) \o T10(f)
T8(f) == Field(Bit(~f.existing), Bit(f.show), 1) \o T9(f)
T7(f) == Field(Bit(~f.existing), Bit(~f.key), 1) \o T8(f)
T6(f) == Field(Bit(f.existing), f.slot, 3) \o T7(f)
T5(f) == Field(1, Bit(f.existing), 1) \o T6(f)
T4(f) == Field(0, 0, 1) \o T5(f)
T3(f) == Field(1, f.profile \div 2, 1) \o T4(f)
T2(f) == Field(1, f.profile % 2, 1) \o T3(f)
T1(f) == Field(1, 2, 2) \o T2(f)

(* The fields of a legal frame fit their widths.                           *)
LEMMA FrameFields ==
  ASSUME NEW f \in Vp9Legal
  PROVE  /\ f.profile \in {0, 2} /\ f.existing \in BOOLEAN
         /\ f.key \in BOOLEAN /\ f.show \in BOOLEAN /\ f.error \in BOOLEAN
         /\ f.intra \in BOOLEAN /\ f.rest \in Seq(BitValues)
         /\ Fits(f.refresh, 8) /\ Fits(f.space, 3) /\ Fits(f.slot, 3)
         /\ Fits(f.reset, 2) /\ Fits(SyncCode, 24) /\ Fits(2, 2)
         /\ Fits(f.profile % 2, 1) /\ Fits(f.profile \div 2, 1)
         /\ Fits(0, 1) /\ Fits(1, 1)
BY DEF Vp9Legal, Fits, Byte, BitValues

(* Flags are one bit wide.                                                 *)
LEMMA BitIs ==
  \A b \in BOOLEAN : Bit(b) \in {0, 1} /\ Fits(Bit(b), 1) /\ (Bit(b) = 1 <=> b)
BY DEF Bit, Fits

(* Every remainder of the header is a bit string.                          *)
LEMMA TailTypes ==
  ASSUME NEW f \in Vp9Legal
  PROVE  /\ f.rest \in Seq(BitValues)
         /\ T16(f) \in Seq(BitValues) /\ T15(f) \in Seq(BitValues)
         /\ T14(f) \in Seq(BitValues) /\ T13(f) \in Seq(BitValues)
         /\ T12(f) \in Seq(BitValues) /\ T11(f) \in Seq(BitValues)
         /\ T10(f) \in Seq(BitValues) /\ T9(f) \in Seq(BitValues)
         /\ T8(f) \in Seq(BitValues) /\ T7(f) \in Seq(BitValues)
         /\ T6(f) \in Seq(BitValues) /\ T5(f) \in Seq(BitValues)
         /\ T4(f) \in Seq(BitValues) /\ T3(f) \in Seq(BitValues)
         /\ T2(f) \in Seq(BitValues) /\ T1(f) \in Seq(BitValues)
<1>1. f.rest \in Seq(BitValues)
  BY FrameFields
<1>2. \A s, t \in Seq(BitValues) : s \o t \in Seq(BitValues)
  OBVIOUS
<1>3. Fits(Bit(f.intra), 1) /\ Fits(Bit(f.error), 1) /\ Fits(Bit(f.show), 1)
      /\ Fits(Bit(~f.key), 1) /\ Fits(Bit(f.existing), 1)
  BY FrameFields, BitIs
<1>16. T16(f) \in Seq(BitValues)
  BY <1>1, <1>2, FieldType, FrameFields DEF T16
<1>15. T15(f) \in Seq(BitValues)
  BY <1>2, <1>16, FieldType, FrameFields DEF T15
<1>14. T14(f) \in Seq(BitValues)
  BY <1>2, <1>15, FieldType, FrameFields DEF T14
<1>13. T13(f) \in Seq(BitValues)
  BY <1>2, <1>14, FieldType, FrameFields DEF T13
<1>12. T12(f) \in Seq(BitValues)
  BY <1>2, <1>13, FieldType, FrameFields DEF T12
<1>11. T11(f) \in Seq(BitValues)
  BY <1>2, <1>12, FieldType, FrameFields DEF T11
<1>10. T10(f) \in Seq(BitValues)
  BY <1>2, <1>3, <1>11, FieldType DEF T10
<1>9. T9(f) \in Seq(BitValues)
  BY <1>2, <1>3, <1>10, FieldType DEF T9
<1>8. T8(f) \in Seq(BitValues)
  BY <1>2, <1>3, <1>9, FieldType DEF T8
<1>7. T7(f) \in Seq(BitValues)
  BY <1>2, <1>3, <1>8, FieldType DEF T7
<1>6. T6(f) \in Seq(BitValues)
  BY <1>2, <1>7, FieldType, FrameFields DEF T6
<1>5. T5(f) \in Seq(BitValues)
  BY <1>2, <1>3, <1>6, FieldType DEF T5
<1>4. T4(f) \in Seq(BitValues)
  BY <1>2, <1>5, FieldType, FrameFields DEF T4
<1>17. T3(f) \in Seq(BitValues)
  BY <1>2, <1>4, FieldType, FrameFields DEF T3
<1>18. T2(f) \in Seq(BitValues)
  BY <1>2, <1>17, FieldType, FrameFields DEF T2
<1>19. T1(f) \in Seq(BitValues)
  BY <1>2, <1>18, FieldType, FrameFields DEF T1
<1> QED BY <1>1, <1>4, <1>5, <1>6, <1>7, <1>8, <1>9, <1>10, <1>11, <1>12,
           <1>13, <1>14, <1>15, <1>16, <1>17, <1>18, <1>19


(* The literal bits of the header as the fields they are.                  *)
LEMMA OneBit ==
  /\ <<1, 0>> = bs_write(2, 2)
  /\ <<1>> = bs_write(1, 1)
  /\ <<0>> = bs_write(0, 1)
  /\ \A b \in BOOLEAN : Flag(b) = bs_write(Bit(b), 1)
<1>0. Fits(2, 2) /\ Fits(1, 1) /\ Fits(0, 1)
  BY DEF Fits
<1>1. bs_write(2, 2) = <<1, 0>>
  <2>1. /\ bs_write(2, 2) \in Seq(BitValues) /\ Len(bs_write(2, 2)) = 2
    BY <1>0, WrittenBits
  <2>2. bs_write(2, 2)[1] = 1 /\ bs_write(2, 2)[2] = 0
    BY DEF bs_write
  <2> QED BY <2>1, <2>2
<1>2. bs_write(1, 1) = <<1>>
  <2>1. /\ bs_write(1, 1) \in Seq(BitValues) /\ Len(bs_write(1, 1)) = 1
    BY <1>0, WrittenBits
  <2>2. bs_write(1, 1)[1] = 1
    BY DEF bs_write
  <2> QED BY <2>1, <2>2
<1>3. bs_write(0, 1) = <<0>>
  <2>1. /\ bs_write(0, 1) \in Seq(BitValues) /\ Len(bs_write(0, 1)) = 1
    BY <1>0, WrittenBits
  <2>2. bs_write(0, 1)[1] = 0
    BY DEF bs_write
  <2> QED BY <2>1, <2>2
<1>4. \A b \in BOOLEAN : Flag(b) = bs_write(Bit(b), 1)
  BY <1>2, <1>3 DEF Flag, Bit
<1> QED BY <1>1, <1>2, <1>3, <1>4

(* Concatenation of bit strings.                                           *)
LEMMA Joined ==
  ASSUME NEW s \in Seq(BitValues), NEW t \in Seq(BitValues),
         NEW u \in Seq(BitValues)
  PROVE  /\ (s \o t) \o u = s \o (t \o u)
         /\ s \o t \in Seq(BitValues)
         /\ <<>> \o s = s /\ s \o <<>> = s
         /\ <<>> \in Seq(BitValues)
<1>1. (s \o t) \o u = s \o (t \o u)
  BY ConcatAssociative
<1> QED BY <1>1, ConcatEmptySeq

(* The header the standard writes, with its nested conditions, is the list *)
(* of 16 fields of which each is there or not.                             *)
LEMMA HeaderIsFields ==
  ASSUME NEW f \in Vp9Legal
  PROVE  Vp9Bits(f) = T1(f)
<1> DEFINE S == Seq(BitValues)
           marker == bs_write(2, 2)
           low  == bs_write(f.profile % 2, 1)
           high == bs_write(f.profile \div 2, 1)
           one  == bs_write(1, 1)
           zero == bs_write(0, 1)
           slot == bs_write(f.slot, 3)
           type == bs_write(Bit(~f.key), 1)
           show == bs_write(Bit(f.show), 1)
           error == bs_write(Bit(f.error), 1)
           intra == bs_write(Bit(f.intra), 1)
           reset == bs_write(f.reset, 2)
           sync == bs_write(SyncCode, 24)
           space == bs_write(f.space, 3)
           refresh == bs_write(f.refresh, 8)
           rest == f.rest
           none == <<>>
<1>1. \A s, t \in S : s \o t \in S
  OBVIOUS
<1>2. \A s, t, u \in S : (s \o t) \o u = s \o (t \o u)
  BY Joined
<1>3. none \in S /\ \A s \in S : none \o s = s /\ s \o none = s
  BY Joined
<1>4. /\ f.existing \in BOOLEAN /\ f.key \in BOOLEAN /\ f.show \in BOOLEAN
      /\ f.error \in BOOLEAN /\ f.intra \in BOOLEAN /\ f.profile \in {0, 2}
  BY FrameFields
<1>5. /\ marker \in S /\ low \in S /\ high \in S /\ one \in S /\ zero \in S
      /\ slot \in S /\ type \in S /\ show \in S /\ error \in S /\ intra \in S
      /\ reset \in S /\ sync \in S /\ space \in S /\ refresh \in S
      /\ rest \in S
  BY <1>4, FrameFields, BitIs, WrittenBits
<1>6. /\ <<1, 0>> = marker /\ <<1>> = one /\ <<0>> = zero
      /\ Flag(~f.key) = type /\ Flag(f.show) = show /\ Flag(f.error) = error
      /\ Flag(f.intra) = intra
  BY <1>4, OneBit
<1>18. marker \in S /\ low \in S /\ high \in S
  BY <1>5
<1>19. zero \in S /\ type \in S /\ show \in S /\ error \in S
  BY <1>5
<1>20. one \in S /\ slot \in S /\ rest \in S
  BY <1>5
<1>21. zero \in S /\ space \in S /\ one \in S
  BY <1>5
<1>22. sync \in S
  BY <1>5
<1>23. refresh \in S /\ rest \in S
  BY <1>5
<1>24. rest \in S
  BY <1>5
<1> DEFINE colour == IF f.profile = 0 THEN none ELSE (zero \o space) \o one
<1>7. ColorConfig(f) = colour /\ colour \in S
  BY <1>1, <1>3, <1>5 DEF ColorConfig
<1>8. Vp9Bits(f) = (((marker \o low) \o high)
        \o (IF f.existing THEN one \o slot
            ELSE (((zero \o type) \o show) \o error)
              \o (IF f.key THEN sync \o colour
                  ELSE (((IF f.show THEN none ELSE intra)
                    \o (IF f.error THEN none ELSE reset))
                    \o (IF f.intra /\ ~f.show THEN sync \o colour ELSE none))
                    \o refresh))) \o rest
  BY <1>6, <1>7 DEF Vp9Bits
<1> DEFINE t16 == (IF InterFrame(f) THEN refresh ELSE none) \o rest
           t15 == (IF Coloured(f) THEN one ELSE none) \o t16
           t14 == (IF Coloured(f) THEN space ELSE none) \o t15
           t13 == (IF Coloured(f) THEN zero ELSE none) \o t14
           t12 == (IF SyncedFrame(f) THEN sync ELSE none) \o t13
           t11 == (IF InterFrame(f) /\ ~f.error THEN reset ELSE none) \o t12
           t10 == (IF InterFrame(f) /\ ~f.show THEN intra ELSE none) \o t11
           t9 == (IF ~f.existing THEN error ELSE none) \o t10
           t8 == (IF ~f.existing THEN show ELSE none) \o t9
           t7 == (IF ~f.existing THEN type ELSE none) \o t8
           t6 == (IF f.existing THEN slot ELSE none) \o t7
           flag == IF f.existing THEN one ELSE zero
           t5 == flag \o t6
           t1 == marker \o (low \o (high \o t5))
<1>9. T1(f) = t1
  <2>1. /\ Bit(InterFrame(f)) = 1 <=> InterFrame(f)
        /\ Bit(Coloured(f)) = 1 <=> Coloured(f)
        /\ Bit(SyncedFrame(f)) = 1 <=> SyncedFrame(f)
        /\ Bit(InterFrame(f) /\ ~f.error) = 1 <=> InterFrame(f) /\ ~f.error
        /\ Bit(InterFrame(f) /\ ~f.show) = 1 <=> InterFrame(f) /\ ~f.show
        /\ Bit(~f.existing) = 1 <=> ~f.existing
        /\ Bit(f.existing) = 1 <=> f.existing
    BY <1>4 DEF Bit
  <2>16. T16(f) = t16
    BY <2>1 DEF T16, Field
  <2>15. T15(f) = t15
    BY <2>1, <2>16 DEF T15, Field
  <2>14. T14(f) = t14
    BY <2>1, <2>15 DEF T14, Field
  <2>13. T13(f) = t13
    BY <2>1, <2>14 DEF T13, Field
  <2>12. T12(f) = t12
    BY <2>1, <2>13 DEF T12, Field
  <2>11. T11(f) = t11
    BY <2>1, <2>12 DEF T11, Field
  <2>10. T10(f) = t10
    BY <2>1, <2>11 DEF T10, Field
  <2>9. T9(f) = t9
    BY <2>1, <2>10 DEF T9, Field
  <2>8. T8(f) = t8
    BY <2>1, <2>9 DEF T8, Field
  <2>7. T7(f) = t7
    BY <2>1, <2>8 DEF T7, Field
  <2>6. T6(f) = t6
    BY <2>1, <2>7 DEF T6, Field
  <2>5. T5(f) = flag \o T6(f)
    BY <1>4 DEF T5, Field, Bit
  <2>4. T4(f) = none \o T5(f)
    BY DEF T4, Field
  <2>3. T5(f) \in S
    BY TailTypes
  <2>2. T4(f) = T5(f)
    BY <1>3, <2>3, <2>4
  <2>17. T1(f) = marker \o (low \o (high \o T4(f)))
    BY DEF T1, T2, T3, Field
  <2> QED BY <2>2, <2>5, <2>6, <2>17, ZenonT(30)
<1> DEFINE head == (marker \o low) \o high
<1>10. /\ \A s \in S : marker \o (low \o (high \o s)) = head \o s
       /\ head \in S
  <2> HIDE DEF S, marker, low, high
  <2>1. head \in S /\ marker \o low \in S
    BY <1>1, <1>18, Zenon
  <2>2. ASSUME NEW s \in S PROVE marker \o (low \o (high \o s)) = head \o s
    <3>1. head \o s = (marker \o low) \o (high \o s)
      BY <1>2, <1>18, <2>1, ZenonT(30)
    <3>2. (marker \o low) \o (high \o s) = marker \o (low \o (high \o s))
      <4>1. high \o s \in S
        BY <1>1, <1>18
      <4> QED BY <1>2, <1>18, <4>1, Zenon
    <3> QED BY <3>1, <3>2
  <2> QED BY <2>1, <2>2
<1>11. ASSUME NEW c \in S, c = colour, NEW s \in S
       PROVE  (sync \o c) \o s = sync \o (c \o s)
  <2> HIDE DEF S, sync
  <2> QED BY <1>2, <1>22, Zenon
<1>12. /\ f.profile = 0 => t13 = t16
       /\ SyncedFrame(f) => t13 = colour \o t16
       /\ ~SyncedFrame(f) => t13 = t16
       /\ t16 \in S
  <2> HIDE DEF refresh, rest, one, space, zero, none, S
  <2>1. t16 \in S
    BY <1>1, <1>3, <1>5
  <2> HIDE DEF t16
  <2>2. ~Coloured(f) => t13 = t16
    BY <1>3, <2>1
  <2>3. ASSUME Coloured(f) PROVE t13 = zero \o (space \o (one \o t16))
    BY <2>3
  <2>4. ASSUME Coloured(f) PROVE t13 = colour \o t16
    <3>1. colour = (zero \o space) \o one
      BY <1>4, <2>4 DEF Coloured
    <3>2. zero \o (space \o (one \o t16)) = (zero \o space) \o (one \o t16)
      <4>1. one \o t16 \in S
        BY <1>1, <1>21, <2>1
      <4> QED BY <1>2, <1>21, <4>1, Zenon
    <3>3. (zero \o space) \o (one \o t16) = ((zero \o space) \o one) \o t16
      <4>1. zero \o space \in S
        BY <1>1, <1>21
      <4> QED BY <1>2, <1>21, <2>1, <4>1, Zenon
    <3> HIDE DEF t13, colour
    <3> QED BY <2>3, <2>4, <3>1, <3>2, <3>3, Zenon
  <2>5. f.profile = 0 => colour \o t16 = t16
    BY <1>3, <2>1
  <2> HIDE DEF t13, colour
  <2> QED BY <1>4, <2>1, <2>2, <2>4, <2>5 DEF Coloured
<1> DEFINE tail == IF SyncedFrame(f) THEN sync \o colour ELSE none
<1>13. t12 = tail \o t16 /\ tail \in S
  <2> HIDE DEF sync, colour, t16, none, S, t13
  <2>1. ASSUME SyncedFrame(f) PROVE (sync \o colour) \o t16 = t12
    <3>1. t12 = sync \o (colour \o t16)
      BY <1>12, <2>1
    <3>2. colour \in S /\ t16 \in S
      BY <1>7, <1>12
    <3> HIDE DEF t12
    <3> QED BY <1>2, <1>22, <3>1, <3>2, Zenon
  <2>2. CASE SyncedFrame(f)
    BY <1>1, <1>5, <1>7, <2>1, <2>2
  <2>3. CASE ~SyncedFrame(f)
    BY <1>3, <1>12, <2>3
  <2> QED BY <2>2, <2>3
<1> HIDE DEF t12
<1>14. CASE f.existing
  <2> HIDE DEF S, marker, low, high, one, zero, slot, type, show, error,
               intra, reset, sync, space, refresh, rest, none, colour
  <2>1. t16 = rest /\ tail = none /\ ~InterFrame(f)
    BY <1>3, <1>5, <1>14 DEF InterFrame, SyncedFrame
  <2>2. t12 = rest
    BY <1>3, <1>5, <1>13, <2>1
  <2>3. t11 = rest
    BY <1>3, <1>5, <2>1, <2>2
  <2>4. t10 = rest
    BY <1>3, <1>5, <2>1, <2>3
  <2> HIDE DEF t10
  <2>5. t7 = rest
    BY <1>3, <1>5, <1>14, <2>4
  <2> HIDE DEF t7
  <2>6. t5 = one \o (slot \o rest)
    BY <1>14, <2>5
  <2>7. Vp9Bits(f) = (head \o (one \o slot)) \o rest
    BY <1>8, <1>14
  <2> HIDE DEF t5, head
  <2>8. t1 = head \o (one \o (slot \o rest))
    BY <1>1, <1>5, <1>10, <2>6
  <2>9. (head \o (one \o slot)) \o rest = head \o ((one \o slot) \o rest)
    <3>1. head \in S /\ one \o slot \in S
      BY <1>1, <1>10, <1>20
    <3> QED BY <1>2, <1>24, <3>1, Zenon
  <2>10. (one \o slot) \o rest = one \o (slot \o rest)
    BY <1>2, <1>20, Zenon
  <2> QED BY <1>9, <2>7, <2>8, <2>9, <2>10
<1> DEFINE flags == ((zero \o type) \o show) \o error
<1>15. ASSUME ~f.existing
       PROVE  /\ flags \in S
              /\ \A s \in S : s = t10 => t1 = head \o (flags \o s)
  <2> HIDE DEF S, marker, low, high, one, zero, slot, type, show, error,
               intra, reset, sync, space, refresh, rest, none, colour
  <2>1. flags \in S /\ \A s \in S : flags \o s
                          = zero \o (type \o (show \o (error \o s)))
    <3>1. zero \o type \in S /\ (zero \o type) \o show \in S /\ flags \in S
      BY <1>1, <1>19
    <3>2. ASSUME NEW s \in S
          PROVE  flags \o s = zero \o (type \o (show \o (error \o s)))
      <4> DEFINE es == error \o s
                 ses == show \o es
                 zt == zero \o type
                 zts == zt \o show
      <4>4. es \in S
        BY <1>1, <1>19
      <4>5. ses \in S
        BY <1>1, <1>19, <4>4
      <4>6. zt \in S /\ zts \in S
        BY <3>1
      <4>7. /\ zero \in S /\ type \in S
        BY <1>19
      <4>8. show \in S
        BY <1>19
      <4>9. error \in S
        BY <1>19
      <4>1. flags \o s = ((zero \o type) \o show) \o (error \o s)
        <5>1. zts \in S
          BY <4>6
        <5> HIDE DEF zts
        <5>2. (zts \o error) \o s = zts \o (error \o s)
          BY <1>2, <4>9, <5>1, Zenon
        <5> QED BY <5>2 DEF zts
      <4>2. ((zero \o type) \o show) \o (error \o s)
              = (zero \o type) \o (show \o (error \o s))
        <5>1. zt \in S
          BY <4>6
        <5> HIDE DEF zt, es
        <5>2. (zt \o show) \o es = zt \o (show \o es)
          BY <1>2, <4>4, <4>8, <5>1, Zenon
        <5> QED BY <5>2 DEF zt, es
      <4>3. (zero \o type) \o (show \o (error \o s))
              = zero \o (type \o (show \o (error \o s)))
        <5> HIDE DEF ses
        <5>1. (zero \o type) \o ses = zero \o (type \o ses)
          BY <1>2, <4>5, <4>7, Zenon
        <5> QED BY <5>1 DEF ses
      <4> QED BY <4>1, <4>2, <4>3, Zenon
    <3> QED BY <3>1, <3>2, Zenon
  <2> SUFFICES ASSUME NEW s \in S, s = t10 PROVE t1 = head \o (flags \o s)
    BY <2>1
  <2> HIDE DEF t10, head
  <2>2. t7 = type \o (show \o (error \o s))
    BY <1>15
  <2>3. t7 \in S
    BY <1>1, <1>5, <2>2
  <2> HIDE DEF t7
  <2>4. t6 = t7
    BY <1>3, <1>15, <2>3
  <2>5. t5 = flags \o s
    BY <1>15, <2>1, <2>2, <2>4
  <2> HIDE DEF t5, flags
  <2> QED BY <1>1, <1>10, <2>1, <2>5
<1>16. CASE ~f.existing /\ f.key
  <2> HIDE DEF S, marker, low, high, one, zero, slot, type, show, error,
               intra, reset, sync, space, refresh, rest, none, colour
  <2>1. t16 = rest /\ tail = sync \o colour /\ ~InterFrame(f)
    BY <1>3, <1>5, <1>16 DEF InterFrame, SyncedFrame
  <2>2. t12 = tail \o rest /\ tail \o rest \in S
    BY <1>1, <1>3, <1>5, <1>13, <2>1
  <2>3. t11 = tail \o rest
    BY <1>3, <1>5, <2>1, <2>2
  <2>4. t10 = tail \o rest
    BY <1>3, <1>5, <2>1, <2>2, <2>3
  <2> HIDE DEF t10
  <2>7. Vp9Bits(f) = (head \o (flags \o (sync \o colour))) \o rest
    BY <1>8, <1>16
  <2>5. Vp9Bits(f) = (head \o (flags \o tail)) \o rest
    BY <2>1, <2>7
  <2> HIDE DEF head, flags, tail, t1
  <2>6. flags \in S /\ t1 = head \o (flags \o (tail \o rest))
    BY <1>15, <1>16, <2>2, <2>4
  <2>8. (head \o (flags \o tail)) \o rest = head \o ((flags \o tail) \o rest)
    <3>1. head \in S /\ flags \o tail \in S
      BY <1>1, <1>10, <1>13, <2>6
    <3> QED BY <1>2, <1>24, <3>1, Zenon
  <2>9. (flags \o tail) \o rest = flags \o (tail \o rest)
    <3>1. flags \in S /\ tail \in S
      BY <1>13, <2>6
    <3> QED BY <1>2, <1>24, <3>1, Zenon
  <2> QED BY <1>9, <2>5, <2>6, <2>8, <2>9
<1>17. CASE ~f.existing /\ ~f.key
  <2> HIDE DEF S, marker, low, high, one, zero, slot, type, show, error,
               intra, reset, sync, space, refresh, rest, none, colour
  <2> DEFINE i0 == IF f.show THEN none ELSE intra
             r0 == IF f.error THEN none ELSE reset
             u == ((i0 \o r0) \o tail) \o refresh
  <2>1. InterFrame(f) /\ (SyncedFrame(f) <=> f.intra /\ ~f.show)
    BY <1>4, <1>17 DEF InterFrame, SyncedFrame
  <2>2. t16 = refresh \o rest /\ t16 \in S
    BY <1>12, <2>1
  <2>3. i0 \in S /\ r0 \in S
    BY <1>3, <1>5
  <2>4. t10 = i0 \o (r0 \o (tail \o (refresh \o rest)))
    <3>1. t11 = r0 \o t12
      BY <2>1
    <3>2. t10 = i0 \o t11
      BY <2>1
    <3> HIDE DEF t11, t10, i0, r0, tail, t16
    <3> QED BY <1>13, <2>2, <3>1, <3>2
  <2>5. Vp9Bits(f) = (head \o (flags \o u)) \o rest
    BY <1>8, <1>17, <2>1
  <2> HIDE DEF head, flags, t1, t10, tail, i0, r0
  <2>6. u \in S /\ u \o rest = i0 \o (r0 \o (tail \o (refresh \o rest)))
    <3>1. (i0 \o r0) \o tail \in S
      BY <1>1, <1>13, <2>3
    <3>2. u \o rest = ((i0 \o r0) \o tail) \o (refresh \o rest)
      <4> DEFINE w == (i0 \o r0) \o tail
      <4>1. w \in S
        BY <3>1
      <4> HIDE DEF w
      <4>2. (w \o refresh) \o rest = w \o (refresh \o rest)
        BY <1>2, <1>23, <4>1, Zenon
      <4> QED BY <4>2 DEF w
    <3>3. refresh \o rest \in S /\ i0 \o r0 \in S
      BY <1>1, <1>5, <2>3
    <3>4. ((i0 \o r0) \o tail) \o (refresh \o rest)
            = (i0 \o r0) \o (tail \o (refresh \o rest))
      BY <1>2, <1>13, <3>3
    <3>5. tail \o (refresh \o rest) \in S
      BY <1>1, <1>13, <3>3
    <3>6. (i0 \o r0) \o (tail \o (refresh \o rest))
            = i0 \o (r0 \o (tail \o (refresh \o rest)))
      BY <1>2, <2>3, <3>5
    <3> QED BY <1>1, <1>5, <3>1, <3>2, <3>4, <3>6
  <2> HIDE DEF u
  <2>7. flags \in S /\ t1 = head \o (flags \o (u \o rest))
    BY <1>1, <1>5, <1>15, <1>17, <2>4, <2>6
  <2>8. (head \o (flags \o u)) \o rest = head \o ((flags \o u) \o rest)
    <3>1. head \in S /\ flags \o u \in S
      BY <1>1, <1>10, <2>6, <2>7
    <3> QED BY <1>2, <1>24, <3>1, Zenon
  <2>9. (flags \o u) \o rest = flags \o (u \o rest)
    <3>1. flags \in S /\ u \in S
      BY <2>6, <2>7
    <3> QED BY <1>2, <1>24, <3>1, Zenon
  <2> QED BY <1>9, <2>5, <2>7, <2>8, <2>9
<1> QED BY <1>4, <1>14, <1>16, <1>17


(* g is the run of read_elements over the first n elements.                *)
Vp9Reads(g, B, profile, n) ==
  /\ g[0] = Reader(B)
  /\ \A i \in 1 .. n : g[i] = Vp9Next(g[i - 1], FrameElements[i], profile)

(* What rk_vp9_parse_frame returns for the reader it ends with.            *)
Vp9Info(br, profile) ==
  LET existing == br.v.show_existing_frame = 1
  IN  IF profile \notin {0, 2} \/ ~br.ok THEN NoInfo
      ELSE [parsed                |-> TRUE,
            show_existing_frame   |-> existing,
            show_frame            |-> existing \/ br.v.show_frame = 1,
            frame_to_show_map_idx |-> br.v.frame_to_show_map_idx,
            refresh_frame_flags   |->
              IF ~existing /\ br.v.frame_type = 0 THEN 255
                                                  ELSE br.v.refresh_frame_flags]

(* The run of read_elements over the 16 elements exists.                   *)
LEMMA ReadingExists ==
  ASSUME NEW B, NEW profile
  PROVE  \E g : g = [i \in 0 .. 16 |-> g[i]] /\ Vp9Reads(g, B, profile, 16)
<1> DEFINE Whole(g) == g = [i \in 0 .. 16 |-> g[i]]
           P == {n \in 0 .. 16 :
                   \E g : Whole(g) /\ Vp9Reads(g, B, profile, n)}
<1>1. 0 \in P
  <2> DEFINE g == [i \in 0 .. 16 |-> Reader(B)]
  <2>1. Whole(g) /\ Vp9Reads(g, B, profile, 0)
    BY DEF Vp9Reads
  <2> HIDE DEF g, Whole
  <2> QED BY <2>1
<1>2. ASSUME NEW n \in 1 .. 16, n - 1 \in P PROVE n \in P
  <2>1. PICK g : Whole(g) /\ Vp9Reads(g, B, profile, n - 1)
    BY <1>2
  <2> DEFINE x == Vp9Next(g[n - 1], FrameElements[n], profile)
             h == [i \in 0 .. 16 |-> IF i = n THEN x ELSE g[i]]
  <2>2. \A i \in 0 .. 16 : h[i] = IF i = n THEN x ELSE g[i]
    OBVIOUS
  <2>3. Whole(h)
    OBVIOUS
  <2> HIDE DEF h
  <2>4. h[0] = Reader(B)
    BY <2>1, <2>2 DEF Vp9Reads
  <2>5. ASSUME NEW i \in 1 .. n
        PROVE  h[i] = Vp9Next(h[i - 1], FrameElements[i], profile)
    <3>1. h[i - 1] = g[i - 1]
      BY <2>2
    <3>2. CASE i = n
      BY <2>2, <3>1, <3>2
    <3>3. CASE i # n
      <4>1. i \in 1 .. (n - 1) /\ h[i] = g[i]
        BY <2>2, <3>3
      <4> QED BY <2>1, <3>1, <4>1 DEF Vp9Reads
    <3> QED BY <3>2, <3>3
  <2>6. Vp9Reads(h, B, profile, n)
    BY <2>4, <2>5 DEF Vp9Reads
  <2> HIDE DEF Whole
  <2> QED BY <2>3, <2>6
<1>3. P \in SUBSET Nat
  OBVIOUS
<1> HIDE DEF P
<1>4. 0 .. 16 \subseteq P
  BY <1>1, <1>2, <1>3, Induction
<1>5. 16 \in P
  BY <1>4
<1> QED BY <1>5 DEF P

(* rk_vp9_parse_frame is the run of read_elements.                         *)
LEMMA ParsedBy ==
  ASSUME NEW B, NEW profile
  PROVE  \E g : /\ Vp9Reads(g, B, profile, 16)
                /\ rk_vp9_parse_frame(B, profile) = Vp9Info(g[16], profile)
<1> DEFINE Def(f) == [i \in 0 .. 16 |->
                        IF i = 0 THEN Reader(B)
                        ELSE Vp9Next(f[i - 1], FrameElements[i], profile)]
           h == CHOOSE f : f = Def(f)
<1>1. PICK g : g = [i \in 0 .. 16 |-> g[i]] /\ Vp9Reads(g, B, profile, 16)
  BY ReadingExists
<1>2. g = Def(g)
  <2>1. \A i \in 0 .. 16 : g[i] = Def(g)[i]
    BY <1>1 DEF Vp9Reads
  <2> HIDE DEF Def
  <2>2. Def(g) = [i \in 0 .. 16 |-> Def(g)[i]]
    BY DEF Def
  <2> QED BY <1>1, <2>1, <2>2
<1>3. h = Def(h)
  BY <1>2
<1>4. Len(FrameElements) = 16
  BY DEF FrameElements
<1>5. rk_vp9_parse_frame(B, profile) = Vp9Info(h[16], profile)
  BY <1>4 DEF rk_vp9_parse_frame, Vp9Info, read_elements, Vp9Next
<1> HIDE DEF h
<1>6. Vp9Reads(h, B, profile, 16)
  BY <1>3 DEF Vp9Reads
<1> QED BY <1>5, <1>6


(* Field by field: is it in the header of f, and with which value and      *)
(* width; what is left of the header in front of it.                       *)
Present(f) ==
  <<1, 1, 1, 0, 1, Bit(f.existing), Bit(~f.existing), Bit(~f.existing),
    Bit(~f.existing), Bit(InterFrame(f) /\ ~f.show),
    Bit(InterFrame(f) /\ ~f.error), Bit(SyncedFrame(f)), Bit(Coloured(f)),
    Bit(Coloured(f)), Bit(Coloured(f)), Bit(InterFrame(f))>>

Content(f) ==
  <<2, f.profile % 2, f.profile \div 2, 0, Bit(f.existing), f.slot,
    Bit(~f.key), Bit(f.show), Bit(f.error), Bit(f.intra), f.reset, SyncCode,
    0, f.space, 1, f.refresh>>

Width == <<2, 1, 1, 1, 1, 3, 1, 1, 1, 1, 2, 24, 1, 3, 1, 8>>

Remaining(f) ==
  <<T1(f), T2(f), T3(f), T4(f), T5(f), T6(f), T7(f), T8(f), T9(f),
    T10(f), T11(f), T12(f), T13(f), T14(f), T15(f), T16(f), f.rest>>

(* What the parser records for the n-th element: 0 if it is not there.     *)
Learnt(f, n) == Value0(Present(f)[n], Content(f)[n])

(* The parser recorded the first n elements of the header of f.            *)
Knows(v, f, n) ==
  \A i \in 1 .. n : /\ FrameElements[i] \in DOMAIN v
                    /\ v[FrameElements[i]] = Learnt(f, i)

(* The elements one by one.                                                *)
LEMMA Numbered ==
  \A n \in 1 .. 16 : \/ n = 1 \/ n = 2 \/ n = 3 \/ n = 4 \/ n = 5 \/ n = 6
                     \/ n = 7 \/ n = 8 \/ n = 9 \/ n = 10 \/ n = 11
                     \/ n = 12 \/ n = 13 \/ n = 14 \/ n = 15 \/ n = 16
OBVIOUS

(* The elements of vp9.c in their order.                                   *)
LEMMA ElementNames ==
  /\ FrameElements[1] = "frame_marker"
  /\ FrameElements[2] = "profile_low_bit"
  /\ FrameElements[3] = "profile_high_bit"
  /\ FrameElements[4] = "reserved_zero"
  /\ FrameElements[5] = "show_existing_frame"
  /\ FrameElements[6] = "frame_to_show_map_idx"
  /\ FrameElements[7] = "frame_type"
  /\ FrameElements[8] = "show_frame"
  /\ FrameElements[9] = "error_resilient_mode"
  /\ FrameElements[10] = "intra_only"
  /\ FrameElements[11] = "reset_frame_context"
  /\ FrameElements[12] = "frame_sync_code"
  /\ FrameElements[13] = "high_bit_depth"
  /\ FrameElements[14] = "color_space"
  /\ FrameElements[15] = "color_range"
  /\ FrameElements[16] = "refresh_frame_flags"
BY DEF FrameElements

(* No element is recorded twice.                                           *)
LEMMA ElementsDiffer ==
  ASSUME NEW n \in 1 .. 16, NEW i \in 1 .. (n - 1)
  PROVE  FrameElements[i] # FrameElements[n]
<1>1. CASE n = 1
  BY <1>1, ElementNames
<1>2. CASE n = 2
  BY <1>2, ElementNames
<1>3. CASE n = 3
  BY <1>3, ElementNames
<1>4. CASE n = 4
  BY <1>4, ElementNames
<1>5. CASE n = 5
  BY <1>5, ElementNames
<1>6. CASE n = 6
  BY <1>6, ElementNames
<1>7. CASE n = 7
  BY <1>7, ElementNames
<1>8. CASE n = 8
  BY <1>8, ElementNames
<1>9. CASE n = 9
  BY <1>9, ElementNames
<1>10. CASE n = 10
  BY <1>10, ElementNames
<1>11. CASE n = 11
  BY <1>11, ElementNames
<1>12. CASE n = 12
  BY <1>12, ElementNames
<1>13. CASE n = 13
  BY <1>13, ElementNames
<1>14. CASE n = 14
  BY <1>14, ElementNames
<1>15. CASE n = 15
  BY <1>15, ElementNames
<1>16. CASE n = 16
  BY <1>16, ElementNames
<1> QED BY Numbered, <1>1, <1>2, <1>3, <1>4, <1>5, <1>6, <1>7, <1>8,
           <1>9, <1>10, <1>11, <1>12, <1>13, <1>14, <1>15, <1>16

(* Recording the next element loses none of the earlier ones.              *)
LEMMA Learned ==
  ASSUME NEW f, NEW v, NEW n \in 1 .. 16, Knows(v, f, n - 1)
  PROVE  Knows(Put(v, FrameElements[n], Learnt(f, n)), f, n)
<1> DEFINE e == FrameElements[n]
           x == Learnt(f, n)
<1>1. DOMAIN Put(v, e, x) = DOMAIN v \cup {e}
  BY DEF Put
<1>2. Put(v, e, x)[e] = x
  BY DEF Put
<1>3. \A d \in DOMAIN v : d # e => Put(v, e, x)[d] = v[d]
  BY DEF Put
<1> SUFFICES ASSUME NEW i \in 1 .. n
             PROVE  /\ FrameElements[i] \in DOMAIN Put(v, e, x)
                    /\ Put(v, e, x)[FrameElements[i]] = Learnt(f, i)
  BY DEF Knows
<1>4. CASE i = n
  BY <1>1, <1>2, <1>4
<1>5. CASE i # n
  <2>1. i \in 1 .. (n - 1)
    BY <1>5
  <2>2. FrameElements[i] # e
    BY <2>1, ElementsDiffer
  <2> QED BY <1>1, <1>3, <2>1, <2>2 DEF Knows
<1> QED BY <1>4, <1>5

(* Each field fits its width and stands in front of the next remainder.    *)
LEMMA FieldsFit ==
  ASSUME NEW f \in Vp9Legal, NEW n \in 1 .. 16
  PROVE  /\ Present(f)[n] \in {0, 1} /\ Fits(Content(f)[n], Width[n])
         /\ Remaining(f)[n] = Field(Present(f)[n], Content(f)[n], Width[n])
                           \o Remaining(f)[n + 1]
         /\ Remaining(f)[n + 1] \in Seq(BitValues)
<1> DEFINE Goal(k) ==
             /\ Present(f)[k] \in {0, 1} /\ Fits(Content(f)[k], Width[k])
             /\ Remaining(f)[k] = Field(Present(f)[k], Content(f)[k], Width[k])
                               \o Remaining(f)[k + 1]
             /\ Remaining(f)[k + 1] \in Seq(BitValues)
<1>30. /\ Fits(Bit(f.intra), 1) /\ Fits(Bit(f.error), 1)
       /\ Fits(Bit(f.show), 1) /\ Fits(Bit(~f.key), 1)
       /\ Fits(Bit(f.existing), 1)
  BY FrameFields, BitIs
<1>31. \A b : Bit(b) \in {0, 1}
  BY DEF Bit
<1>1. Goal(1)
  <2>1. /\ Present(f)[1] = 1
        /\ Content(f)[1] = 2
        /\ Width[1] = 2
    BY DEF Present, Content, Width
  <2>2. Remaining(f)[1] = T1(f) /\ Remaining(f)[1 + 1] = T2(f)
    BY DEF Remaining
  <2>3. T1(f) = Field(1,
                      2, 2) \o T2(f)
    BY DEF T1
  <2> QED BY <1>30, <1>31, <2>1, <2>2, <2>3, FrameFields, TailTypes
<1>2. Goal(2)
  <2>1. /\ Present(f)[2] = 1
        /\ Content(f)[2] = f.profile % 2
        /\ Width[2] = 1
    BY DEF Present, Content, Width
  <2>2. Remaining(f)[2] = T2(f) /\ Remaining(f)[2 + 1] = T3(f)
    BY DEF Remaining
  <2>3. T2(f) = Field(1,
                      f.profile % 2, 1) \o T3(f)
    BY DEF T2
  <2> QED BY <1>30, <1>31, <2>1, <2>2, <2>3, FrameFields, TailTypes
<1>3. Goal(3)
  <2>1. /\ Present(f)[3] = 1
        /\ Content(f)[3] = f.profile \div 2
        /\ Width[3] = 1
    BY DEF Present, Content, Width
  <2>2. Remaining(f)[3] = T3(f) /\ Remaining(f)[3 + 1] = T4(f)
    BY DEF Remaining
  <2>3. T3(f) = Field(1,
                      f.profile \div 2, 1) \o T4(f)
    BY DEF T3
  <2> QED BY <1>30, <1>31, <2>1, <2>2, <2>3, FrameFields, TailTypes
<1>4. Goal(4)
  <2>1. /\ Present(f)[4] = 0
        /\ Content(f)[4] = 0
        /\ Width[4] = 1
    BY DEF Present, Content, Width
  <2>2. Remaining(f)[4] = T4(f) /\ Remaining(f)[4 + 1] = T5(f)
    BY DEF Remaining
  <2>3. T4(f) = Field(0,
                      0, 1) \o T5(f)
    BY DEF T4
  <2> QED BY <1>30, <1>31, <2>1, <2>2, <2>3, FrameFields, TailTypes
<1>5. Goal(5)
  <2>1. /\ Present(f)[5] = 1
        /\ Content(f)[5] = Bit(f.existing)
        /\ Width[5] = 1
    BY DEF Present, Content, Width
  <2>2. Remaining(f)[5] = T5(f) /\ Remaining(f)[5 + 1] = T6(f)
    BY DEF Remaining
  <2>3. T5(f) = Field(1,
                      Bit(f.existing), 1) \o T6(f)
    BY DEF T5
  <2> QED BY <1>30, <1>31, <2>1, <2>2, <2>3, FrameFields, TailTypes
<1>6. Goal(6)
  <2>1. /\ Present(f)[6] = Bit(f.existing)
        /\ Content(f)[6] = f.slot
        /\ Width[6] = 3
    BY DEF Present, Content, Width
  <2>2. Remaining(f)[6] = T6(f) /\ Remaining(f)[6 + 1] = T7(f)
    BY DEF Remaining
  <2>3. T6(f) = Field(Bit(f.existing),
                      f.slot, 3) \o T7(f)
    BY DEF T6
  <2> QED BY <1>30, <1>31, <2>1, <2>2, <2>3, FrameFields, TailTypes
<1>7. Goal(7)
  <2>1. /\ Present(f)[7] = Bit(~f.existing)
        /\ Content(f)[7] = Bit(~f.key)
        /\ Width[7] = 1
    BY DEF Present, Content, Width
  <2>2. Remaining(f)[7] = T7(f) /\ Remaining(f)[7 + 1] = T8(f)
    BY DEF Remaining
  <2>3. T7(f) = Field(Bit(~f.existing),
                      Bit(~f.key), 1) \o T8(f)
    BY DEF T7
  <2> QED BY <1>30, <1>31, <2>1, <2>2, <2>3, FrameFields, TailTypes
<1>8. Goal(8)
  <2>1. /\ Present(f)[8] = Bit(~f.existing)
        /\ Content(f)[8] = Bit(f.show)
        /\ Width[8] = 1
    BY DEF Present, Content, Width
  <2>2. Remaining(f)[8] = T8(f) /\ Remaining(f)[8 + 1] = T9(f)
    BY DEF Remaining
  <2>3. T8(f) = Field(Bit(~f.existing),
                      Bit(f.show), 1) \o T9(f)
    BY DEF T8
  <2> QED BY <1>30, <1>31, <2>1, <2>2, <2>3, FrameFields, TailTypes
<1>9. Goal(9)
  <2>1. /\ Present(f)[9] = Bit(~f.existing)
        /\ Content(f)[9] = Bit(f.error)
        /\ Width[9] = 1
    BY DEF Present, Content, Width
  <2>2. Remaining(f)[9] = T9(f) /\ Remaining(f)[9 + 1] = T10(f)
    BY DEF Remaining
  <2>3. T9(f) = Field(Bit(~f.existing),
                      Bit(f.error), 1) \o T10(f)
    BY DEF T9
  <2> QED BY <1>30, <1>31, <2>1, <2>2, <2>3, FrameFields, TailTypes
<1>10. Goal(10)
  <2>1. /\ Present(f)[10] = Bit(InterFrame(f) /\ ~f.show)
        /\ Content(f)[10] = Bit(f.intra)
        /\ Width[10] = 1
    BY DEF Present, Content, Width
  <2>2. Remaining(f)[10] = T10(f) /\ Remaining(f)[10 + 1] = T11(f)
    BY DEF Remaining
  <2>3. T10(f) = Field(Bit(InterFrame(f) /\ ~f.show),
                      Bit(f.intra), 1) \o T11(f)
    BY DEF T10
  <2> QED BY <1>30, <1>31, <2>1, <2>2, <2>3, FrameFields, TailTypes
<1>11. Goal(11)
  <2>1. /\ Present(f)[11] = Bit(InterFrame(f) /\ ~f.error)
        /\ Content(f)[11] = f.reset
        /\ Width[11] = 2
    BY DEF Present, Content, Width
  <2>2. Remaining(f)[11] = T11(f) /\ Remaining(f)[11 + 1] = T12(f)
    BY DEF Remaining
  <2>3. T11(f) = Field(Bit(InterFrame(f) /\ ~f.error),
                      f.reset, 2) \o T12(f)
    BY DEF T11
  <2> QED BY <1>30, <1>31, <2>1, <2>2, <2>3, FrameFields, TailTypes
<1>12. Goal(12)
  <2>1. /\ Present(f)[12] = Bit(SyncedFrame(f))
        /\ Content(f)[12] = SyncCode
        /\ Width[12] = 24
    BY DEF Present, Content, Width
  <2>2. Remaining(f)[12] = T12(f) /\ Remaining(f)[12 + 1] = T13(f)
    BY DEF Remaining
  <2>3. T12(f) = Field(Bit(SyncedFrame(f)),
                      SyncCode, 24) \o T13(f)
    BY DEF T12
  <2> QED BY <1>30, <1>31, <2>1, <2>2, <2>3, FrameFields, TailTypes
<1>13. Goal(13)
  <2>1. /\ Present(f)[13] = Bit(Coloured(f))
        /\ Content(f)[13] = 0
        /\ Width[13] = 1
    BY DEF Present, Content, Width
  <2>2. Remaining(f)[13] = T13(f) /\ Remaining(f)[13 + 1] = T14(f)
    BY DEF Remaining
  <2>3. T13(f) = Field(Bit(Coloured(f)),
                      0, 1) \o T14(f)
    BY DEF T13
  <2> QED BY <1>30, <1>31, <2>1, <2>2, <2>3, FrameFields, TailTypes
<1>14. Goal(14)
  <2>1. /\ Present(f)[14] = Bit(Coloured(f))
        /\ Content(f)[14] = f.space
        /\ Width[14] = 3
    BY DEF Present, Content, Width
  <2>2. Remaining(f)[14] = T14(f) /\ Remaining(f)[14 + 1] = T15(f)
    BY DEF Remaining
  <2>3. T14(f) = Field(Bit(Coloured(f)),
                      f.space, 3) \o T15(f)
    BY DEF T14
  <2> QED BY <1>30, <1>31, <2>1, <2>2, <2>3, FrameFields, TailTypes
<1>15. Goal(15)
  <2>1. /\ Present(f)[15] = Bit(Coloured(f))
        /\ Content(f)[15] = 1
        /\ Width[15] = 1
    BY DEF Present, Content, Width
  <2>2. Remaining(f)[15] = T15(f) /\ Remaining(f)[15 + 1] = T16(f)
    BY DEF Remaining
  <2>3. T15(f) = Field(Bit(Coloured(f)),
                      1, 1) \o T16(f)
    BY DEF T15
  <2> QED BY <1>30, <1>31, <2>1, <2>2, <2>3, FrameFields, TailTypes
<1>16. Goal(16)
  <2>1. /\ Present(f)[16] = Bit(InterFrame(f))
        /\ Content(f)[16] = f.refresh
        /\ Width[16] = 8
    BY DEF Present, Content, Width
  <2>2. Remaining(f)[16] = T16(f) /\ Remaining(f)[16 + 1] = f.rest
    BY DEF Remaining
  <2>3. T16(f) = Field(Bit(InterFrame(f)),
                      f.refresh, 8) \o f.rest
    BY DEF T16
  <2> QED BY <1>30, <1>31, <2>1, <2>2, <2>3, FrameFields, TailTypes
<1> HIDE DEF Goal
<1>40. Goal(n)
  BY Numbered, <1>1, <1>2, <1>3, <1>4, <1>5, <1>6, <1>7, <1>8,
           <1>9, <1>10, <1>11, <1>12, <1>13, <1>14, <1>15, <1>16
<1> QED BY <1>40 DEF Goal


(* The conditions of vp9.c, evaluated on the recorded values, are the      *)
(* conditions under which the standard wrote the fields.                   *)
LEMMA KnownFields ==
  ASSUME NEW f \in Vp9Legal, NEW v, NEW n \in 0 .. 16, Knows(v, f, n)
  PROVE  /\ n >= 3 => Profile(v) = f.profile
         /\ n >= 5 => v.show_existing_frame = Bit(f.existing)
         /\ n >= 7 => (Inter(v) <=> InterFrame(f))
         /\ n >= 8 => (~f.existing => v.show_frame = Bit(f.show))
         /\ n >= 9 => (~f.existing => v.error_resilient_mode = Bit(f.error))
         /\ n >= 10 => (Synced(v) <=> SyncedFrame(f))
<1>1. /\ f.profile \in {0, 2} /\ f.existing \in BOOLEAN
      /\ f.key \in BOOLEAN /\ f.show \in BOOLEAN /\ f.error \in BOOLEAN
      /\ f.intra \in BOOLEAN
  BY FrameFields
<1>2. n >= 3 => Profile(v) = f.profile
  <2> SUFFICES ASSUME n >= 3 PROVE Profile(v) = f.profile
    OBVIOUS
  <2>1. v.profile_low_bit = Learnt(f, 2) /\ v.profile_high_bit = Learnt(f, 3)
    BY ElementNames DEF Knows
  <2>2. Learnt(f, 2) = f.profile % 2 /\ Learnt(f, 3) = f.profile \div 2
    BY DEF Learnt, Present, Content, Value0
  <2> QED BY <1>1, <2>1, <2>2 DEF Profile
<1>3. n >= 5 => v.show_existing_frame = Bit(f.existing)
  <2> SUFFICES ASSUME n >= 5 PROVE v.show_existing_frame = Bit(f.existing)
    OBVIOUS
  <2>1. v.show_existing_frame = Learnt(f, 5)
    BY ElementNames DEF Knows
  <2>2. Learnt(f, 5) = Bit(f.existing)
    BY DEF Learnt, Present, Content, Value0
  <2> QED BY <2>1, <2>2
<1>4. n >= 7 => (~f.existing => v.frame_type = Bit(~f.key))
  <2> SUFFICES ASSUME n >= 7, ~f.existing PROVE v.frame_type = Bit(~f.key)
    OBVIOUS
  <2>1. v.frame_type = Learnt(f, 7)
    BY ElementNames DEF Knows
  <2>2. Learnt(f, 7) = Bit(~f.key)
    BY DEF Learnt, Present, Content, Value0, Bit
  <2> QED BY <2>1, <2>2
<1>5. n >= 8 => (~f.existing => v.show_frame = Bit(f.show))
  <2> SUFFICES ASSUME n >= 8, ~f.existing PROVE v.show_frame = Bit(f.show)
    OBVIOUS
  <2>1. v.show_frame = Learnt(f, 8)
    BY ElementNames DEF Knows
  <2>2. Learnt(f, 8) = Bit(f.show)
    BY DEF Learnt, Present, Content, Value0, Bit
  <2> QED BY <2>1, <2>2
<1>6. n >= 9 => (~f.existing => v.error_resilient_mode = Bit(f.error))
  <2> SUFFICES ASSUME n >= 9, ~f.existing
               PROVE  v.error_resilient_mode = Bit(f.error)
    OBVIOUS
  <2>1. v.error_resilient_mode = Learnt(f, 9)
    BY ElementNames DEF Knows
  <2>2. Learnt(f, 9) = Bit(f.error)
    BY DEF Learnt, Present, Content, Value0, Bit
  <2> QED BY <2>1, <2>2
<1>7. n >= 7 => (Inter(v) <=> InterFrame(f))
  BY <1>1, <1>3, <1>4 DEF Inter, InterFrame, Bit
<1>8. n >= 10 => (Synced(v) <=> SyncedFrame(f))
  <2> SUFFICES ASSUME n >= 10 PROVE Synced(v) <=> SyncedFrame(f)
    OBVIOUS
  <2>1. v.intra_only = Learnt(f, 10)
    BY ElementNames DEF Knows
  <2>2. Learnt(f, 10) = Value0(Bit(InterFrame(f) /\ ~f.show), Bit(f.intra))
    BY DEF Learnt, Present, Content
  <2>3. v.intra_only = 1 <=> InterFrame(f) /\ ~f.show /\ f.intra
    BY <1>1, <2>1, <2>2 DEF Value0, Bit, InterFrame
  <2>4. v.show_existing_frame = 0 <=> ~f.existing
    BY <1>1, <1>3 DEF Bit
  <2>5. ~f.existing => (v.frame_type = 0 <=> f.key)
    BY <1>1, <1>4 DEF Bit
  <2> QED BY <1>1, <2>3, <2>4, <2>5 DEF Synced, SyncedFrame, InterFrame
<1> QED BY <1>2, <1>3, <1>5, <1>6, <1>7, <1>8

(* So every element is read with the width it was written with, and        *)
(* skipped if it was not written: one case per element.                    *)
LEMMA CodedAsWritten ==
  ASSUME NEW f \in Vp9Legal, NEW v, NEW n \in 1 .. 16, Knows(v, f, n - 1)
  PROVE  Vp9Coding(FrameElements[n], v) = Coded(Present(f)[n], Width[n])
<1>20. /\ f.profile \in {0, 2} /\ f.existing \in BOOLEAN
       /\ f.key \in BOOLEAN /\ f.show \in BOOLEAN /\ f.error \in BOOLEAN
       /\ f.intra \in BOOLEAN
  BY FrameFields
<1>21. n - 1 \in 0 .. 16
  OBVIOUS
<1>1. CASE n = 1
  <2>1. FrameElements[n] = "frame_marker"
    BY <1>1, ElementNames
  <2>2. Present(f)[n] = 1 /\ Width[n] = 2
    BY <1>1 DEF Present, Width
  <2>3. Vp9Coding(FrameElements[n], v) = Fixed(2)
    BY <2>1 DEF Vp9Coding
  <2> QED BY <2>2, <2>3 DEF Coded
<1>2. CASE n = 2
  <2>1. FrameElements[n] = "profile_low_bit"
    BY <1>2, ElementNames
  <2>2. Present(f)[n] = 1 /\ Width[n] = 1
    BY <1>2 DEF Present, Width
  <2>3. Vp9Coding(FrameElements[n], v) = Fixed(1)
    BY <2>1 DEF Vp9Coding
  <2> QED BY <2>2, <2>3 DEF Coded
<1>3. CASE n = 3
  <2>1. FrameElements[n] = "profile_high_bit"
    BY <1>3, ElementNames
  <2>2. Present(f)[n] = 1 /\ Width[n] = 1
    BY <1>3 DEF Present, Width
  <2>3. Vp9Coding(FrameElements[n], v) = Fixed(1)
    BY <2>1 DEF Vp9Coding
  <2> QED BY <2>2, <2>3 DEF Coded
<1>4. CASE n = 4
  <2>1. FrameElements[n] = "reserved_zero"
    BY <1>4, ElementNames
  <2>2. Present(f)[n] = 0 /\ Width[n] = 1
    BY <1>4 DEF Present, Width
  <2>3. Vp9Coding(FrameElements[n], v) = If(Profile(v) = 3, Fixed(1))
    BY <2>1 DEF Vp9Coding
  <2>4. (Profile(v) = 3) <=> FALSE
    BY <1>20, <1>21, <1>4, KnownFields DEF Bit, Coloured, InterFrame
  <2> QED BY <2>2, <2>3, <2>4 DEF Coded, If, Bit
<1>5. CASE n = 5
  <2>1. FrameElements[n] = "show_existing_frame"
    BY <1>5, ElementNames
  <2>2. Present(f)[n] = 1 /\ Width[n] = 1
    BY <1>5 DEF Present, Width
  <2>3. Vp9Coding(FrameElements[n], v) = Fixed(1)
    BY <2>1 DEF Vp9Coding
  <2> QED BY <2>2, <2>3 DEF Coded
<1>6. CASE n = 6
  <2>1. FrameElements[n] = "frame_to_show_map_idx"
    BY <1>6, ElementNames
  <2>2. Present(f)[n] = Bit(f.existing) /\ Width[n] = 3
    BY <1>6 DEF Present, Width
  <2>3. Vp9Coding(FrameElements[n], v) = If(v.show_existing_frame = 1,
                                               Fixed(3))
    BY <2>1 DEF Vp9Coding
  <2>4. (v.show_existing_frame = 1) <=> f.existing
    BY <1>20, <1>21, <1>6, KnownFields DEF Bit, Coloured, InterFrame
  <2> QED BY <2>2, <2>3, <2>4 DEF Coded, If, Bit
<1>7. CASE n = 7
  <2>1. FrameElements[n] = "frame_type"
    BY <1>7, ElementNames
  <2>2. Present(f)[n] = Bit(~f.existing) /\ Width[n] = 1
    BY <1>7 DEF Present, Width
  <2>3. Vp9Coding(FrameElements[n], v) = If(v.show_existing_frame = 0,
                                               Fixed(1))
    BY <2>1 DEF Vp9Coding
  <2>4. (v.show_existing_frame = 0) <=> ~f.existing
    BY <1>20, <1>21, <1>7, KnownFields DEF Bit, Coloured, InterFrame
  <2> QED BY <2>2, <2>3, <2>4 DEF Coded, If, Bit
<1>8. CASE n = 8
  <2>1. FrameElements[n] = "show_frame"
    BY <1>8, ElementNames
  <2>2. Present(f)[n] = Bit(~f.existing) /\ Width[n] = 1
    BY <1>8 DEF Present, Width
  <2>3. Vp9Coding(FrameElements[n], v) = If(v.show_existing_frame = 0,
                                               Fixed(1))
    BY <2>1 DEF Vp9Coding
  <2>4. (v.show_existing_frame = 0) <=> ~f.existing
    BY <1>20, <1>21, <1>8, KnownFields DEF Bit, Coloured, InterFrame
  <2> QED BY <2>2, <2>3, <2>4 DEF Coded, If, Bit
<1>9. CASE n = 9
  <2>1. FrameElements[n] = "error_resilient_mode"
    BY <1>9, ElementNames
  <2>2. Present(f)[n] = Bit(~f.existing) /\ Width[n] = 1
    BY <1>9 DEF Present, Width
  <2>3. Vp9Coding(FrameElements[n], v) = If(v.show_existing_frame = 0,
                                               Fixed(1))
    BY <2>1 DEF Vp9Coding
  <2>4. (v.show_existing_frame = 0) <=> ~f.existing
    BY <1>20, <1>21, <1>9, KnownFields DEF Bit, Coloured, InterFrame
  <2> QED BY <2>2, <2>3, <2>4 DEF Coded, If, Bit
<1>10. CASE n = 10
  <2>1. FrameElements[n] = "intra_only"
    BY <1>10, ElementNames
  <2>2. Present(f)[n] = Bit(InterFrame(f) /\ ~f.show) /\ Width[n] = 1
    BY <1>10 DEF Present, Width
  <2>3. Vp9Coding(FrameElements[n], v) = If(Inter(v) /\ v.show_frame = 0,
                                               Fixed(1))
    BY <2>1 DEF Vp9Coding
  <2>4. (Inter(v) /\ v.show_frame = 0) <=> InterFrame(f) /\ ~f.show
    BY <1>20, <1>21, <1>10, KnownFields DEF Bit, Coloured, InterFrame
  <2> QED BY <2>2, <2>3, <2>4 DEF Coded, If, Bit
<1>11. CASE n = 11
  <2>1. FrameElements[n] = "reset_frame_context"
    BY <1>11, ElementNames
  <2>2. Present(f)[n] = Bit(InterFrame(f) /\ ~f.error) /\ Width[n] = 2
    BY <1>11 DEF Present, Width
  <2>3. Vp9Coding(FrameElements[n], v) = If(Inter(v) /\ v.error_resilient_mode = 0,
                                               Fixed(2))
    BY <2>1 DEF Vp9Coding, reset_bits
  <2>4. (Inter(v) /\ v.error_resilient_mode = 0) <=> InterFrame(f) /\ ~f.error
    BY <1>20, <1>21, <1>11, KnownFields DEF Bit, Coloured, InterFrame
  <2> QED BY <2>2, <2>3, <2>4 DEF Coded, If, Bit
<1>12. CASE n = 12
  <2>1. FrameElements[n] = "frame_sync_code"
    BY <1>12, ElementNames
  <2>2. Present(f)[n] = Bit(SyncedFrame(f)) /\ Width[n] = 24
    BY <1>12 DEF Present, Width
  <2>3. Vp9Coding(FrameElements[n], v) = If(Synced(v), Fixed(24))
    BY <2>1 DEF Vp9Coding
  <2>4. (Synced(v)) <=> SyncedFrame(f)
    BY <1>20, <1>21, <1>12, KnownFields DEF Bit, Coloured, InterFrame
  <2> QED BY <2>2, <2>3, <2>4 DEF Coded, If, Bit
<1>13. CASE n = 13
  <2>1. FrameElements[n] = "high_bit_depth"
    BY <1>13, ElementNames
  <2>2. Present(f)[n] = Bit(Coloured(f)) /\ Width[n] = 1
    BY <1>13 DEF Present, Width
  <2>3. Vp9Coding(FrameElements[n], v) = If(Synced(v) /\ Profile(v) >= 2,
                                               Fixed(1))
    BY <2>1 DEF Vp9Coding
  <2>4. (Synced(v) /\ Profile(v) >= 2) <=> Coloured(f)
    BY <1>20, <1>21, <1>13, KnownFields DEF Bit, Coloured, InterFrame
  <2> QED BY <2>2, <2>3, <2>4 DEF Coded, If, Bit
<1>14. CASE n = 14
  <2>1. FrameElements[n] = "color_space"
    BY <1>14, ElementNames
  <2>2. Present(f)[n] = Bit(Coloured(f)) /\ Width[n] = 3
    BY <1>14 DEF Present, Width
  <2>3. Vp9Coding(FrameElements[n], v) = If(Synced(v) /\ Profile(v) > 0,
                                               Fixed(3))
    BY <2>1 DEF Vp9Coding
  <2>4. (Synced(v) /\ Profile(v) > 0) <=> Coloured(f)
    BY <1>20, <1>21, <1>14, KnownFields DEF Bit, Coloured, InterFrame
  <2> QED BY <2>2, <2>3, <2>4 DEF Coded, If, Bit
<1>15. CASE n = 15
  <2>1. FrameElements[n] = "color_range"
    BY <1>15, ElementNames
  <2>2. Present(f)[n] = Bit(Coloured(f)) /\ Width[n] = 1
    BY <1>15 DEF Present, Width
  <2>3. Vp9Coding(FrameElements[n], v) = If(Synced(v) /\ Profile(v) > 0,
                                               Fixed(1))
    BY <2>1 DEF Vp9Coding
  <2>4. (Synced(v) /\ Profile(v) > 0) <=> Coloured(f)
    BY <1>20, <1>21, <1>15, KnownFields DEF Bit, Coloured, InterFrame
  <2> QED BY <2>2, <2>3, <2>4 DEF Coded, If, Bit
<1>16. CASE n = 16
  <2>1. FrameElements[n] = "refresh_frame_flags"
    BY <1>16, ElementNames
  <2>2. Present(f)[n] = Bit(InterFrame(f)) /\ Width[n] = 8
    BY <1>16 DEF Present, Width
  <2>3. Vp9Coding(FrameElements[n], v) = If(Inter(v), Fixed(8))
    BY <2>1 DEF Vp9Coding
  <2>4. (Inter(v)) <=> InterFrame(f)
    BY <1>20, <1>21, <1>16, KnownFields DEF Bit, Coloured, InterFrame
  <2> QED BY <2>2, <2>3, <2>4 DEF Coded, If, Bit
<1> QED BY Numbered, <1>1, <1>2, <1>3, <1>4, <1>5, <1>6, <1>7, <1>8,
           <1>9, <1>10, <1>11, <1>12, <1>13, <1>14, <1>15, <1>16

(* The parser rejects no value of a legal frame.                           *)
LEMMA AcceptedAsWritten ==
  ASSUME NEW f \in Vp9Legal, NEW v, NEW n \in 1 .. 16, Knows(v, f, n)
  PROVE  Vp9Accepts(FrameElements[n], v, f.profile)
<1>20. v[FrameElements[n]] = Learnt(f, n)
  BY DEF Knows
<1>21. n \in 0 .. 16
  OBVIOUS
<1>1. CASE n = 1
  <2>1. FrameElements[n] = "frame_marker"
    BY <1>1, ElementNames
  <2>2. Learnt(f, 1) = 2
    BY FrameFields DEF Learnt, Present, Content, Value0, Bit, Fits, Vp9Legal
  <2> QED BY <1>20, <1>21, <1>1, <2>1, <2>2, KnownFields DEF Vp9Accepts
<1>2. CASE n = 2
  <2>1. FrameElements[n] = "profile_low_bit"
    BY <1>2, ElementNames
  <2> QED BY <2>1 DEF Vp9Accepts
<1>3. CASE n = 3
  <2>1. FrameElements[n] = "profile_high_bit"
    BY <1>3, ElementNames
  <2> QED BY <2>1 DEF Vp9Accepts
<1>4. CASE n = 4
  <2>1. FrameElements[n] = "reserved_zero"
    BY <1>4, ElementNames
  <2>2. Learnt(f, 4) = 0
    BY FrameFields DEF Learnt, Present, Content, Value0, Bit, Fits, Vp9Legal
  <2> QED BY <1>20, <1>21, <1>4, <2>1, <2>2, KnownFields DEF Vp9Accepts
<1>5. CASE n = 5
  <2>1. FrameElements[n] = "show_existing_frame"
    BY <1>5, ElementNames
  <2> QED BY <2>1 DEF Vp9Accepts
<1>6. CASE n = 6
  <2>1. FrameElements[n] = "frame_to_show_map_idx"
    BY <1>6, ElementNames
  <2> QED BY <2>1 DEF Vp9Accepts
<1>7. CASE n = 7
  <2>1. FrameElements[n] = "frame_type"
    BY <1>7, ElementNames
  <2> QED BY <2>1 DEF Vp9Accepts
<1>8. CASE n = 8
  <2>1. FrameElements[n] = "show_frame"
    BY <1>8, ElementNames
  <2> QED BY <2>1 DEF Vp9Accepts
<1>9. CASE n = 9
  <2>1. FrameElements[n] = "error_resilient_mode"
    BY <1>9, ElementNames
  <2> QED BY <2>1 DEF Vp9Accepts
<1>10. CASE n = 10
  <2>1. FrameElements[n] = "intra_only"
    BY <1>10, ElementNames
  <2> QED BY <2>1 DEF Vp9Accepts
<1>11. CASE n = 11
  <2>1. FrameElements[n] = "reset_frame_context"
    BY <1>11, ElementNames
  <2> QED BY <2>1 DEF Vp9Accepts
<1>12. CASE n = 12
  <2>1. FrameElements[n] = "frame_sync_code"
    BY <1>12, ElementNames
  <2>2. SyncedFrame(f) => Learnt(f, 12) = SyncCode
    BY FrameFields DEF Learnt, Present, Content, Value0, Bit, Fits, Vp9Legal
  <2> QED BY <1>20, <1>21, <1>12, <2>1, <2>2, KnownFields DEF Vp9Accepts
<1>13. CASE n = 13
  <2>1. FrameElements[n] = "high_bit_depth"
    BY <1>13, ElementNames
  <2>2. Learnt(f, 13) = 0
    BY FrameFields DEF Learnt, Present, Content, Value0, Bit, Fits, Vp9Legal
  <2> QED BY <1>20, <1>21, <1>13, <2>1, <2>2, KnownFields DEF Vp9Accepts
<1>14. CASE n = 14
  <2>1. FrameElements[n] = "color_space"
    BY <1>14, ElementNames
  <2>2. Learnt(f, 14) # 7
    BY FrameFields DEF Learnt, Present, Content, Value0, Bit, Fits, Vp9Legal
  <2> QED BY <1>20, <1>21, <1>14, <2>1, <2>2, KnownFields DEF Vp9Accepts
<1>15. CASE n = 15
  <2>1. FrameElements[n] = "color_range"
    BY <1>15, ElementNames
  <2> QED BY <2>1 DEF Vp9Accepts
<1>16. CASE n = 16
  <2>1. FrameElements[n] = "refresh_frame_flags"
    BY <1>16, ElementNames
  <2> QED BY <2>1 DEF Vp9Accepts
<1> QED BY Numbered, <1>1, <1>2, <1>3, <1>4, <1>5, <1>6, <1>7, <1>8,
           <1>9, <1>10, <1>11, <1>12, <1>13, <1>14, <1>15, <1>16

(* The parser reads the header of a legal frame to its end.                *)
LEMMA HeaderIsRead ==
  ASSUME NEW f \in Vp9Legal, NEW g, Vp9Reads(g, Vp9Bits(f), f.profile, 16)
  PROVE  /\ g[16].ok = Yes
         /\ Knows(g[16].v, f, 16)
<1> DEFINE B == Vp9Bits(f)
           P == {n \in 0 .. 16 :
                   \E v : /\ Reading(g[n], B, Remaining(f)[n + 1], v)
                          /\ Knows(v, f, n)}
<1>1. 0 \in P
  <2>1. B = T1(f) /\ Remaining(f)[0 + 1] = T1(f) /\ T1(f) \in Seq(BitValues)
    BY HeaderIsFields, TailTypes DEF Remaining
  <2>2. IsReader(g[0], B, 0, 0, <<>>, <<>>)
    BY DEF Vp9Reads, Reader, IsReader, Yes
  <2>3. Holds(B, 0, T1(f))
    BY <2>1 DEF Holds
  <2>4. Reading(g[0], B, Remaining(f)[0 + 1], <<>>)
    BY <2>1, <2>2, <2>3 DEF Reading
  <2>5. Knows(<<>>, f, 0)
    BY DEF Knows
  <2> HIDE DEF B
  <2> QED BY <2>4, <2>5
<1>2. ASSUME NEW n \in 1 .. 16, n - 1 \in P PROVE n \in P
  <2>1. PICK v : Reading(g[n - 1], B, Remaining(f)[n], v) /\ Knows(v, f, n - 1)
    BY <1>2
  <2> DEFINE e == FrameElements[n]
             c == Present(f)[n]
             x == Content(f)[n]
             w == Width[n]
             t == Remaining(f)[n + 1]
             after == Put(v, e, Value0(c, x))
  <2>2. /\ c \in {0, 1} /\ Fits(x, w) /\ t \in Seq(BitValues)
        /\ Remaining(f)[n] = Field(c, x, w) \o t
    BY FieldsFit
  <2>3. Vp9Coding(e, v) = Coded(c, w)
    BY <2>1, CodedAsWritten
  <2>4. Knows(after, f, n)
    BY <2>1, Learned DEF Learnt
  <2>5. Vp9Accepts(e, after, f.profile)
    BY <2>4, AcceptedAsWritten
  <2>6. Reading(g[n - 1], B, Field(c, x, w) \o t, v)
    BY <2>1, <2>2
  <2>7. g[n] = Vp9Next(g[n - 1], e, f.profile)
    BY DEF Vp9Reads
  <2> HIDE DEF e, c, x, w, t, B
  <2>8. Reading(Vp9Next(g[n - 1], e, f.profile), B, t, after)
    BY <2>2, <2>3, <2>5, <2>6, NextElement
  <2> HIDE DEF after
  <2> QED BY <2>4, <2>7, <2>8 DEF t
<1>3. P \in SUBSET Nat
  OBVIOUS
<1> HIDE DEF P
<1>4. 0 .. 16 \subseteq P
  BY <1>1, <1>2, <1>3, Induction
<1>5. 16 \in P
  BY <1>4
<1>6. PICK v : Reading(g[16], B, Remaining(f)[16 + 1], v) /\ Knows(v, f, 16)
  BY <1>5 DEF P
<1>7. g[16].ok = Yes /\ g[16].v = v
  BY <1>6 DEF Reading, IsReader
<1> QED BY <1>6, <1>7


(* rk_vp9_parse_frame tells what the frame shows and refreshes.            *)
LEMMA InfoIsRight ==
  ASSUME NEW f \in Vp9Legal, NEW info,
         info = rk_vp9_parse_frame(Vp9Bits(f), f.profile)
  PROVE  /\ info.parsed
         /\ info.show_existing_frame = f.existing
         /\ info.show_frame = (f.existing \/ f.show)
         /\ f.existing => info.frame_to_show_map_idx = f.slot
         /\ ~f.existing => info.refresh_frame_flags
                             = IF f.key THEN 255 ELSE f.refresh
<1>1. PICK g : /\ Vp9Reads(g, Vp9Bits(f), f.profile, 16)
               /\ info = Vp9Info(g[16], f.profile)
  BY ParsedBy
<1> DEFINE br == g[16]
           v == br.v
           existing == v.show_existing_frame = 1
           shown == v.show_frame = 1
<1>2. br.ok = Yes /\ Knows(v, f, 16)
  BY <1>1, HeaderIsRead
<1>3. /\ f.profile \in {0, 2} /\ f.existing \in BOOLEAN
      /\ f.key \in BOOLEAN /\ f.show \in BOOLEAN
  BY FrameFields
<1>4. /\ v.show_existing_frame = Bit(f.existing)
      /\ ~f.existing => v.show_frame = Bit(f.show)
  BY <1>2, KnownFields
<1>5. f.existing => v.frame_to_show_map_idx = f.slot
  <2>1. v.frame_to_show_map_idx = Learnt(f, 6)
    BY <1>2, ElementNames DEF Knows
  <2>2. f.existing => Learnt(f, 6) = f.slot
    BY DEF Learnt, Present, Content, Value0, Bit
  <2> QED BY <2>1, <2>2
<1>6. ~f.existing => v.frame_type = Bit(~f.key)
  <2>1. v.frame_type = Learnt(f, 7)
    BY <1>2, ElementNames DEF Knows
  <2>2. ~f.existing => Learnt(f, 7) = Bit(~f.key)
    BY DEF Learnt, Present, Content, Value0, Bit
  <2> QED BY <2>1, <2>2
<1>7. ~f.existing /\ ~f.key => v.refresh_frame_flags = f.refresh
  <2>1. v.refresh_frame_flags = Learnt(f, 16)
    BY <1>2, ElementNames DEF Knows
  <2>2. ~f.existing /\ ~f.key => Learnt(f, 16) = f.refresh
    BY DEF Learnt, Present, Content, Value0, Bit, InterFrame
  <2> QED BY <2>1, <2>2
<1>8. existing = f.existing /\ existing \in BOOLEAN
  BY <1>3, <1>4 DEF Bit
<1>9. (existing \/ shown) = (f.existing \/ f.show)
  BY <1>3, <1>4 DEF Bit
<1> DEFINE flags == IF ~existing /\ v.frame_type = 0 THEN 255
                                               ELSE v.refresh_frame_flags
<1>10. ~f.existing => flags = IF f.key THEN 255 ELSE f.refresh
  BY <1>3, <1>6, <1>7, <1>8 DEF Bit
<1> DEFINE slot == v.frame_to_show_map_idx
<1>11. info = [parsed |-> Yes, show_existing_frame |-> existing,
               show_frame |-> existing \/ shown,
               frame_to_show_map_idx |-> slot,
               refresh_frame_flags |-> flags]
  <2>1. br.ok
    BY <1>2 DEF Yes
  <2> HIDE DEF br
  <2> QED BY <1>1, <1>3, <2>1 DEF Vp9Info, Yes, br
<1> DEFINE any == existing \/ shown
<1>12. info = [parsed |-> Yes, show_existing_frame |-> existing,
               show_frame |-> any, frame_to_show_map_idx |-> slot,
               refresh_frame_flags |-> flags]
  BY <1>11
<1> HIDE DEF existing, any, slot, flags
<1>13. /\ info.parsed = Yes /\ info.show_existing_frame = existing
       /\ info.show_frame = any /\ info.frame_to_show_map_idx = slot
       /\ info.refresh_frame_flags = flags
  BY <1>12
<1>14. info.parsed
  BY <1>13 DEF Yes
<1>15. info.show_existing_frame = f.existing
  BY <1>8, <1>13
<1>16. info.show_frame = (f.existing \/ f.show)
  BY <1>9, <1>13, Zenon DEF any
<1>17. f.existing => info.frame_to_show_map_idx = f.slot
  BY <1>5, <1>13 DEF slot
<1> QED BY <1>10, <1>13, <1>14, <1>15, <1>16, <1>17

(* The slots one by one.                                                   *)
LEMMA EightSlots ==
  \A s \in 0 .. 7 : \/ s = 0 \/ s = 1 \/ s = 2 \/ s = 3
                    \/ s = 4 \/ s = 5 \/ s = 6 \/ s = 7
OBVIOUS

(* The bit of refresh_frame_flags for a slot.                              *)
SlotBit(x, s) == (x \div 2^s) % 2

(* The bits of a byte.                                                     *)
LEMMA SlotBits ==
  ASSUME NEW x \in Byte
  PROVE  /\ SlotBit(x, 0) = x % 2 /\ SlotBit(x, 1) = (x \div 2) % 2
         /\ SlotBit(x, 2) = (x \div 4) % 2 /\ SlotBit(x, 3) = (x \div 8) % 2
         /\ SlotBit(x, 4) = (x \div 16) % 2 /\ SlotBit(x, 5) = (x \div 32) % 2
         /\ SlotBit(x, 6) = (x \div 64) % 2
         /\ SlotBit(x, 7) = (x \div 128) % 2
BY DEF SlotBit, Byte

(* Slots is empty for 0 only.                                              *)
LEMMA SlotsOf ==
  ASSUME NEW x \in Byte
  PROVE  /\ \A s \in 0 .. 7 : s \in Slots(x) <=> SlotBit(x, s) = 1
         /\ \A s \in 0 .. 7 : SlotBit(x, s) \in {0, 1}
         /\ Slots(x) \subseteq 0 .. 7
         /\ Slots(x) = {} <=> x = 0
<1>1. \A s \in 0 .. 7 : s \in Slots(x) <=> SlotBit(x, s) = 1
  BY DEF Slots, SlotBit
<1>2. \A s \in 0 .. 7 : SlotBit(x, s) \in {0, 1}
  BY SlotBits, EightSlots DEF Byte
<1>3. Slots(x) \subseteq 0 .. 7
  BY DEF Slots
<1>4. ASSUME x = 0 PROVE Slots(x) = {}
  BY <1>1, <1>3, <1>4, SlotBits, EightSlots
<1>5. ASSUME Slots(x) = {} PROVE x = 0
  <2>1. \A s \in 0 .. 7 : SlotBit(x, s) = 0
    BY <1>1, <1>2, <1>5
  <2>2. /\ x % 2 = 0 /\ (x \div 2) % 2 = 0 /\ (x \div 4) % 2 = 0
        /\ (x \div 8) % 2 = 0 /\ (x \div 16) % 2 = 0
        /\ (x \div 32) % 2 = 0 /\ (x \div 64) % 2 = 0
        /\ (x \div 128) % 2 = 0
    BY <2>1, SlotBits
  <2> QED BY <2>2 DEF Byte
<1> QED BY <1>1, <1>2, <1>3, <1>4, <1>5

(* A key frame refreshes all slots.                                        *)
LEMMA AllSlots == Slots(255) = 0 .. 7
<1>1. 255 \in Byte
  BY DEF Byte
<1>2. \A s \in 0 .. 7 : SlotBit(255, s) = 1
  BY <1>1, SlotBits, EightSlots
<1> QED BY <1>1, <1>2, SlotsOf

(* first_refresh_slot finds a slot that is refreshed.                      *)
LEMMA LowestSlot ==
  ASSUME NEW x \in Byte, x # 0
  PROVE  first_refresh_slot(x) \in Slots(x)
<1> DEFINE Low(s) == /\ SlotBit(x, s) = 1
                     /\ \A r \in 0 .. (s - 1) : SlotBit(x, r) = 0
<1>1. \E s \in 0 .. 7 : Low(s)
  <2>1. PICK s \in 0 .. 7 : SlotBit(x, s) = 1
    BY SlotsOf
  <2> DEFINE A == {r \in 0 .. 7 : SlotBit(x, r) = 1}
  <2>2. \E r \in 0 .. 7 : r \in A /\ \A q \in 0 .. (r - 1) : q \notin A
    <3> HIDE DEF A
    <3>1. A \subseteq 0 .. 7 /\ s \in A
      BY <2>1 DEF A
    <3> QED BY <3>1, EightSlots
  <2>3. \A q \in 0 .. 7 : q \notin A => SlotBit(x, q) = 0
    BY SlotsOf
  <2> QED BY <2>2, <2>3
<1>2. first_refresh_slot(x) = CHOOSE s \in 0 .. 7 : Low(s)
  BY DEF first_refresh_slot, SlotBit
<1>3. first_refresh_slot(x) \in 0 .. 7 /\ Low(first_refresh_slot(x))
  <2> HIDE DEF Low
  <2> QED BY <1>1, <1>2
<1> QED BY <1>3, SlotsOf


(* The bits of a packet of one byte.                                       *)
LEMMA OneByte ==
  ASSUME NEW x
  PROVE  BitsOf(<<x>>) = bs_write(x, 8)
<1> DEFINE s == [i \in DOMAIN <<x>> |-> bs_write(<<x>>[i], 8)]
           b == bs_write(x, 8)
           Def(f) == [i \in 1 .. 1 |-> IF i = 1 THEN s[i] ELSE f[i - 1] \o s[i]]
           h == CHOOSE f : f = Def(f)
<1>1. Len(s) = 1 /\ s[1] = b
  <2>1. DOMAIN <<x>> = 1 .. 1 /\ <<x>>[1] = x
    OBVIOUS
  <2>2. s = [i \in 1 .. 1 |-> b]
    BY <2>1
  <2> HIDE DEF s, b
  <2> QED BY <2>2
<1>2. BitsOf(<<x>>) = FlattenSeq(s)
  BY DEF BitsOf
<1> HIDE DEF s, b
<1>3. FlattenSeq(s) = h[1]
  BY <1>1 DEF FlattenSeq
<1>4. h = Def(h)
  <2>1. [i \in 1 .. 1 |-> b] = Def([i \in 1 .. 1 |-> b])
    BY <1>1
  <2> HIDE DEF Def
  <2> QED BY <2>1
<1> HIDE DEF h
<1>5. h[1] = b
  BY <1>1, <1>4
<1> QED BY <1>2, <1>3, <1>5 DEF b

(* A sequence of length 8 is the tuple of its elements.                    *)
LEMMA EightLong ==
  ASSUME NEW S, NEW u \in Seq(S), Len(u) = 8
  PROVE  u = <<u[1], u[2], u[3], u[4], u[5], u[6], u[7], u[8]>>
<1> DEFINE t == <<u[1], u[2], u[3], u[4], u[5], u[6], u[7], u[8]>>
<1>1. DOMAIN u = 1 .. 8 /\ DOMAIN t = 1 .. 8
  OBVIOUS
<1>2. u = [i \in 1 .. 8 |-> u[i]] /\ t = [i \in 1 .. 8 |-> t[i]]
  BY <1>1
<1>3. /\ t[1] = u[1] /\ t[2] = u[2] /\ t[3] = u[3] /\ t[4] = u[4]
      /\ t[5] = u[5] /\ t[6] = u[6] /\ t[7] = u[7] /\ t[8] = u[8]
  OBVIOUS
<1>4. \A i \in 1 .. 8 : \/ i = 1 \/ i = 2 \/ i = 3 \/ i = 4
                         \/ i = 5 \/ i = 6 \/ i = 7 \/ i = 8
  OBVIOUS
<1> HIDE DEF t
<1>5. \A i \in 1 .. 8 : u[i] = t[i]
  BY <1>3, <1>4
<1>6. u = t
  BY <1>2, <1>5
<1> QED BY <1>6 DEF t

(* u is s followed by t.                                                   *)
Joins(u, s, t) ==
  /\ u \in Seq(Int) /\ Len(u) = Len(s) + Len(t)
  /\ \A i \in 1 .. Len(s) : u[i] = s[i]
  /\ \A i \in 1 .. Len(t) : u[Len(s) + i] = t[i]

(* Concatenation, element by element.                                      *)
LEMMA Concatenated ==
  ASSUME NEW s \in Seq(Int), NEW t \in Seq(Int)
  PROVE  Joins(s \o t, s, t)
<1>1. /\ s \o t \in Seq(Int) /\ Len(s \o t) = Len(s) + Len(t)
      /\ \A i \in 1 .. (Len(s) + Len(t)) :
           (s \o t)[i] = IF i <= Len(s) THEN s[i] ELSE t[i - Len(s)]
      /\ Len(s) \in Nat /\ Len(t) \in Nat
  BY ConcatProperties
<1>2. ASSUME NEW i \in 1 .. Len(t) PROVE (s \o t)[Len(s) + i] = t[i]
  <2>1. /\ Len(s) + i \in 1 .. (Len(s) + Len(t)) /\ ~(Len(s) + i <= Len(s))
        /\ (Len(s) + i) - Len(s) = i
    BY <1>1
  <2> QED BY <1>1, <2>1
<1>3. ASSUME NEW i \in 1 .. Len(s) PROVE (s \o t)[i] = s[i]
  BY <1>1
<1> QED BY <1>1, <1>2, <1>3 DEF Joins

(* The eight bits of a header that shows a slot.                           *)
LEMMA Assembled ==
  ASSUME NEW h \in Int, NEW b2 \in Int, NEW b1 \in Int, NEW b0 \in Int
  PROVE  (((<<1, 0>> \o <<0>>) \o <<h>>) \o (<<1>> \o <<b2, b1, b0>>)) \o <<>>
           = <<1, 0, 0, h, 1, b2, b1, b0>>
<1> DEFINE a == <<1, 0>>
           b == <<0>>
           c == a \o b
           d == <<h>>
           e == c \o d
           i == <<1>>
           k == <<b2, b1, b0>>
           g == i \o k
           u == e \o g
<1>1. /\ a \in Seq(Int) /\ Len(a) = 2 /\ a[1] = 1 /\ a[2] = 0
      /\ b \in Seq(Int) /\ Len(b) = 1 /\ b[1] = 0
      /\ d \in Seq(Int) /\ Len(d) = 1 /\ d[1] = h
      /\ i \in Seq(Int) /\ Len(i) = 1 /\ i[1] = 1
      /\ k \in Seq(Int) /\ Len(k) = 3
      /\ k[1] = b2 /\ k[2] = b1 /\ k[3] = b0
  OBVIOUS
<1> HIDE DEF a, b, d, i, k
<1>2. c \in Seq(Int) /\ Len(c) = 3 /\ c[1] = 1 /\ c[2] = 0 /\ c[3] = 0
  <2>1. Joins(c, a, b)
    BY <1>1, Concatenated
  <2> HIDE DEF c
  <2> QED BY <1>1, <2>1 DEF Joins
<1> HIDE DEF c
<1>3. /\ e \in Seq(Int) /\ Len(e) = 4 /\ e[1] = 1 /\ e[2] = 0 /\ e[3] = 0
      /\ e[4] = h
  <2>1. Joins(e, c, d)
    BY <1>1, <1>2, Concatenated
  <2> HIDE DEF e
  <2> QED BY <1>1, <1>2, <2>1 DEF Joins
<1> HIDE DEF e
<1>5. /\ g \in Seq(Int) /\ Len(g) = 4 /\ g[1] = 1 /\ g[2] = b2
      /\ g[3] = b1 /\ g[4] = b0
  <2>1. Joins(g, i, k)
    BY <1>1, Concatenated
  <2> HIDE DEF g
  <2> QED BY <1>1, <2>1 DEF Joins
<1> HIDE DEF g
<1>4. Joins(u, e, g)
  BY <1>3, <1>5, Concatenated
<1> HIDE DEF u
<1>6. u \in Seq(Int) /\ Len(u) = 8
  BY <1>3, <1>4, <1>5 DEF Joins
<1>7. /\ u[1] = 1 /\ u[2] = 0 /\ u[3] = 0 /\ u[4] = h
  BY <1>3, <1>4 DEF Joins
<1>8. u[5] = 1 /\ u[6] = b2 /\ u[7] = b1 /\ u[8] = b0
  BY <1>3, <1>4, <1>5 DEF Joins
<1>9. u = <<u[1], u[2], u[3], u[4], u[5], u[6], u[7], u[8]>>
  BY <1>6, EightLong
<1>10. u = <<1, 0, 0, h, 1, b2, b1, b0>>
  BY <1>7, <1>8, <1>9
<1>11. u \o <<>> = u
  BY <1>6, ConcatEmptySeq
<1> QED BY <1>10, <1>11 DEF u, g, k, i, e, d, c, b, a

(* The byte of rk_vp9_make_show_existing, 0x88 with profile and slot, is   *)
(* the header of a frame that shows the slot.                              *)
LEMMA ShowPacketBits ==
  ASSUME NEW f \in Vp9Legal, f.existing, f.rest = <<>>
  PROVE  BitsOf(rk_vp9_make_show_existing(f.profile, f.slot)) = Vp9Bits(f)
<1> DEFINE p == f.profile
           s == f.slot
           h == p \div 2
           x == 136 + (IF p = 2 THEN 16 ELSE 0) + s
<1>1. p \in {0, 2} /\ s \in 0 .. 7 /\ f.existing = TRUE
  BY DEF Vp9Legal
<1>2. rk_vp9_make_show_existing(p, s) = <<x>> /\ x \in Byte
  <2>1. x \in Byte
    <3>1. x = 136 + s \/ x = 152 + s
      BY <1>1
    <3>2. s \in 0 .. 7
      BY <1>1
    <3> HIDE DEF x, s
    <3>3. CASE x = 136 + s
      BY <3>2, <3>3 DEF Byte
    <3>4. CASE x = 152 + s
      BY <3>2, <3>4 DEF Byte
    <3> QED BY <3>1, <3>3, <3>4
  <2>2. ~(p \notin {0, 2} \/ s >= 8)
    BY <1>1
  <2> HIDE DEF p, s
  <2> QED BY <2>1, <2>2 DEF rk_vp9_make_show_existing
<1>3. BitsOf(<<x>>) = bs_write(x, 8)
  BY OneByte
<1> DEFINE d == <<1, 0, 0, h, 1, (s \div 4) % 2, (s \div 2) % 2, s % 2>>
<1>4. bs_write(x, 8) = d
  <2>1. /\ bs_write(x, 8)[1] = (x \div 128) % 2
        /\ bs_write(x, 8)[2] = (x \div 64) % 2
        /\ bs_write(x, 8)[3] = (x \div 32) % 2
        /\ bs_write(x, 8)[4] = (x \div 16) % 2
        /\ bs_write(x, 8)[5] = (x \div 8) % 2
        /\ bs_write(x, 8)[6] = (x \div 4) % 2
        /\ bs_write(x, 8)[7] = (x \div 2) % 2
        /\ bs_write(x, 8)[8] = (x \div 1) % 2
    <3>1. x \in Int
      BY <1>2 DEF Byte
    <3> HIDE DEF x
    <3> QED BY <3>1 DEF bs_write
  <2>2. /\ (x \div 128) % 2 = 1 /\ (x \div 64) % 2 = 0 /\ (x \div 32) % 2 = 0
        /\ (x \div 16) % 2 = h /\ (x \div 8) % 2 = 1
        /\ (x \div 4) % 2 = (s \div 4) % 2 /\ (x \div 2) % 2 = (s \div 2) % 2
        /\ (x \div 1) % 2 = s % 2
    <3>1. CASE p = 0
      <4>1. x = 136 + s /\ h = 0
        BY <3>1
      <4> HIDE DEF x, h, p, s
      <4> QED BY <1>1, <4>1
    <3>2. CASE p = 2
      <4>1. x = 152 + s /\ h = 1
        BY <1>1, <3>2
      <4> HIDE DEF x, h, p, s
      <4> QED BY <1>1, <4>1
    <3> QED BY <1>1, <3>1, <3>2
  <2>3. bs_write(x, 8) \in Seq(BitValues) /\ Len(bs_write(x, 8)) = 8
    <3> HIDE DEF x
    <3>1. Fits(x, 8)
      BY <1>2 DEF Fits, Byte
    <3> QED BY <3>1, WrittenBits
  <2>4. h \in Int /\ (s \div 4) % 2 \in Int /\ (s \div 2) % 2 \in Int
        /\ s % 2 \in Int
    BY <1>1
  <2> DEFINE u == bs_write(x, 8)
             b2 == (s \div 4) % 2
             b1 == (s \div 2) % 2
             b0 == s % 2
  <2>5. /\ u[1] = 1 /\ u[2] = 0 /\ u[3] = 0 /\ u[4] = h /\ u[5] = 1
        /\ u[6] = b2 /\ u[7] = b1 /\ u[8] = b0
    BY <2>1, <2>2
  <2>6. u = <<u[1], u[2], u[3], u[4], u[5], u[6], u[7], u[8]>>
    <3>1. u \in Seq(BitValues) /\ Len(u) = 8
      BY <2>3
    <3> HIDE DEF u
    <3> QED BY <3>1, EightLong
  <2> HIDE DEF u, b2, b1, b0, h
  <2>7. u = <<1, 0, 0, h, 1, b2, b1, b0>>
    BY <2>5, <2>6
  <2> QED BY <2>7 DEF u, b2, b1, b0
<1>5. Vp9Bits(f) = d
  <2>1. bs_write(p % 2, 1) = <<0>> /\ bs_write(p \div 2, 1) = <<h>>
    BY <1>1, OneBit
  <2>2. bs_write(s, 3) = <<(s \div 4) % 2, (s \div 2) % 2, s % 2>>
    <3>1. Fits(s, 3)
      BY <1>1 DEF Fits
    <3>2. bs_write(s, 3) \in Seq(BitValues) /\ Len(bs_write(s, 3)) = 3
      BY <3>1, WrittenBits
    <3>3. /\ bs_write(s, 3)[1] = (s \div 4) % 2
          /\ bs_write(s, 3)[2] = (s \div 2) % 2
          /\ bs_write(s, 3)[3] = (s \div 1) % 2
      <4>1. s \in Int
        BY <1>1
      <4> HIDE DEF s
      <4> QED BY <4>1 DEF bs_write
    <3>4. s \div 1 = s
      BY <1>1
    <3> HIDE DEF s
    <3> QED BY <3>2, <3>3, <3>4
  <2>3. Vp9Bits(f) = (((<<1, 0>> \o <<0>>) \o <<h>>)
                      \o (<<1>> \o <<(s \div 4) % 2, (s \div 2) % 2, s % 2>>))
                      \o <<>>
    BY <1>1, <2>1, <2>2 DEF Vp9Bits
  <2> DEFINE b2 == (s \div 4) % 2
             b1 == (s \div 2) % 2
             b0 == s % 2
  <2>4. h \in Int /\ b2 \in Int /\ b1 \in Int /\ b0 \in Int
    BY <1>1
  <2> HIDE DEF b2, b1, b0, h
  <2> QED BY <2>3, <2>4, Assembled DEF b2, b1, b0
<1> QED BY <1>2, <1>3, <1>4, <1>5


(* What Vp9FrameUnderstood says of a frame, its info and its packet.       *)
Understood(f, info, shows) ==
  /\ info.show_existing_frame = f.existing
  /\ info.show_frame = (f.existing \/ f.show)
  /\ f.existing => info.frame_to_show_map_idx = f.slot
  /\ ~f.existing => Slots(info.refresh_frame_flags) = Refreshed(f)
  /\ shows # <<>> <=> ~f.existing /\ ~f.show /\ Refreshed(f) # {}
  /\ shows # <<>> =>
       \E s \in Refreshed(f) :
         BitsOf(shows) = Vp9Bits([f EXCEPT !.existing = TRUE, !.slot = s,
                                           !.rest = <<>>])

(* The VP9 job refuses no legal frame, understands its header and shows a  *)
(* slot that it refreshed.                                                 *)
LEMMA PacketIsRight ==
  ASSUME NEW f \in Vp9Legal
  PROVE  \E info, shows :
           /\ vp9_packet(f) = <<[info |-> info, shows |-> shows]>>
           /\ Understood(f, info, shows)
<1> DEFINE info == rk_vp9_parse_frame(Vp9Bits(f), f.profile)
           flags == info.refresh_frame_flags
           shown == info.show_frame
           first == first_refresh_slot(flags)
           shows == IF shown \/ flags = 0 THEN <<>>
                    ELSE rk_vp9_make_show_existing(f.profile, first)
<1>1. /\ info.parsed
      /\ info.show_existing_frame = f.existing
      /\ shown = (f.existing \/ f.show)
      /\ f.existing => info.frame_to_show_map_idx = f.slot
      /\ ~f.existing => flags = IF f.key THEN 255 ELSE f.refresh
  BY InfoIsRight
<1>2. /\ f.profile \in {0, 2} /\ f.existing \in BOOLEAN
      /\ f.key \in BOOLEAN /\ f.show \in BOOLEAN /\ f.refresh \in Byte
  BY DEF Vp9Legal
<1>3. vp9_packet(f) = <<[info |-> info, shows |-> shows]>>
  BY <1>1 DEF vp9_packet
<1> HIDE DEF info
<1>4. ASSUME ~f.existing PROVE flags \in Byte /\ Slots(flags) = Refreshed(f)
  BY <1>1, <1>2, <1>4, AllSlots DEF Refreshed, Byte
<1> HIDE DEF flags
<1>5. shown <=> f.existing \/ f.show
  BY <1>1, <1>2
<1> HIDE DEF shown
<1>6. ASSUME ~f.existing, ~f.show, flags # 0
      PROVE  /\ first \in Refreshed(f) /\ first \in 0 .. 7
             /\ shows = rk_vp9_make_show_existing(f.profile, first)
             /\ shows # <<>>
  <2>1. first \in Slots(flags)
    BY <1>4, <1>6, LowestSlot
  <2>2. first \in Refreshed(f) /\ first \in 0 .. 7
    BY <1>4, <1>6, <2>1, SlotsOf
  <2>3. shows = rk_vp9_make_show_existing(f.profile, first)
    BY <1>5, <1>6
  <2> HIDE DEF first
  <2>4. rk_vp9_make_show_existing(f.profile, first) # <<>>
    BY <1>2, <2>2 DEF rk_vp9_make_show_existing
  <2> HIDE DEF shows
  <2> QED BY <2>2, <2>3, <2>4
<1>7. shows # <<>> <=> ~f.existing /\ ~f.show /\ Refreshed(f) # {}
  <2>1. ~f.existing => (Refreshed(f) = {} <=> flags = 0)
    BY <1>4, SlotsOf
  <2>2. shown \/ flags = 0 => shows = <<>>
    OBVIOUS
  <2> HIDE DEF shows, first
  <2> QED BY <1>2, <1>5, <1>6, <2>1, <2>2
<1>8. ASSUME shows # <<>>
      PROVE  \E s \in Refreshed(f) :
               BitsOf(shows) = Vp9Bits([f EXCEPT !.existing = TRUE, !.slot = s,
                                                 !.rest = <<>>])
  <2>1. ~f.existing /\ ~f.show /\ flags # 0
    BY <1>2, <1>5, <1>8
  <2>2. /\ first \in Refreshed(f) /\ first \in 0 .. 7
        /\ shows = rk_vp9_make_show_existing(f.profile, first)
    BY <1>6, <2>1
  <2> DEFINE h == [f EXCEPT !.existing = Yes, !.slot = first, !.rest = <<>>]
  <2> HIDE DEF shows, first
  <2>3. /\ h \in Vp9Legal /\ h.existing /\ h.rest = <<>> /\ h.slot = first
        /\ h.profile = f.profile
    <3>1. Yes \in BOOLEAN /\ <<>> \in Seq({0, 1})
      BY DEF Yes
    <3>2. h \in Vp9Legal
      BY <2>2, <3>1 DEF Vp9Legal
    <3>3. /\ h.existing = Yes /\ h.rest = <<>> /\ h.slot = first
          /\ h.profile = f.profile
      BY DEF Vp9Legal
    <3> QED BY <3>2, <3>3 DEF Yes
  <2> HIDE DEF h
  <2>4. BitsOf(shows) = Vp9Bits(h)
    BY <2>2, <2>3, ShowPacketBits
  <2> QED BY <2>2, <2>4 DEF h, Yes
<1>9. /\ info.show_frame = (f.existing \/ f.show)
      /\ ~f.existing => Slots(info.refresh_frame_flags) = Refreshed(f)
  BY <1>1, <1>4 DEF shown, flags
<1> HIDE DEF shows
<1>10. Understood(f, info, shows)
  BY <1>1, <1>7, <1>8, <1>9, Zenon DEF Understood
<1> QED BY <1>3, <1>10

(* The answer is the packet of the given frame.                            *)
Vp9Inv == /\ input.codec = "vp9" => input.of \in Vp9Legal
          /\ output.returned \in BOOLEAN
          /\ Answered("vp9") => output.value = vp9_packet(input.of)

(* HeaderSpec keeps the answer of the VP9 job.                             *)
LEMMA Vp9Invariant == HeaderSpec => []Vp9Inv
<1>1. HeaderInit => Vp9Inv
  BY Vp9Assumption DEF Vp9Inv, HeaderInit, Pending, Answered, Vp9Legal
<1>2. Vp9Inv /\ [HeaderNext]_headerVars => Vp9Inv'
  <2> USE DEF Vp9Inv
  <2> SUFFICES ASSUME Vp9Inv, [HeaderNext]_headerVars PROVE Vp9Inv'
    OBVIOUS
  <2>1. CASE hevc_headers
    BY <2>1 DEF hevc_headers, Made, Answered
  <2>2. CASE h264_headers
    BY <2>2 DEF h264_headers, Made, Answered
  <2>3. CASE vp9_headers
    BY <2>3 DEF vp9_headers, Made, Answered
  <2>4. CASE finish_nal
    BY <2>4 DEF finish_nal, Made, Answered
  <2>5. CASE UNCHANGED headerVars
    BY <2>5 DEF headerVars, Answered
  <2> QED BY <2>1, <2>2, <2>3, <2>4, <2>5 DEF HeaderNext
<1> QED BY <1>1, <1>2, PTL DEF HeaderSpec

(* No legal frame of profile 0 or 2 is refused: not for its flags, its     *)
(* hidden fields, its colour space or what follows the header.             *)
THEOREM LegalVp9IsAccepted ==
  HeaderSpec => [](Answered("vp9") => output.value # Refused)
<1>1. Vp9Inv => (Answered("vp9") => output.value # Refused)
  <2> SUFFICES ASSUME Vp9Inv, Answered("vp9") PROVE output.value # Refused
    OBVIOUS
  <2>1. input.of \in Vp9Legal /\ output.value = vp9_packet(input.of)
    BY DEF Vp9Inv, Answered
  <2>2. PICK info, shows :
          vp9_packet(input.of) = <<[info |-> info, shows |-> shows]>>
    BY <2>1, PacketIsRight
  <2> QED BY <2>1, <2>2 DEF Refused
<1> QED BY <1>1, Vp9Invariant, PTL

(* vp9.c learns what every legal frame shows and refreshes although it     *)
(* skips the fields in between, and the packet it makes for a hidden frame *)
(* shows a slot that frame refreshed: for every combination of flags,      *)
(* fields and following bits.                                              *)
THEOREM Vp9HeaderUnderstood == HeaderSpec => []Vp9FrameUnderstood
<1>1. Vp9Inv => Vp9FrameUnderstood
  <2> SUFFICES ASSUME Vp9Inv, Accepted("vp9") PROVE Vp9FrameUnderstood
    BY DEF Vp9FrameUnderstood
  <2> DEFINE f == input.of
  <2>1. f \in Vp9Legal /\ output.value = vp9_packet(f)
    BY DEF Vp9Inv, Accepted, Answered
  <2> HIDE DEF f
  <2>2. PICK info, shows :
          /\ vp9_packet(f) = <<[info |-> info, shows |-> shows]>>
          /\ Understood(f, info, shows)
    BY <2>1, PacketIsRight
  <2>3. Headers.info = info /\ Headers.shows = shows
    BY <2>1, <2>2 DEF Headers
  <2> QED BY <2>2, <2>3, Zenon DEF Vp9FrameUnderstood, Understood, f
<1> QED BY <1>1, Vp9Invariant, PTL
-----------------------------------------------------------------------------
(***************************************************************************)
(* The levels the parameter sets declare.                                  *)
(***************************************************************************)
(* The fields of VAPictureParameterBufferH264 the level depends on, of any *)
(* size.                                                                   *)
AvcPicture(pp) ==
  /\ pp.picture_width_in_mbs_minus1 \in Nat
  /\ pp.picture_height_in_mbs_minus1 \in Nat
  /\ pp.num_ref_frames \in Nat

(* A count is within a rounded quotient exactly when the product fits: the *)
(* standard divides MaxDpbMbs, h264.c multiplies the frame size.           *)
LEMMA RoundedDown ==
  ASSUME NEW a \in Nat \ {0}, NEW r \in Nat, NEW n \in Nat
  PROVE  r <= n \div a <=> a * r <= n
<1> DEFINE q == n \div a
           m == n % a
<1>1. q \in Nat /\ m \in Nat /\ m < a /\ n = a * q + m
  OBVIOUS
<1> HIDE DEF q, m
<1>2. ASSUME r <= q PROVE a * r <= n
  <2>1. a * r <= a * q
    BY <1>1, <1>2
  <2> QED BY <1>1, <2>1
<1>3. ASSUME ~(r <= q) PROVE ~(a * r <= n)
  <2>1. r >= q + 1
    BY <1>1, <1>3
  <2>2. a * r >= a * (q + 1)
    BY <1>1, <2>1
  <2>3. a * (q + 1) = a * q + a
    BY <1>1
  <2> QED BY <1>1, <2>2, <2>3
<1> QED BY <1>2, <1>3 DEF q

(* The checks of h264_derive_level_idc (h264.c:51) on a row of the table   *)
(* are those of Annex A.                                                   *)
LEMMA AdmitsFits ==
  ASSUME NEW pp, AvcPicture(pp), NEW l \in Nat, NEW size \in Nat,
         NEW dpb \in Nat
  PROVE  /\ Admits(<<l, size, dpb>>, width_mbs(pp), height_mbs(pp),
                    pp.num_ref_frames)
         /\ pp.MinLumaBiPredSize8x8 = 1 => l >= 31
         <=> LevelFits(pp, <<l, size, dpb>>)
<1> DEFINE w == width_mbs(pp)
           h == height_mbs(pp)
           r == pp.num_ref_frames
<1>1. w \in Nat \ {0} /\ h \in Nat \ {0} /\ r \in Nat
  BY DEF width_mbs, height_mbs, AvcPicture
<1> HIDE DEF w, h, r
<1>2. w * h \in Nat \ {0}
  BY <1>1
<1>3. r <= dpb \div (w * h) <=> w * h * r <= dpb
  BY <1>1, <1>2, RoundedDown
<1> QED BY <1>1, <1>3 DEF Admits, LevelFits, w, h, r

(* The driver's rows, one by one.                                          *)
LEMMA DriverRows ==
  /\ DOMAIN h264_level_limits = 1 .. 12
  /\ h264_level_limits[1] = <<10, 99, 396>>
  /\ h264_level_limits[2] = <<11, 396, 900>>
  /\ h264_level_limits[3] = <<12, 396, 2376>>
  /\ h264_level_limits[4] = <<21, 792, 4752>>
  /\ h264_level_limits[5] = <<22, 1620, 8100>>
  /\ h264_level_limits[6] = <<31, 3600, 18000>>
  /\ h264_level_limits[7] = <<32, 5120, 20480>>
  /\ h264_level_limits[8] = <<40, 8192, 32768>>
  /\ h264_level_limits[9] = <<42, 8704, 34816>>
  /\ h264_level_limits[10] = <<50, 22080, 110400>>
  /\ h264_level_limits[11] = <<51, 36864, 184320>>
  /\ h264_level_limits[12] = <<60, 139264, 696320>>
BY DEF h264_level_limits

(* Their numbers, for case distinctions.                                   *)
LEMMA RowNumbers ==
  \A i \in 1 .. 12 : \/ i = 1 \/ i = 2 \/ i = 3 \/ i = 4 \/ i = 5 \/ i = 6
                     \/ i = 7 \/ i = 8 \/ i = 9 \/ i = 10 \/ i = 11 \/ i = 12
OBVIOUS

(* The driver searches from the front: its levels rise along the table,    *)
(* and each row is one of the standard.                                    *)
LEMMA RowsRise ==
  /\ \A i \in 1 .. 12 : h264_level_limits[i][1] \in Nat
  /\ \A i, j \in 1 .. 12 :
       i <= j => h264_level_limits[i][1] <= h264_level_limits[j][1]
  /\ \A i \in 1 .. 12 : h264_level_limits[i] \in TableA1
<1> DEFINE L(i) == h264_level_limits[i][1]
<1>1. /\ L(1) = 10
      /\ L(2) = 11
      /\ L(3) = 12
      /\ L(4) = 21
      /\ L(5) = 22
      /\ L(6) = 31
      /\ L(7) = 32
      /\ L(8) = 40
      /\ L(9) = 42
      /\ L(10) = 50
      /\ L(11) = 51
      /\ L(12) = 60
  BY DriverRows
<1> HIDE DEF L
<1>2. \A i \in 1 .. 12 : L(i) \in Nat
  BY <1>1, RowNumbers
<1>3. \A i \in 1 .. 11 : L(i) <= L(i + 1)
  BY <1>1
<1>4. ASSUME NEW i \in 1 .. 12, NEW j \in 1 .. 12, i <= j PROVE L(i) <= L(j)
  <2>1. CASE i = 1
    BY <1>1, <1>4, <2>1, RowNumbers
  <2>2. CASE i = 2
    BY <1>1, <1>4, <2>2, RowNumbers
  <2>3. CASE i = 3
    BY <1>1, <1>4, <2>3, RowNumbers
  <2>4. CASE i = 4
    BY <1>1, <1>4, <2>4, RowNumbers
  <2>5. CASE i = 5
    BY <1>1, <1>4, <2>5, RowNumbers
  <2>6. CASE i = 6
    BY <1>1, <1>4, <2>6, RowNumbers
  <2>7. CASE i = 7
    BY <1>1, <1>4, <2>7, RowNumbers
  <2>8. CASE i = 8
    BY <1>1, <1>4, <2>8, RowNumbers
  <2>9. CASE i = 9
    BY <1>1, <1>4, <2>9, RowNumbers
  <2>10. CASE i = 10
    BY <1>1, <1>4, <2>10, RowNumbers
  <2>11. CASE i = 11
    BY <1>1, <1>4, <2>11, RowNumbers
  <2>12. CASE i = 12
    BY <1>1, <1>4, <2>12, RowNumbers
  <2> QED BY RowNumbers, <2>1, <2>2, <2>3, <2>4, <2>5, <2>6, <2>7, <2>8,
           <2>9, <2>10, <2>11, <2>12
<1>5. \A i \in 1 .. 12 : h264_level_limits[i] \in TableA1
  BY DriverRows, RowNumbers, SMTT(30) DEF TableA1
<1> QED BY <1>2, <1>4, <1>5 DEF L

(* The driver's table leaves out the levels that have the limits of a      *)
(* lower one: for every row of the standard that admits a picture, it has  *)
(* one that does, at no higher level.                                      *)
LEMMA DriverRowFor ==
  ASSUME NEW pp, AvcPicture(pp), NEW row \in TableA1, LevelFits(pp, row)
  PROVE  \E i \in 1 .. 12 : /\ LevelFits(pp, h264_level_limits[i])
                            /\ h264_level_limits[i][1] <= row[1]
<1>0. /\ width_mbs(pp) \in Nat /\ height_mbs(pp) \in Nat
  BY DEF AvcPicture, width_mbs, height_mbs
<1>1. CASE row = <<10, 99, 396>>
  <2>1. LevelFits(pp, <<10, 99, 396>>)
    BY <1>1 DEF LevelFits
  <2>2. h264_level_limits[1] = <<10, 99, 396>>
    BY DriverRows
  <2>3. h264_level_limits[1][1] <= row[1]
    BY <1>1, <2>2
  <2> QED BY <2>1, <2>2, <2>3
<1>2. CASE row = <<11, 396, 900>>
  <2>1. LevelFits(pp, <<11, 396, 900>>)
    BY <1>2 DEF LevelFits
  <2>2. h264_level_limits[2] = <<11, 396, 900>>
    BY DriverRows
  <2>3. h264_level_limits[2][1] <= row[1]
    BY <1>2, <2>2
  <2> QED BY <2>1, <2>2, <2>3
<1>3. CASE row = <<12, 396, 2376>>
  <2>1. LevelFits(pp, <<12, 396, 2376>>)
    BY <1>3 DEF LevelFits
  <2>2. h264_level_limits[3] = <<12, 396, 2376>>
    BY DriverRows
  <2>3. h264_level_limits[3][1] <= row[1]
    BY <1>3, <2>2
  <2> QED BY <2>1, <2>2, <2>3
<1>4. CASE row = <<13, 396, 2376>>
  <2>1. LevelFits(pp, <<12, 396, 2376>>)
    BY <1>4 DEF LevelFits
  <2>2. h264_level_limits[3] = <<12, 396, 2376>>
    BY DriverRows
  <2>3. h264_level_limits[3][1] <= row[1]
    BY <1>4, <2>2
  <2> QED BY <2>1, <2>2, <2>3
<1>5. CASE row = <<20, 396, 2376>>
  <2>1. LevelFits(pp, <<12, 396, 2376>>)
    BY <1>5 DEF LevelFits
  <2>2. h264_level_limits[3] = <<12, 396, 2376>>
    BY DriverRows
  <2>3. h264_level_limits[3][1] <= row[1]
    BY <1>5, <2>2
  <2> QED BY <2>1, <2>2, <2>3
<1>6. CASE row = <<21, 792, 4752>>
  <2>1. LevelFits(pp, <<21, 792, 4752>>)
    BY <1>6 DEF LevelFits
  <2>2. h264_level_limits[4] = <<21, 792, 4752>>
    BY DriverRows
  <2>3. h264_level_limits[4][1] <= row[1]
    BY <1>6, <2>2
  <2> QED BY <2>1, <2>2, <2>3
<1>7. CASE row = <<22, 1620, 8100>>
  <2>1. LevelFits(pp, <<22, 1620, 8100>>)
    BY <1>7 DEF LevelFits
  <2>2. h264_level_limits[5] = <<22, 1620, 8100>>
    BY DriverRows
  <2>3. h264_level_limits[5][1] <= row[1]
    BY <1>7, <2>2
  <2> QED BY <2>1, <2>2, <2>3
<1>8. CASE row = <<30, 1620, 8100>>
  <2>1. LevelFits(pp, <<22, 1620, 8100>>)
    BY <1>8 DEF LevelFits
  <2>2. h264_level_limits[5] = <<22, 1620, 8100>>
    BY DriverRows
  <2>3. h264_level_limits[5][1] <= row[1]
    BY <1>8, <2>2
  <2> QED BY <2>1, <2>2, <2>3
<1>9. CASE row = <<31, 3600, 18000>>
  <2>1. LevelFits(pp, <<31, 3600, 18000>>)
    BY <1>9 DEF LevelFits
  <2>2. h264_level_limits[6] = <<31, 3600, 18000>>
    BY DriverRows
  <2>3. h264_level_limits[6][1] <= row[1]
    BY <1>9, <2>2
  <2> QED BY <2>1, <2>2, <2>3
<1>10. CASE row = <<32, 5120, 20480>>
  <2>1. LevelFits(pp, <<32, 5120, 20480>>)
    BY <1>10 DEF LevelFits
  <2>2. h264_level_limits[7] = <<32, 5120, 20480>>
    BY DriverRows
  <2>3. h264_level_limits[7][1] <= row[1]
    BY <1>10, <2>2
  <2> QED BY <2>1, <2>2, <2>3
<1>11. CASE row = <<40, 8192, 32768>>
  <2>1. LevelFits(pp, <<40, 8192, 32768>>)
    BY <1>11 DEF LevelFits
  <2>2. h264_level_limits[8] = <<40, 8192, 32768>>
    BY DriverRows
  <2>3. h264_level_limits[8][1] <= row[1]
    BY <1>11, <2>2
  <2> QED BY <2>1, <2>2, <2>3
<1>12. CASE row = <<41, 8192, 32768>>
  <2>1. LevelFits(pp, <<40, 8192, 32768>>)
    BY <1>12 DEF LevelFits
  <2>2. h264_level_limits[8] = <<40, 8192, 32768>>
    BY DriverRows
  <2>3. h264_level_limits[8][1] <= row[1]
    BY <1>12, <2>2
  <2> QED BY <2>1, <2>2, <2>3
<1>13. CASE row = <<42, 8704, 34816>>
  <2>1. LevelFits(pp, <<42, 8704, 34816>>)
    BY <1>13 DEF LevelFits
  <2>2. h264_level_limits[9] = <<42, 8704, 34816>>
    BY DriverRows
  <2>3. h264_level_limits[9][1] <= row[1]
    BY <1>13, <2>2
  <2> QED BY <2>1, <2>2, <2>3
<1>14. CASE row = <<50, 22080, 110400>>
  <2>1. LevelFits(pp, <<50, 22080, 110400>>)
    BY <1>14 DEF LevelFits
  <2>2. h264_level_limits[10] = <<50, 22080, 110400>>
    BY DriverRows
  <2>3. h264_level_limits[10][1] <= row[1]
    BY <1>14, <2>2
  <2> QED BY <2>1, <2>2, <2>3
<1>15. CASE row = <<51, 36864, 184320>>
  <2>1. LevelFits(pp, <<51, 36864, 184320>>)
    BY <1>15 DEF LevelFits
  <2>2. h264_level_limits[11] = <<51, 36864, 184320>>
    BY DriverRows
  <2>3. h264_level_limits[11][1] <= row[1]
    BY <1>15, <2>2
  <2> QED BY <2>1, <2>2, <2>3
<1>16. CASE row = <<52, 36864, 184320>>
  <2>1. LevelFits(pp, <<51, 36864, 184320>>)
    BY <1>16 DEF LevelFits
  <2>2. h264_level_limits[11] = <<51, 36864, 184320>>
    BY DriverRows
  <2>3. h264_level_limits[11][1] <= row[1]
    BY <1>16, <2>2
  <2> QED BY <2>1, <2>2, <2>3
<1>17. CASE row = <<60, 139264, 696320>>
  <2>1. LevelFits(pp, <<60, 139264, 696320>>)
    BY <1>17 DEF LevelFits
  <2>2. h264_level_limits[12] = <<60, 139264, 696320>>
    BY DriverRows
  <2>3. h264_level_limits[12][1] <= row[1]
    BY <1>17, <2>2
  <2> QED BY <2>1, <2>2, <2>3
<1>18. CASE row = <<61, 139264, 696320>>
  <2>1. LevelFits(pp, <<60, 139264, 696320>>)
    BY <1>18 DEF LevelFits
  <2>2. h264_level_limits[12] = <<60, 139264, 696320>>
    BY DriverRows
  <2>3. h264_level_limits[12][1] <= row[1]
    BY <1>18, <2>2
  <2> QED BY <2>1, <2>2, <2>3
<1>19. CASE row = <<62, 139264, 696320>>
  <2>1. LevelFits(pp, <<60, 139264, 696320>>)
    BY <1>19 DEF LevelFits
  <2>2. h264_level_limits[12] = <<60, 139264, 696320>>
    BY DriverRows
  <2>3. h264_level_limits[12][1] <= row[1]
    BY <1>19, <2>2
  <2> QED BY <2>1, <2>2, <2>3
<1> QED BY <1>1, <1>2, <1>3, <1>4, <1>5, <1>6, <1>7, <1>8, <1>9, <1>10,
         <1>11, <1>12, <1>13, <1>14, <1>15, <1>16, <1>17, <1>18, <1>19 DEF
         TableA1

(* "H.264 Annex A, table A-1" (h264.c:32): for every picture size and      *)
(* number of reference frames, h264_derive_level_idc picks the lowest of   *)
(* the standard's 19 levels that has room for them, out of a table of 12   *)
(* rows.                                                                   *)
THEOREM LevelIsLeast ==
  ASSUME NEW pp, AvcPicture(pp)
  PROVE  LeastLevel(h264_derive_level_idc(pp), pp)
<1> DEFINE fits == {row \in TableA1 : LevelFits(pp, row)}
           mine == {i \in 1 .. 12 : LevelFits(pp, h264_level_limits[i])}
           level == h264_derive_level_idc(pp)
           least == CHOOSE i \in mine : \A j \in mine : i <= j
<1>1. \A row \in TableA1 : \E l, size, dpb \in Nat : row = <<l, size, dpb>>
  BY DEF TableA1
<1>2. \A row \in TableA1 :
        (/\ Admits(row, width_mbs(pp), height_mbs(pp), pp.num_ref_frames)
         /\ pp.MinLumaBiPredSize8x8 = 1 => row[1] >= 31)
        <=> LevelFits(pp, row)
  <2> SUFFICES ASSUME NEW row \in TableA1
               PROVE  (/\ Admits(row, width_mbs(pp), height_mbs(pp),
                                 pp.num_ref_frames)
                       /\ pp.MinLumaBiPredSize8x8 = 1 => row[1] >= 31)
                      <=> LevelFits(pp, row)
    OBVIOUS
  <2>1. PICK l, size, dpb \in Nat : row = <<l, size, dpb>>
    BY <1>1
  <2>2. row[1] = l
    BY <2>1
  <2> QED BY <2>1, <2>2, AdmitsFits
<1>3. SUFFICES /\ \E row \in TableA1 : row[1] = level
               /\ fits # {} => /\ \E row \in fits : row[1] = level
                               /\ \A row \in fits : level <= row[1]
  <2> HIDE DEF level
  <2> QED BY <1>2 DEF LeastLevel, level
<1>4. level = IF mine = {} THEN 62 ELSE h264_level_limits[least][1]
  <2>1. DOMAIN h264_level_limits = 1 .. 12
    BY DriverRows
  <2> QED BY <2>1 DEF h264_derive_level_idc
<1>5. CASE mine = {}
  <2>1. level = 62
    BY <1>4, <1>5
  <2>2. <<62, 139264, 696320>> \in TableA1
    BY DEF TableA1
  <2>3. fits = {}
    BY <1>5, DriverRowFor
  <2> HIDE DEF level, mine, fits
  <2> QED BY <2>1, <2>2, <2>3
<1>6. CASE mine # {}
  <2>1. \E i \in mine : \A j \in mine : i <= j
    BY <1>6, RowNumbers
  <2>2. least \in mine /\ \A j \in mine : least <= j
    BY <2>1
  <2>3. level = h264_level_limits[least][1]
    BY <1>4, <1>6
  <2> HIDE DEF level, least
  <2>4. h264_level_limits[least] \in fits
    BY <2>2, RowsRise
  <2>5. ASSUME NEW row \in fits PROVE level <= row[1]
    <3>1. PICK i \in mine : h264_level_limits[i][1] <= row[1]
      BY DriverRowFor
    <3>2. h264_level_limits[least][1] <= h264_level_limits[i][1]
      BY <2>2, RowsRise
    <3>3. row[1] \in Nat
      <4>1. PICK l, size, dpb \in Nat : row = <<l, size, dpb>>
        BY <1>1
      <4> QED BY <4>1
    <3>4. /\ h264_level_limits[least][1] \in Nat
          /\ h264_level_limits[i][1] \in Nat
      BY <2>2, RowsRise
    <3> QED BY <2>3, <3>1, <3>2, <3>3, <3>4
  <2> QED BY <2>3, <2>4, <2>5
<1> QED BY <1>5, <1>6

(* The rows of derive_level_idc (hevc.c), one by one.                      *)
LEMMA HevcRows ==
  /\ DOMAIN HevcLevels = 1 .. 8
  /\ HevcLevels[1] = <<36864, 30>>
  /\ HevcLevels[2] = <<122880, 60>>
  /\ HevcLevels[3] = <<245760, 63>>
  /\ HevcLevels[4] = <<552960, 90>>
  /\ HevcLevels[5] = <<983040, 93>>
  /\ HevcLevels[6] = <<2228224, 123>>
  /\ HevcLevels[7] = <<8912896, 156>>
  /\ HevcLevels[8] = <<35651584, 186>>
BY DEF HevcLevels

(* Each of them is a row of the standard's table.                          *)
LEMMA HevcRowStands ==
  \A i \in 1 .. 8 : <<HevcLevels[i][2], HevcLevels[i][1]>> \in TableA8
<1>1. \A i \in 1 .. 8 : \/ i = 1 \/ i = 2 \/ i = 3 \/ i = 4
                        \/ i = 5 \/ i = 6 \/ i = 7 \/ i = 8
  OBVIOUS
<1> QED BY <1>1, HevcRows DEF TableA8

(* derive_level_idc (hevc.c): the level the VPS and the SPS declare holds  *)
(* the picture, for every size up to the largest of table A.8; above it    *)
(* no level of the standard does.                                          *)
THEOREM HevcLevelHolds ==
  ASSUME NEW pp, pp.pic_width_in_luma_samples \in Nat,
         pp.pic_height_in_luma_samples \in Nat,
         \E row \in TableA8 :
           pp.pic_width_in_luma_samples * pp.pic_height_in_luma_samples
             <= row[2]
  PROVE  HoldsPicture(derive_level_idc(pp), pp)
<1> DEFINE samples ==
             pp.pic_width_in_luma_samples * pp.pic_height_in_luma_samples
           fits == {i \in 1 .. 8 : samples <= HevcLevels[i][1]}
           least == CHOOSE i \in fits : \A j \in fits : i <= j
           level == derive_level_idc(pp)
<1>1. samples \in Nat
  OBVIOUS
<1>2. level = IF fits = {} THEN 186 ELSE HevcLevels[least][2]
  BY HevcRows DEF derive_level_idc
<1>3. HoldsPicture(level, pp)
        <=> \E row \in TableA8 : row[1] = level /\ samples <= row[2]
  BY DEF HoldsPicture
<1>4. \E row \in TableA8 : samples <= row[2]
  OBVIOUS
<1> HIDE DEF samples, level
<1>5. samples <= 35651584
  BY <1>1, <1>4 DEF TableA8
<1>6. 8 \in fits
  BY <1>5, HevcRows
<1>7. \E i \in fits : \A j \in fits : i <= j
  <2>1. \A S \in SUBSET (1 .. 8) :
          8 \in S => \E i \in S : \A j \in S : i <= j
    OBVIOUS
  <2> QED BY <1>6, <2>1
<1>8. least \in fits
  BY <1>7
<1> HIDE DEF least
<1>9. level = HevcLevels[least][2]
  BY <1>2, <1>6
<1>10. <<HevcLevels[least][2], HevcLevels[least][1]>> \in TableA8
  BY <1>8, HevcRowStands
<1> QED BY <1>3, <1>8, <1>9, <1>10 DEF level
=============================================================================
