------------------------------- MODULE Encoder -------------------------------
(***************************************************************************)
(* One encode context: BeginPicture, RenderPicture and the synchronous     *)
(* EndPicture (the encoder branches of context.c, and mpp_enc.c) with the  *)
(* coded buffers they fill (buffer.c).                                     *)
(*                                                                         *)
(* EndPicture holds the context's picture_lock throughout, so the calls on *)
(* the context follow one another.  No lock protects a coded buffer: every *)
(* store to coded_ready and coded_failed is a step of its own here, in the *)
(* order of the code, and so are the two reads of SyncBuffer and the       *)
(* stores of BufferSetNumElements, which other threads may run meanwhile.  *)
(* MPP works on its own.  A refused call changes nothing and is left out,  *)
(* except where it leaves something behind.                                *)
(***************************************************************************)
EXTENDS Integers, Sequences

CONSTANTS
  Hevc,         \* c->coding is HEVC, otherwise AVC
  CodedBuffers, \* VAEncCodedBufferType buffers
  NoBuffer,     \* no such buffer
  Syncers,      \* threads that call SyncBuffer
  SeqParams,   \* sequence parameters the application may send: [row, total,
                \* ok], the coding units (macroblocks, CTUs) in a row and in
                \* the picture, which for AVC follow from the context's own
                \* size, and whether the parameters pass validation
  ZeroSequence, \* what the zeroed field of a new context implies
  SliceSizes,   \* num_macroblocks, num_ctu_in_slice
  SliceTypes,   \* what all slices of a picture must have in common
  MaxUnits,     \* UINT32_MAX
  Sizes,        \* sizes of coded buffers and of MPP's packets
  MaxPictures,  \* bound: BeginPicture calls
  MppLate       \* MPP may need longer than the output timeout of a second

ASSUME EncoderAssumption ==
  /\ Hevc \in BOOLEAN
  /\ NoBuffer \notin CodedBuffers
  /\ SeqParams \cup {ZeroSequence} \subseteq
       [row : Nat, total : Nat, ok : BOOLEAN]
  /\ ~Hevc => \A s \in SeqParams :
       s.row = ZeroSequence.row /\ s.total = ZeroSequence.total
  /\ SliceSizes \subseteq Nat
  /\ {MaxUnits, MaxPictures} \subseteq Nat
  /\ Sizes \subseteq Nat \ {0}
  /\ MppLate \in BOOLEAN

VARIABLES
  render,       \* the picture in render_surface, 0 for none
  pictures,     \* ghost: pictures begun
  has_enc_seq, has_enc_pic, has_enc_slice,
  enc_seq,      \* the last sequence parameters, valid or not
  coded_buf,    \* of the last picture parameters
  enc_slice,    \* the first slice: its type and last_slice_of_pic_flag
  slice_count, slice_units, unit_span, last_units,
  declared,     \* ghost: the slices of this picture, in order: where each
                \* starts, its units, the units in a row as it was checked,
                \* and its parameters
  pc,           \* EndPicture: where it is, "idle" if nowhere
  mpp,          \* frames whose packet has not been fetched
  packet,       \* the packet fetched last
  coded,        \* per buffer: coded_ready, coded_failed, capacity and data
  asked,        \* ghost: the picture each buffer was last to be filled with
  sync,         \* per thread: the buffer whose coded_failed SyncBuffer has
                \* found clear, and (ghost) clean: so far the call has not
                \* met a failing EndPicture's stores or a resize
  resize,       \* BufferSetNumElements: the buffer and where it is
  raced         \* ghost: the buffers for which a resize and the stores of
                \* their last EndPicture have overlapped

sliceVars == <<enc_slice, slice_count, slice_units, unit_span, last_units,
               declared>>
hasVars   == <<has_enc_seq, has_enc_pic, has_enc_slice>>
codedVars == <<packet, coded, asked, raced>>
callVars  == <<sync, resize>>
encoderVars == <<render, pictures, hasVars, enc_seq, coded_buf, sliceVars, pc,
                 mpp, codedVars, callVars>>

NoSlice == [type |-> "none", last |-> FALSE]
NoSync   == [buf |-> NoBuffer, clean |-> FALSE]
NoResize == [buf |-> NoBuffer, at |-> "idle"]

EncoderInit ==
  /\ render = 0
  /\ pictures = 0
  /\ has_enc_seq = FALSE
  /\ has_enc_pic = FALSE
  /\ has_enc_slice = FALSE
  /\ enc_seq = ZeroSequence
  /\ coded_buf = NoBuffer
  /\ enc_slice = NoSlice
  /\ slice_count = 0
  /\ slice_units = 0
  /\ unit_span = 0
  /\ last_units = 0
  /\ declared = <<>>
  /\ pc = "idle"
  /\ mpp = <<>>
  /\ packet = [pic |-> 0, len |-> 0]
  /\ coded \in [CodedBuffers -> {[ready |-> FALSE, failed |-> FALSE,
                                  cap |-> n, pic |-> 0, len |-> 0]
                                 : n \in Sizes}]
  /\ asked = [b \in CodedBuffers |-> 0]
  /\ sync = [t \in Syncers |-> NoSync]
  /\ resize = NoResize
  /\ raced = {}

(***************************************************************************)
(* BeginPicture and RenderPicture.                                         *)
(***************************************************************************)
SlicesCleared ==
  /\ has_enc_pic' = FALSE
  /\ has_enc_slice' = FALSE
  /\ slice_count' = 0
  /\ slice_units' = 0
  /\ unit_span' = 0
  /\ last_units' = 0
  /\ declared' = <<>>
  /\ UNCHANGED enc_slice

(* A second BeginPicture before EndPicture is refused.                     *)
begin_picture ==
  /\ pc = "idle" /\ render = 0
  /\ pictures < MaxPictures
  /\ pictures' = pictures + 1
  /\ render' = pictures + 1
  /\ SlicesCleared
  /\ UNCHANGED <<has_enc_seq, enc_seq, coded_buf, pc, mpp, codedVars,
                 callVars>>

Rendering == pc = "idle" /\ render # 0

(* The parameters are copied in before they are validated.                 *)
render_sequence(s) ==
  /\ Rendering
  /\ enc_seq' = s
  /\ has_enc_seq' = (has_enc_seq \/ s.ok)
  /\ UNCHANGED <<render, pictures, has_enc_pic, has_enc_slice, coded_buf,
                 sliceVars, pc, mpp, codedVars, callVars>>

render_picture(b, ok) ==
  /\ Rendering
  /\ Hevc \/ ok
  /\ coded_buf' = b
  /\ has_enc_pic' = (has_enc_pic \/ ok)
  /\ UNCHANGED <<render, pictures, has_enc_seq, has_enc_slice, enc_seq,
                 sliceVars, pc, mpp, codedVars, callVars>>

(* Slip: a slice may be longer than the first one.                         *)
add_encoder_slice_unequal(address, units) ==
  /\ units # 0 /\ enc_seq.row # 0
  /\ address = slice_units
  /\ address % enc_seq.row = 0
  /\ units % enc_seq.row = 0
  /\ units <= MaxUnits - slice_units

(* add_encoder_slice: whole rows, right behind the slices before, which    *)
(* were all as long as the first; a shorter one must be the last.          *)
add_encoder_slice(address, units) ==
  /\ units # 0 /\ enc_seq.row # 0
  /\ address = slice_units
  /\ address % enc_seq.row = 0
  /\ units % enc_seq.row = 0
  /\ slice_count # 0 => last_units = unit_span /\ units <= unit_span
  /\ units <= MaxUnits - slice_units

Compatible(slice) ==
  slice_count # 0 => /\ enc_slice.type = slice.type
                     /\ ~(Hevc /\ enc_slice.last)

(* One element of a slice parameter buffer; has_enc_slice follows the last *)
(* element of a buffer none of whose elements was refused.                 *)
render_slice(address, units, slice, ends_buffer) ==
  /\ Rendering
  /\ Compatible(slice)
  /\ add_encoder_slice(address, units)
  /\ unit_span' = IF slice_count = 0 THEN units ELSE unit_span
  /\ slice_count' = slice_count + 1
  /\ slice_units' = slice_units + units
  /\ last_units' = units
  /\ enc_slice' = IF slice_count = 0 THEN slice
                  ELSE [enc_slice EXCEPT !.last = @ \/ (Hevc /\ slice.last)]
  /\ declared' = Append(declared, [at |-> address, units |-> units,
                                   row |-> enc_seq.row, slice |-> slice])
  /\ has_enc_slice' = (has_enc_slice \/ ends_buffer)
  /\ UNCHANGED <<render, pictures, has_enc_seq, has_enc_pic, enc_seq,
                 coded_buf, pc, mpp, codedVars, callVars>>
-----------------------------------------------------------------------------
(***************************************************************************)
(* EndPicture, which runs rk_mpp_enc_encode.                               *)
(***************************************************************************)

(* What rk_mpp_enc_encode checks before it touches the coded buffer.       *)
Encodable ==
  /\ has_enc_seq /\ has_enc_pic /\ has_enc_slice
  /\ slice_units = enc_seq.total
  /\ Hevc => enc_slice.last

PictureClosed ==
  /\ render' = 0
  /\ SlicesCleared

encode_refused ==
  /\ Rendering
  /\ ~(Encodable /\ coded_buf # NoBuffer)
  /\ PictureClosed
  /\ UNCHANGED <<pictures, has_enc_seq, enc_seq, coded_buf, pc, mpp,
                 codedVars, callVars>>

(* What EndPicture leaves alone until it is done with the picture.         *)
UnchangedPicture ==
  UNCHANGED <<render, pictures, hasVars, enc_seq, coded_buf, sliceVars>>

(* Slip: the buffer stays ready from its last use.                         *)
encode_begin_unreset ==
  /\ Rendering
  /\ Encodable /\ coded_buf # NoBuffer
  /\ asked' = [asked EXCEPT ![coded_buf] = render]
  /\ raced' = raced \ {coded_buf}
  /\ pc' = "reset"
  /\ UnchangedPicture
  /\ UNCHANGED <<mpp, packet, coded, callVars>>

(* coded_ready, then coded_failed.                                         *)
encode_begin ==
  /\ Rendering
  /\ Encodable /\ coded_buf # NoBuffer
  /\ coded' = [coded EXCEPT ![coded_buf].ready = FALSE]
  /\ asked' = [asked EXCEPT ![coded_buf] = render]
  /\ raced' = raced \ {coded_buf}
  /\ pc' = "reset"
  /\ UnchangedPicture
  /\ UNCHANGED <<mpp, packet, callVars>>

encode_reset ==
  /\ pc = "reset"
  /\ coded' = [coded EXCEPT ![coded_buf].failed = FALSE]
  /\ pc' = "put"
  /\ UnchangedPicture
  /\ UNCHANGED <<mpp, packet, asked, raced, callVars>>

(* EndPicture turns to the stores that publish its result.                 *)
Storing == {"copy", "stored", "published", "overflow", "overflowed", "fail",
            "failing"}

StoreBegins(at) ==
  /\ pc' = at
  /\ raced' = raced \cup ({resize.buf} \cap {coded_buf})
  /\ UnchangedPicture
  /\ UNCHANGED <<asked, callVars>>

(* The input cannot be converted, MPP refuses the configuration, the IDR   *)
(* request or the frame.                                                   *)
put_failed ==
  /\ pc = "put"
  /\ StoreBegins("fail")
  /\ UNCHANGED <<mpp, packet, coded>>

encode_put_frame ==
  /\ pc = "put"
  /\ mpp' = Append(mpp, render)
  /\ pc' = "get"
  /\ UnchangedPicture
  /\ UNCHANGED <<codedVars, callVars>>

(* Slip: what does not fit is stored all the same.                         *)
store_coded_unchecked(len) ==
  /\ UNCHANGED coded
  /\ StoreBegins("copy")

(* The check of rk_buffer_store_coded: the packet is copied, or the        *)
(* segment is emptied.                                                     *)
rk_buffer_store_coded(len) ==
  \/ /\ len > coded[coded_buf].cap
     /\ coded' = [coded EXCEPT ![coded_buf].len = 0]
     /\ StoreBegins("overflow")
  \/ /\ len <= coded[coded_buf].cap
     /\ UNCHANGED coded
     /\ StoreBegins("copy")

(* encode_get_packet returns MPP's oldest packet.                          *)
encode_get_packet(len) ==
  /\ pc = "get"
  /\ packet' = [pic |-> Head(mpp), len |-> len]
  /\ mpp' = Tail(mpp)
  /\ rk_buffer_store_coded(len)

(* MPP fails the oldest frame or returns an empty packet for it; or it is  *)
(* late, and the packet stays behind.                                      *)
get_failed(late) ==
  /\ pc = "get"
  /\ late => MppLate
  /\ mpp' = IF late THEN mpp ELSE Tail(mpp)
  /\ StoreBegins("fail")
  /\ UNCHANGED <<packet, coded>>

copy_packet ==
  /\ pc = "copy"
  /\ coded' = [coded EXCEPT ![coded_buf].pic = packet.pic,
                            ![coded_buf].len = packet.len]
  /\ pc' = "stored"
  /\ UnchangedPicture
  /\ UNCHANGED <<mpp, packet, asked, raced, callVars>>

(* The calls that look at b at this moment meet something they should not. *)
Met(b) == [t \in Syncers |-> IF sync[t].buf = b
                               THEN [sync[t] EXCEPT !.clean = FALSE]
                               ELSE sync[t]]

(* The verdict is stored in two steps, coded_ready first; an overflow is   *)
(* stored by rk_buffer_store_coded and then again by rk_mpp_enc_encode.    *)
store_ready ==
  /\ pc \in {"stored", "overflow", "fail"}
  /\ coded' = [coded EXCEPT ![coded_buf].ready = TRUE]
  /\ pc' = CASE pc = "stored"   -> "published"
             [] pc = "overflow" -> "overflowed"
             [] pc = "fail"     -> "failing"
  /\ sync' = IF pc = "stored" THEN sync ELSE Met(coded_buf)
  /\ UnchangedPicture
  /\ UNCHANGED <<mpp, packet, asked, raced, resize>>

overflow_failed ==
  /\ pc = "overflowed"
  /\ coded' = [coded EXCEPT ![coded_buf].failed = TRUE]
  /\ pc' = "fail"
  /\ UnchangedPicture
  /\ UNCHANGED <<mpp, packet, asked, raced, callVars>>

encode_ends ==
  /\ pc \in {"published", "failing"}
  /\ coded' = [coded EXCEPT ![coded_buf].failed = (pc = "failing")]
  /\ pc' = "idle"
  /\ PictureClosed
  /\ UNCHANGED <<pictures, has_enc_seq, enc_seq, coded_buf, mpp, packet,
                 asked, raced, callVars>>

-----------------------------------------------------------------------------
(***************************************************************************)
(* What other threads do to a coded buffer.                                *)
(***************************************************************************)

(* SyncBuffer: coded_failed is clear; if it is set the call says so and is *)
(* done.  A failing EndPicture that has stored coded_ready and not yet     *)
(* coded_failed is met at once.                                            *)
sync_look(t, b) ==
  /\ sync[t] = NoSync
  /\ ~coded[b].failed
  /\ sync' = [sync EXCEPT ![t] =
       [buf   |-> b,
        clean |-> /\ b = coded_buf => pc \notin {"overflowed", "failing"}
                  /\ resize.buf # b]]
  /\ UnchangedPicture
  /\ UNCHANGED <<pc, mpp, codedVars, resize>>

(* ... and the answer, once it reads coded_ready.                          *)
rk_SyncBuffer(t) ==
  IF coded[sync[t].buf].ready THEN "VA_STATUS_SUCCESS"
                              ELSE "VA_STATUS_ERROR_TIMEDOUT"

sync_answer(t) ==
  /\ sync[t].buf # NoBuffer
  /\ rk_SyncBuffer(t) \in {"VA_STATUS_SUCCESS", "VA_STATUS_ERROR_TIMEDOUT"}
  /\ sync' = [sync EXCEPT ![t] = NoSync]
  /\ UnchangedPicture
  /\ UNCHANGED <<pc, mpp, codedVars, resize>>

(* BufferSetNumElements replaces the storage at any time, and takes the    *)
(* two flags back one after the other.                                     *)
rk_BufferSetNumElements(b, cap) ==
  /\ resize = NoResize
  /\ coded' = [coded EXCEPT ![b].cap = cap, ![b].len = 0]
  /\ resize' = [buf |-> b, at |-> "ready"]
  /\ sync' = Met(b)
  /\ raced' = IF b = coded_buf /\ pc \in Storing THEN raced \cup {b} ELSE raced
  /\ UnchangedPicture
  /\ UNCHANGED <<pc, mpp, packet, asked>>

resize_ready ==
  /\ resize.at = "ready"
  /\ coded' = [coded EXCEPT ![resize.buf].ready = FALSE]
  /\ resize' = [resize EXCEPT !.at = "failed"]
  /\ UnchangedPicture
  /\ UNCHANGED <<pc, mpp, packet, asked, raced, sync>>

resize_failed ==
  /\ resize.at = "failed"
  /\ coded' = [coded EXCEPT ![resize.buf].failed = FALSE]
  /\ resize' = NoResize
  /\ UnchangedPicture
  /\ UNCHANGED <<pc, mpp, packet, asked, raced, sync>>

-----------------------------------------------------------------------------
Slices == [type : SliceTypes, last : BOOLEAN]

EncoderNext ==
  \/ begin_picture
  \/ \E s \in SeqParams : render_sequence(s)
  \/ \E b \in CodedBuffers \cup {NoBuffer}, ok \in BOOLEAN :
       render_picture(b, ok)
  \/ \E address \in 0..MaxUnits, units \in SliceSizes, slice \in Slices,
        ends_buffer \in BOOLEAN :
       render_slice(address, units, slice, ends_buffer)
  \/ encode_refused
  \/ encode_begin \/ encode_reset
  \/ put_failed
  \/ encode_put_frame
  \/ \E len \in Sizes : encode_get_packet(len)
  \/ \E late \in BOOLEAN : get_failed(late)
  \/ copy_packet
  \/ store_ready \/ overflow_failed \/ encode_ends
  \/ \E t \in Syncers, b \in CodedBuffers : sync_look(t, b)
  \/ \E t \in Syncers : sync_answer(t)
  \/ \E b \in CodedBuffers, cap \in Sizes : rk_BufferSetNumElements(b, cap)
  \/ resize_ready \/ resize_failed

EncoderSpec == EncoderInit /\ [][EncoderNext]_encoderVars

-----------------------------------------------------------------------------
(***************************************************************************)
(* Properties.                                                             *)
(***************************************************************************)

Declared == [at : 0..MaxUnits, units : SliceSizes, row : Nat, slice : Slices]

(* The shape of the context's parameters and of the coded buffers.         *)
TypeOK ==
  /\ render \in 0..MaxPictures
  /\ pictures \in 0..MaxPictures
  /\ {has_enc_seq, has_enc_pic, has_enc_slice} \subseteq BOOLEAN
  /\ enc_seq \in SeqParams \cup {ZeroSequence}
  /\ coded_buf \in CodedBuffers \cup {NoBuffer}
  /\ enc_slice \in Slices \cup {NoSlice}
  /\ slice_count \in Nat
  /\ slice_units \in 0..MaxUnits
  /\ {unit_span, last_units} \subseteq SliceSizes \cup {0}
  /\ declared \in Seq(Declared)
  /\ pc \in {"idle", "reset", "put", "get"} \cup Storing
  /\ mpp \in Seq(1..MaxPictures)
  /\ packet \in [pic : 0..MaxPictures, len : Sizes \cup {0}]
  /\ coded \in [CodedBuffers -> [ready : BOOLEAN, failed : BOOLEAN,
                                 cap : Sizes, pic : 0..MaxPictures,
                                 len : Sizes \cup {0}]]
  /\ asked \in [CodedBuffers -> 0..MaxPictures]
  /\ sync \in [Syncers -> [buf : CodedBuffers \cup {NoBuffer},
                            clean : BOOLEAN]]
  /\ resize \in [buf : CodedBuffers, at : {"ready", "failed"}]
                 \cup {NoResize}
  /\ raced \subseteq CodedBuffers

(* Where MPP puts the k-th boundary: after k * split:arg units, or at the  *)
(* end of the picture.                                                     *)
SplitAt(k) ==
  IF slice_count = 1 \/ k * unit_span > enc_seq.total THEN enc_seq.total
                                                      ELSE k * unit_span

(* Where the k-th slice ends, as the application declared it.              *)
DeclaredEnd(k) == declared[k].at + declared[k].units

(* The CTU size may change between two slices of a picture, or after them: *)
(* sequence parameters may come at any time.                               *)
SameRows == \A k \in DOMAIN declared : declared[k].row = enc_seq.row

(* "The driver rejects gaps, overlaps, partial-row slices, unequal         *)
(* non-final heights, and totals that do not cover the frame before        *)
(* programming MPP's row split" (docs/DEVELOPMENT.md:602): the picture     *)
(* handed to MPP is cut where the application declared its slices to end   *)
(* and the next to start, and the last slice alone is the one flagged      *)
(* last.  The cuts are at ends of rows if all slices were checked against  *)
(* the rows of the picture: the driver does not check them again when      *)
(* sequence parameters with another CTU size follow.                       *)
SplitAsDeclared ==
  pc = "put" =>
    /\ declared # <<>>
    /\ declared[1].at = 0 /\ DeclaredEnd(Len(declared)) = enc_seq.total
    /\ \A k \in DOMAIN declared :
         /\ SplitAt(k) = DeclaredEnd(k)
         /\ k < Len(declared) => SplitAt(k) = declared[k + 1].at
         /\ SameRows => SplitAt(k) % enc_seq.row = 0
         /\ declared[k].slice.type = declared[1].slice.type
         /\ Hevc => (declared[k].slice.last <=> k = Len(declared))

(* A SyncBuffer that is about to answer success.  It has met neither the   *)
(* two stores of a failing EndPicture nor a resize, and no resize has      *)
(* overlapped the stores of the buffer's last EndPicture: nothing in the   *)
(* driver keeps these apart, and such a call may succeed on a buffer with  *)
(* nothing in it.                                                          *)
Synced(t) ==
  /\ sync[t].clean /\ sync[t].buf \notin raced
  /\ rk_SyncBuffer(t) = "VA_STATUS_SUCCESS"

(* "vaEndPicture submits the normalized NV12 buffer to rkvenc2, waits for  *)
(* one MPP packet, and publishes it" (docs/DEVELOPMENT.md:577): a coded    *)
(* buffer that syncs holds the packet of the picture it was passed with,   *)
(* also when the call runs while EndPicture takes the last verdict back or *)
(* publishes a packet.  The calls meant are those of Synced.               *)
CodedHoldsItsPicture ==
  \A t \in Syncers :
    Synced(t) => coded[sync[t].buf].pic = asked[sync[t].buf]

(* "Coded-buffer overflow fails closed" (docs/DEVELOPMENT.md:579): a       *)
(* buffer that syncs has all of the packet in it, also after it was        *)
(* resized before the packet came.  The calls meant are those of Synced.   *)
CodedFits ==
  \A t \in Syncers :
    Synced(t) => coded[sync[t].buf].len \in 1..coded[sync[t].buf].cap
=============================================================================
