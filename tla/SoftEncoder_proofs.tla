------------------------- MODULE SoftEncoder_proofs -------------------------
(* Theorems about SoftEncoder, for every size of pictures, boxes and output. *)
EXTENDS SoftEncoder, TLAPS

-----------------------------------------------------------------------------
(* Sizes and areas.                                                        *)

Dims == [w : Nat, h : Nat]
Buffers == [dims : Dims, room : Nat]

LEMMA ProductInNat == ASSUME NEW m \in Nat, NEW n \in Nat PROVE m * n \in Nat
OBVIOUS

\* A larger factor gives a larger product.
LEMMA ProductGrows ==
  ASSUME NEW k \in Nat, NEW m \in Nat, NEW n \in Nat, m <= n
  PROVE  m * k <= n * k
<1>1. m + (n - m) = n /\ n - m \in Nat
  OBVIOUS
<1>2. (m + (n - m)) * k = m * k + (n - m) * k
  BY <1>1
<1>3. (n - m) * k \in Nat /\ m * k \in Nat
  BY <1>1, ProductInNat
<1> QED
  BY <1>1, <1>2, <1>3

LEMMA AreaInNat == ASSUME NEW d \in Dims PROVE Area(d) \in Nat
BY ProductInNat DEF Dims, Area

LEMMA OrientedDims ==
  ASSUME NEW d \in Dims, NEW turned \in BOOLEAN
  PROVE  Oriented(d, turned) \in Dims
BY DEF Oriented, Turned, Dims

\* What lies within a picture, also lies within it turned.
LEMMA SmallerArea ==
  ASSUME NEW d \in Dims, NEW box \in Dims, box.w <= d.w, box.h <= d.h, NEW turned \in BOOLEAN
  PROVE  Area(Oriented(box, turned)) <= Area(Oriented(d, turned))
<1>1. box.w * box.h <= d.w * box.h
  BY ProductGrows DEF Dims
<1>2. box.h * d.w <= d.h * d.w
  BY ProductGrows DEF Dims
<1>3. /\ box.w * box.h = box.h * box.w /\ box.h * d.w = d.w * box.h /\ d.h * d.w = d.w * d.h
      /\ box.w * box.h \in Nat /\ d.w * box.h \in Nat /\ d.w * d.h \in Nat
  BY ProductInNat DEF Dims
<1>4. box.w * box.h <= d.w * d.h
  BY <1>1, <1>2, <1>3
<1>5. Area(Oriented(box, turned)) = box.w * box.h /\ Area(Oriented(d, turned)) = d.w * d.h
  BY <1>3 DEF Area, Oriented, Turned
<1> QED
  BY <1>4, <1>5

LEMMA NewBufferFits ==
  ASSUME NEW d \in Dims
  PROVE  Buffer(d) \in Buffers /\ Fits(Buffer(d)) /\ Buffer(d).dims = d
BY AreaInNat DEF Buffer, Buffers, Fits

LEMMA ResizedFits ==
  ASSUME NEW b \in Buffers, Fits(b), NEW d \in Dims
  PROVE  Resized(b, d) \in Buffers /\ Fits(Resized(b, d)) /\ Resized(b, d).dims = d
BY NewBufferFits DEF Resized

LEMMA CroppedFits ==
  ASSUME NEW b \in Buffers, Fits(b), NEW d \in Dims, NEW box \in Dims,
         box.w <= d.w, box.h <= d.h, NEW turned \in BOOLEAN
  PROVE  LET c == [Recycled(b, Oriented(d, turned)) EXCEPT !.dims = Oriented(box, turned)]
         IN  c \in Buffers /\ Fits(c)
<1> DEFINE r == Recycled(b, Oriented(d, turned))
<1> DEFINE c == [r EXCEPT !.dims = Oriented(box, turned)]
<1>1. r \in Buffers /\ Fits(r) /\ r.dims = Oriented(d, turned)
  BY OrientedDims, ResizedFits DEF Recycled
<1>2. Oriented(box, turned) \in Dims
  BY OrientedDims
<1>3. c \in Buffers /\ c.dims = Oriented(box, turned) /\ c.room = r.room
  BY <1>1, <1>2 DEF Buffers
<1>4. Area(Oriented(d, turned)) <= r.room
  BY <1>1 DEF Fits
<1>5. Area(Oriented(box, turned)) <= Area(Oriented(d, turned))
  BY SmallerArea
<1>6. /\ Area(Oriented(box, turned)) \in Nat /\ Area(Oriented(d, turned)) \in Nat
      /\ r.room \in Nat
  BY <1>1, OrientedDims, AreaInNat DEF Buffers
<1> QED
  BY <1>3, <1>4, <1>5, <1>6 DEF Fits

-----------------------------------------------------------------------------
(* Buffers.                                                                *)

Sized(buffer) == buffer \in Buffers /\ Fits(buffer)

Buffered ==
  /\ out \in Dims
  /\ Sized(rotated) /\ Sized(scaled) /\ Sized(nv12)

LEMMA BufferedInit == Init => Buffered
<1>1. None \in Dims /\ Portrait \in Dims
  BY SoftEncoderConstants DEF SoftEncoderConstants, None, Dims
<1> QED
  BY <1>1, NewBufferFits DEF Init, Buffered, Sized

LEMMA SetResolutionFits ==
  ASSUME Buffered, NEW d \in Dims, SetResolution(d)
  PROVE  Sized(rotated') /\ Sized(scaled') /\ Sized(nv12') /\ scaled'.dims = d
BY ResizedFits DEF Buffered, Sized, SetResolution

LEMMA ConvertFits ==
  ASSUME Buffered, NEW d \in Dims, NEW turned \in BOOLEAN, Convert(d, turned)
  PROVE  Sized(rotated') /\ Sized(scaled') /\ Sized(nv12')
BY OrientedDims, ResizedFits DEF Buffered, Sized, Convert

LEMMA ConvertCroppedFits ==
  ASSUME Buffered, NEW d \in Dims, NEW box \in Dims, box.w <= d.w, box.h <= d.h,
         NEW turned \in BOOLEAN, ConvertCropped(d, box, turned)
  PROVE  Sized(rotated') /\ Sized(scaled') /\ Sized(nv12')
BY CroppedFits DEF Buffered, Sized, ConvertCropped

LEMMA BufferedNext == Buffered /\ [Next]_vars => Buffered'
<1> SUFFICES ASSUME Buffered, [Next]_vars PROVE Buffered'
  OBVIOUS
<1> USE DEF Buffered, countVars, bufferVars, encoderVars
<1>c. Portrait \in Dims /\ Turned(Portrait) \in Dims /\ Pictures \subseteq Dims
  BY SoftEncoderConstants DEF SoftEncoderConstants, Turned, Dims
<1>1. CASE Start
  BY <1>1, SetResolutionFits DEF Start
<1>2. CASE Stop \/ Switch
  BY <1>2 DEF Stop, Switch
<1>3. ASSUME NEW d \in {Portrait, Turned(Portrait)}, SetOrientation(d)
      PROVE  Buffered'
  BY <1>c, <1>3, SetResolutionFits DEF SetOrientation
<1>4. ASSUME NEW d \in Pictures, NEW turned \in BOOLEAN, SoftFrame(d, turned)
      PROVE  Buffered'
  BY <1>c, <1>4, ConvertFits DEF SoftFrame, Frame
<1>5. ASSUME NEW d \in Pictures, NEW turned \in BOOLEAN,
             NEW box \in {b \in Pictures : b.w <= d.w /\ b.h <= d.h}, HardFrame(d, box, turned)
      PROVE  Buffered'
  BY <1>c, <1>5, ConvertFits, ConvertCroppedFits DEF HardFrame, Frame
<1>6. CASE UNCHANGED vars
  BY <1>6 DEF vars
<1> QED
  BY <1>1, <1>2, <1>3, <1>4, <1>5, <1>6 DEF Next

\* No plane of a frame reaches beyond its buffer, for pictures, boxes and
\* outputs of every size and in any order: what convert_to_i420(),
\* convert_to_i420_with_crop_scale() and setEncoderResolution() of libenc.cc
\* compare suffices, although a crop shrinks a frame in a larger buffer.
THEOREM PlanesInBuffers == Spec => []BuffersFit
<1>1. Buffered => BuffersFit
  BY DEF Buffered, Sized, BuffersFit
<1> QED
  BY <1>1, BufferedInit, BufferedNext, PTL DEF Spec

-----------------------------------------------------------------------------
(* The encoder.                                                            *)

LEMMA OpenNext == Buffered /\ EncoderReadsFrame /\ [Next]_vars => EncoderReadsFrame'
<1> SUFFICES ASSUME Buffered, EncoderReadsFrame, [Next]_vars PROVE EncoderReadsFrame'
  OBVIOUS
<1> USE DEF EncoderReadsFrame, countVars, bufferVars, encoderVars
<1>1. CASE Start
  <2>1. scaled'.dims = out /\ useSoft' = useSoft
    BY <1>1, SetResolutionFits DEF Start, Buffered
  <2>2. running' /\ useSoft => encoder' = out
    BY <1>1 DEF Start, Open, OpenedFor
  <2> QED
    BY <2>1, <2>2
<1>2. CASE Stop \/ Switch
  BY <1>2 DEF Stop, Switch
<1>3. ASSUME NEW d, SetOrientation(d)
      PROVE  EncoderReadsFrame'
  BY <1>3 DEF SetOrientation
<1>4. ASSUME NEW d, NEW turned, SoftFrame(d, turned)
      PROVE  EncoderReadsFrame'
  BY <1>4 DEF SoftFrame, Frame, Convert
<1>5. ASSUME NEW d, NEW turned, NEW box, HardFrame(d, box, turned)
      PROVE  EncoderReadsFrame'
  BY <1>5 DEF HardFrame, Frame
<1>6. CASE UNCHANGED vars
  BY <1>6 DEF vars
<1> QED
  BY <1>1, <1>2, <1>3, <1>4, <1>5, <1>6 DEF Next

\* x264 reads frames of the size it was opened for, through every change of
\* orientation and kind of encoder between sessions.
THEOREM EncoderFitsFrame == Spec => []EncoderReadsFrame
<1>1. Init => EncoderReadsFrame
  BY DEF Init, EncoderReadsFrame
<1> QED
  BY <1>1, OpenNext, BufferedInit, BufferedNext, PTL DEF Spec

\* A session that has put out nothing owes its header.
Owed == HeaderLeads /\ (running /\ useSoft /\ stream = "nothing" => headerDue)

LEMMA OwedNext == Owed /\ [Next]_vars => Owed'
<1> SUFFICES ASSUME Owed, [Next]_vars PROVE Owed'
  OBVIOUS
<1> USE DEF Owed, HeaderLeads, countVars, bufferVars, encoderVars
<1>1. CASE Start
  BY <1>1 DEF Start, Open, DueAgain
<1>2. CASE Stop \/ Switch
  BY <1>2 DEF Stop, Switch
<1>3. ASSUME NEW d, SetOrientation(d)
      PROVE  Owed'
  BY <1>3 DEF SetOrientation
<1>4. ASSUME NEW d, NEW turned, SoftFrame(d, turned)
      PROVE  Owed'
  BY <1>4 DEF SoftFrame, Frame
<1>5. ASSUME NEW d, NEW turned, NEW box, HardFrame(d, box, turned)
      PROVE  Owed'
  BY <1>5 DEF HardFrame, Frame
<1>6. CASE UNCHANGED vars
  BY <1>6 DEF vars
<1> QED
  BY <1>1, <1>2, <1>3, <1>4, <1>5, <1>6 DEF Next

\* The stream of every encoder begins with its header, in any number of
\* sessions: openSoftEncoder() sets global_nal_header again each time.
THEOREM HeaderComesFirst == Spec => []HeaderLeads
<1>1. Init => Owed
  BY DEF Init, Owed, HeaderLeads
<1>2. Owed => HeaderLeads
  BY DEF Owed
<1> QED
  BY <1>1, <1>2, OwedNext, PTL DEF Spec

=============================================================================
