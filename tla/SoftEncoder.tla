---------------------------- MODULE SoftEncoder ----------------------------
(***************************************************************************)
(* The native library libenc.cc, which converts and scales pictures for a  *)
(* hardware codec or encodes them with x264, and SrsEncoder.java as its    *)
(* caller. Everything is static in the library: it keeps buffers and an    *)
(* encoder from one session to the next, while resolution, orientation and *)
(* kind of encoder change.                                                 *)
(*                                                                         *)
(* Calls are sequential: the capture threads are joined before a session   *)
(* stops (CodecAlive of Capture.tla). A picture is its width and height; a *)
(* buffer also remembers the area it was allocated for, on which the       *)
(* offsets of its planes depend. libyuv and x264 are external.             *)
(***************************************************************************)
EXTENDS Naturals

CONSTANTS
  Pictures,    \* widths and heights of pictures, and of boxes to crop
  Portrait,    \* the output's width and height in portrait
  MaxStarts, MaxFrames

ASSUME SoftEncoderConstants ==
  /\ Pictures \subseteq [w : Nat, h : Nat] /\ Portrait \in [w : Nat, h : Nat]
  /\ MaxStarts \in Nat /\ MaxFrames \in Nat

Area(d) == d.w * d.h

Turned(d) == [w |-> d.h, h |-> d.w]

None == [w |-> 0, h |-> 0]

\* A buffer that was allocated for its dimensions.
Buffer(d) == [dims |-> d, room |-> Area(d)]

VARIABLES
  starts, frames,
  out,          \* SrsEncoder.vOutWidth and vOutHeight
  useSoft,      \* useSoftEncoder
  running,      \* start() returned true
  rotated,      \* i420_rotated_frame
  scaled,       \* i420_scaled_frame
  nv12,         \* nv12_frame
  encoder,      \* the picture size x264_ctx.encoder was opened for, or None
  headerDue,    \* global_nal_header
  stream        \* history: what the encoder put out: "nothing", "header", "frames"

countVars == <<starts, frames>>
bufferVars == <<rotated, scaled, nv12>>
encoderVars == <<encoder, headerDue, stream>>
vars == <<countVars, out, useSoft, running, bufferVars, encoderVars>>

Init ==
  /\ starts = 0 /\ frames = 0
  /\ out = Portrait /\ useSoft = FALSE /\ running = FALSE
  /\ rotated = Buffer(None) /\ scaled = Buffer(None) /\ nv12 = Buffer(None)
  /\ encoder = None /\ headerDue = FALSE /\ stream = "nothing"

-----------------------------------------------------------------------------
(* The session.                                                            *)

\* A buffer is allocated again if it has other dimensions.
Resized(buffer, d) == IF buffer.dims = d THEN buffer ELSE Buffer(d)

\* setEncoderResolution().
SetResolution(d) ==
  /\ scaled' = Resized(scaled, d)
  /\ nv12' = Resized(nv12, d)
  /\ UNCHANGED rotated

\* Mutant: the header is put out once.
DueOnce(first) == first \/ headerDue

DueAgain(first) == TRUE

\* Mutant: an encoder that is open is used again.
KeptOpen(d) == IF encoder = None THEN d ELSE encoder

OpenedFor(d) == d

\* openSoftEncoder(); an encoder that is open is forgotten.
Open ==
  /\ headerDue' = DueAgain(starts = 0)
  /\ \/ encoder' = OpenedFor(out) /\ stream' = "nothing"
     \/ encoder' = None /\ UNCHANGED stream

\* SrsEncoder.start(): any of its codecs may fail.
Start ==
  /\ starts < MaxStarts
  /\ starts' = starts + 1
  /\ SetResolution(out)
  /\ IF useSoft THEN Open ELSE UNCHANGED encoderVars
  /\ running' \in (IF useSoft /\ encoder' = None THEN {FALSE} ELSE BOOLEAN)
  /\ UNCHANGED <<frames, out, useSoft>>

\* SrsEncoder.stop(): closeSoftEncoder().
Stop ==
  /\ running' = FALSE
  /\ encoder' = IF useSoft THEN None ELSE encoder
  /\ UNCHANGED <<countVars, out, useSoft, bufferVars, headerDue, stream>>

\* setScreenOrientation(), after stopEncode().
SetOrientation(d) ==
  /\ ~running
  /\ out' = d
  /\ SetResolution(d)
  /\ UNCHANGED <<countVars, useSoft, running, encoderVars>>

\* switchToSoftEncoder() and switchToHardEncoder(), between sessions.
Switch ==
  /\ ~running
  /\ useSoft' = ~useSoft
  /\ UNCHANGED <<countVars, out, running, bufferVars, encoderVars>>

-----------------------------------------------------------------------------
(* Pictures.                                                               *)

\* A picture that is turned by 90 degrees, or not; SrsEncoder.java only turns by
\* 0 and 180 degrees.
Oriented(d, turned) == IF turned THEN Turned(d) ELSE d

\* convert_to_i420().
Convert(d, turned) ==
  /\ rotated' = Resized(rotated, Oriented(d, turned))
  /\ UNCHANGED <<scaled, nv12>>

\* Mutant: a picture of the same width needs no other buffer.
SameWidth(buffer, d) == IF buffer.dims.w = d.w THEN buffer ELSE Buffer(d)

Recycled(buffer, d) == Resized(buffer, d)

\* convert_to_i420_with_crop_scale(): the buffer is allocated for the picture,
\* and then has the dimensions of the box.
ConvertCropped(d, box, turned) ==
  /\ rotated' = [Recycled(rotated, Oriented(d, turned)) EXCEPT !.dims = Oriented(box, turned)]
  /\ UNCHANGED <<scaled, nv12>>

Frame ==
  /\ running /\ frames < MaxFrames
  /\ frames' = frames + 1
  /\ UNCHANGED <<starts, out, useSoft, running>>

\* RGBAToI420() and the like: a picture for a hardware codec.
HardFrame(d, box, turned) ==
  /\ ~useSoft /\ Frame
  /\ Convert(d, turned) \/ ConvertCropped(d, box, turned)
  /\ UNCHANGED encoderVars

\* RGBASoftEncode(): the header of the stream, instead of the first picture; or
\* what x264 makes of a picture, perhaps nothing. A conversion may fail.
SoftFrame(d, turned) ==
  /\ useSoft /\ Frame
  /\ Convert(d, turned)
  /\ \/ UNCHANGED encoderVars
     \/ headerDue /\ headerDue' = FALSE /\ stream' = "header" /\ UNCHANGED encoder
     \/ ~headerDue /\ stream' = (IF stream = "nothing" THEN "headless" ELSE "frames")
                   /\ UNCHANGED <<encoder, headerDue>>

-----------------------------------------------------------------------------
Next ==
  \/ Start \/ Stop \/ Switch
  \/ \E d \in {Portrait, Turned(Portrait)} : SetOrientation(d)
  \/ \E d \in Pictures, turned \in BOOLEAN :
       \/ SoftFrame(d, turned)
       \/ \E box \in {b \in Pictures : b.w <= d.w /\ b.h <= d.h} : HardFrame(d, box, turned)

Spec == Init /\ [][Next]_vars

-----------------------------------------------------------------------------
(* Properties.                                                             *)

Fits(buffer) == Area(buffer.dims) <= buffer.room

\* The planes of every frame lie in the buffer that was allocated for them,
\* whatever pictures and boxes came before, in whatever orientation.
BuffersFit == Fits(rotated) /\ Fits(scaled) /\ Fits(nv12)

\* While a session is encoded by x264, the encoder was opened for the size of
\* the frame that it reads, although resolution, orientation and kind of
\* encoder have changed since it was first opened.
EncoderReadsFrame == running /\ useSoft => encoder = scaled.dims

\* The stream of every encoder begins with its header, although the library
\* keeps its state from one session to the next.
HeaderLeads == stream # "headless"
=============================================================================
