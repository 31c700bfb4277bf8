---------------------------- MODULE LiveControl ----------------------------
(***************************************************************************)
(* The live session as the Flutter plugin controls it: the method calls    *)
(* and listeners of rtmp.kt with the status of models.kt, the facade       *)
(* SrsPublisher.java that they call, the messages of RtmpHandler.java that *)
(* tell of the connection, and the threads of a session: capture (camera   *)
(* worker and microphone), the muxer's worker, the closers.                *)
(*                                                                         *)
(* Calls and messages are handled by the main thread, one at a time. The   *)
(* session is that of SrsFlvMuxer.tla without its frames, and its          *)
(* connection is that of RtmpPublisher.tla. A message stands for the       *)
(* status its listener sets; messages that set none are left out.          *)
(*                                                                         *)
(* The caller is patient: it waits until its last start or stop has run    *)
(* its course before it starts again. The codecs, the microphone, the      *)
(* server and the receiver of the connection may fail. A start over a      *)
(* worker that runs is the model's last step: what two workers do to one   *)
(* connection is not on the ladder of RtmpPublisher.tla.                   *)
(***************************************************************************)
EXTENDS Naturals, Sequences

CONSTANTS
  MaxStarts,  \* sessions that are started
  MaxStops,   \* calls of stopLive and pauseLive that are not refused
  MaxErrors   \* exceptions of a connection that is open

ASSUME LiveConstants == MaxStarts \in Nat /\ MaxStops \in Nat /\ MaxErrors \in Nat

Status == {"Ready", "Pending", "Pushing", "Stop", "Error"}

VARIABLES
  status,    \* loger.status
  queue,     \* messages of RtmpHandler on their way to the main thread
  main,      \* the main thread: "idle", or in stop(), "ending" or "pausing"
  pusher,    \* the field of that name is not null
  starts, stops,
  camera,    \* mCamera is open
  enc,       \* the encoder has its codecs
  cams,      \* camera workers that run
  camField,  \* SrsCameraView.worker is not null
  mics,      \* microphone threads that run
  micField,  \* SrsPublisher.aworker is not null
  worker,    \* the muxer's worker; "none" when the field is null
  intr,      \* the worker's interrupt status
  orphans,   \* workers that run although the field was overwritten
  conn,      \* the publisher, see RtmpPublisher.tla
  lost,      \* the server or the network is gone, and conn does not know it
  failed,    \* history: an IOException of this session's connection was told
  errors,    \* such exceptions so far
  closing,   \* closers that have not told of the end
  resetting  \* closers that have, and still reset the connection

callVars == <<main, pusher, starts, stops>>
captVars == <<camera, enc, cams, camField, mics, micField>>
workVars == <<worker, intr, orphans>>
wireVars == <<lost, failed, errors>>
linkVars == <<conn, wireVars>>
closVars == <<closing, resetting>>
vars == <<status, queue, callVars, captVars, workVars, linkVars, closVars>>

Pub == INSTANCE RtmpPublisher WITH conn <- conn

Init ==  \* after initConfig
  /\ status = "Ready" /\ queue = <<>>
  /\ main = "idle" /\ pusher = TRUE /\ starts = 0 /\ stops = 0
  /\ camera = TRUE /\ enc = FALSE
  /\ cams = 0 /\ camField = FALSE /\ mics = 0 /\ micField = FALSE
  /\ worker = "none" /\ intr = FALSE /\ orphans = 0
  /\ Pub!Init /\ lost = FALSE /\ failed = FALSE /\ errors = 0
  /\ closing = 0 /\ resetting = 0

\* The worker runs.
Running == worker \notin {"none", "dead"}

\* Mutant: a connection that is being set up does not count.
OnlyPushing == status = "Pushing"

\* rtmpInPushing().
InPushing == status \in {"Pushing", "Pending"}

\* A message that repeats the one before it changes nothing, and is left out.
Posted(q, s) == IF q # <<>> /\ q[Len(q)] = s THEN q ELSE Append(q, s)

Post(s) == queue' = Posted(queue, s)

-----------------------------------------------------------------------------
(* Capture.                                                                *)

\* startEncode(): codecs, a camera worker, and a microphone thread if there is
\* a microphone; nothing if a codec cannot be had.
CaptureStarts ==
  \/ /\ enc' = TRUE /\ cams' = cams + 1 /\ camField' = TRUE
     /\ \/ mics' = mics + 1 /\ micField' = TRUE
        \/ UNCHANGED <<mics, micField>>
  \/ UNCHANGED <<enc, cams, camField, mics, micField>>

\* Mutant: there is a thread to join, always.
OneLess(n, field) == n - 1

\* The thread in the field is interrupted and joined.
Joined(n, field) == IF field THEN n - 1 ELSE n

\* stopEncode() without its stopCamera(): threads are joined, codecs released.
CaptureStops ==
  /\ mics' = Joined(mics, micField) /\ micField' = FALSE
  /\ cams' = Joined(cams, camField) /\ camField' = FALSE
  /\ enc' = FALSE

\* A microphone thread that is not in the field stops at the null microphone.
MicEnds ==
  /\ ~micField /\ mics > 0
  /\ mics' = mics - 1
  /\ UNCHANGED <<status, queue, callVars, camera, enc, cams, camField, micField,
                 workVars, linkVars, closVars>>

-----------------------------------------------------------------------------
(* The calls of Dart, on the main thread.                                  *)

Call == main = "idle" /\ pusher

\* The caller waits until the last session is heard of, and its closer done.
Patient == queue = <<>> /\ closing + resetting = 0 /\ worker \notin {"connect", "opening"}

\* startPublish(): a worker, over one that runs or not, and capture.
StartPublish ==
  /\ Call /\ ~InPushing /\ starts < MaxStarts /\ Patient
  /\ starts' = starts + 1
  /\ worker' = "connect" /\ intr' = FALSE
  /\ orphans' = IF Running THEN orphans + 1 ELSE orphans
  /\ failed' = (failed /\ Running)
  /\ CaptureStarts
  /\ UNCHANGED <<status, queue, main, pusher, stops, conn, lost, errors, closVars>>

\* startLive() also opens the camera.
StartLive == StartPublish /\ camera' = TRUE

ResumeLive == StartPublish /\ UNCHANGED camera

\* endLive() and pauseLive(): stopPublish() stops capture with the camera, and
\* then interrupts the worker.
StopPublish(next) ==
  /\ Call /\ InPushing /\ stops < MaxStops
  /\ stops' = stops + 1 /\ main' = next
  /\ CaptureStops /\ camera' = FALSE
  /\ intr' = Running
  /\ UNCHANGED <<status, queue, pusher, starts, worker, orphans, linkVars, closVars>>

EndLive == StopPublish("ending")
PauseLive == StopPublish("pausing")

\* The worker is joined, a closer forked; pauseLive() opens the camera again.
StopReturns ==
  /\ main # "idle" /\ ~Running
  /\ main' = "idle" /\ worker' = "none"
  /\ closing' = closing + 1
  /\ camera' = (main = "pausing")
  /\ UNCHANGED <<status, queue, pusher, starts, stops, enc, cams, camField, mics, micField,
                 intr, orphans, linkVars, resetting>>

\* Mutant: mEncoder is there, enabled or not.
EncoderExists == TRUE

EncoderEnabled == enc

\* swatchCamera(): the camera worker is joined, and another one started if the
\* encoder has its codecs.
SwitchCamera ==
  /\ Call
  /\ cams' = Joined(cams, camField) + (IF EncoderEnabled THEN 1 ELSE 0)
  /\ camField' = EncoderEnabled
  /\ camera' = TRUE
  /\ UNCHANGED <<status, queue, callVars, enc, mics, micField, workVars, linkVars, closVars>>

\* rotateOrientation(): capture is stopped, and only the camera started again.
RotateOrientation ==
  /\ Call
  /\ CaptureStops /\ camera' = TRUE
  /\ UNCHANGED <<status, queue, callVars, workVars, linkVars, closVars>>

\* setConfig() when no session is left: new encoder, muxers and connection.
SetConfig ==
  /\ Call /\ Patient /\ ~Running /\ cams = 0 /\ mics = 0
  /\ status' = "Ready" /\ camera' = TRUE
  /\ worker' = "none" /\ Pub!Reset
  /\ UNCHANGED <<queue, callVars, enc, cams, camField, mics, micField, intr, orphans,
                 wireVars, closVars>>

\* dispose(): later calls find no pusher and do nothing.
Dispose ==
  /\ main = "idle" /\ pusher /\ pusher' = FALSE
  /\ UNCHANGED <<status, queue, main, starts, stops, captVars, workVars, linkVars, closVars>>

\* A message is handled; after dispose() its listener may have been collected.
Hear ==
  /\ main = "idle" /\ queue # <<>>
  /\ queue' = Tail(queue)
  /\ status' = Head(queue) \/ (~pusher /\ status' = status)
  /\ UNCHANGED <<callVars, captVars, workVars, linkVars, closVars>>

Caller ==
  \/ StartLive \/ ResumeLive \/ EndLive \/ PauseLive
  \/ SwitchCamera \/ RotateOrientation \/ SetConfig \/ Dispose

Main == StopReturns \/ Hear

-----------------------------------------------------------------------------
(* The muxer's worker.                                                     *)

\* connect(): the URL is bad, which tells no status, or the address is.
Refused ==
  /\ worker = "connect" /\ worker' = "dead"
  /\ \/ UNCHANGED <<queue, conn>>
     \/ Pub!OpenFails /\ Post("Error")
  /\ UNCHANGED <<status, callVars, captVars, intr, orphans, wireVars, closVars>>

Opened ==
  /\ worker = "connect" /\ worker' = "opening"
  /\ Pub!Open /\ lost' = FALSE
  /\ UNCHANGED <<status, queue, callVars, captVars, intr, orphans, failed, errors, closVars>>

\* Mutant: told once the server has answered.
ConnectUntold == UNCHANGED queue

TellConnecting == Post("Pending")

ConnectSent ==
  /\ worker = "opening" /\ worker' = "connecting"
  /\ TellConnecting
  /\ UNCHANGED <<status, callVars, captVars, intr, orphans, linkVars, closVars>>

\* Mutant: nobody asked for the end.
GiveUpUntold == worker' = "dead" /\ Pub!Reset /\ UNCHANGED queue

\* shutdown(), with the end told, and the worker ends.
GiveUp == worker' = "dead" /\ Pub!Reset /\ Post("Stop")

\* The wait ends, by an answer, by time, or by an interrupt that it swallows.
ConnectReturns ==
  /\ worker = "connecting" /\ intr' = FALSE
  /\ IF Pub!IsConnected THEN worker' = "publish" /\ UNCHANGED <<queue, conn>> ELSE GiveUp
  /\ UNCHANGED <<status, callVars, captVars, orphans, wireVars, closVars>>

PublishSent ==
  /\ worker = "publish" /\ worker' = "publishing"
  /\ UNCHANGED <<status, queue, callVars, captVars, intr, orphans, linkVars, closVars>>

PublishReturns ==
  /\ worker = "publishing" /\ intr' = FALSE
  /\ IF conn = "permitted" THEN worker' = "loop" /\ Post("Pushing") /\ UNCHANGED conn
                           ELSE GiveUp
  /\ UNCHANGED <<status, callVars, captVars, orphans, wireVars, closVars>>

\* A video frame is published, or lost without notice, and told of.
Stream ==
  /\ worker = "loop" /\ ~intr
  /\ Post("Pushing")
  /\ UNCHANGED <<status, callVars, captVars, workVars, linkVars, closVars>>

Interrupted ==
  /\ worker = "loop" /\ intr
  /\ worker' = "dead" /\ intr' = FALSE
  /\ UNCHANGED <<status, queue, callVars, captVars, orphans, linkVars, closVars>>

Worker ==
  \/ Refused \/ Opened \/ ConnectSent \/ ConnectReturns \/ PublishSent \/ PublishReturns
  \/ Interrupted

-----------------------------------------------------------------------------
(* The closers, the server and the receiver.                               *)

\* Mutant: an end that the caller asked for needs no telling.
EndUntold == UNCHANGED queue

\* closeStream() and shutdown(), which joins the receiver in between, each tell
\* the end of a socket that is there: one message, behind those of the receiver.
TellDisconnected == IF conn # "null" THEN Post("Stop") ELSE UNCHANGED queue

CloserTells ==
  /\ closing > 0
  /\ closing' = closing - 1 /\ resetting' = resetting + 1
  /\ TellDisconnected
  /\ UNCHANGED <<status, callVars, captVars, workVars, linkVars>>

CloserResets ==
  /\ resetting > 0
  /\ resetting' = resetting - 1
  /\ Pub!Reset
  /\ UNCHANGED <<status, queue, callVars, captVars, workVars, wireVars, closing>>

Closer == CloserTells \/ CloserResets

Server ==
  /\ ~lost
  /\ \/ worker = "connecting" /\ Pub!Accept /\ UNCHANGED lost
     \/ worker = "publishing" /\ (Pub!StreamCreated \/ Pub!Permit) /\ UNCHANGED lost
     \/ conn = "permitted" /\ lost' = TRUE /\ UNCHANGED conn
  /\ UNCHANGED <<status, queue, callVars, captVars, workVars, failed, errors, closVars>>

\* The receiver reads a message it does not know, or the end of the stream
\* inside one, or a packet cannot be written: an IOException is told, and the
\* connection stays. Once a closer has told of the end, no receiver is left.
ReceiverFails ==
  /\ conn \notin {"null", "dead"} /\ resetting = 0 /\ errors < MaxErrors
  /\ errors' = errors + 1 /\ failed' = TRUE
  /\ Post("Error")
  /\ UNCHANGED <<status, callVars, captVars, workVars, conn, lost, closVars>>

-----------------------------------------------------------------------------
\* No worker was overwritten.
OneSession == orphans = 0

Next ==
  /\ OneSession
  /\ \/ Caller \/ MicEnds \/ Main \/ Worker \/ Stream \/ Closer \/ Server \/ ReceiverFails

Spec == Init /\ [][Next]_vars

\* The threads are scheduled, waits with a time end, messages are delivered.
FairSpec ==
  /\ Spec
  /\ WF_vars(OneSession /\ Main) /\ WF_vars(OneSession /\ Worker)
  /\ WF_vars(OneSession /\ Closer)

-----------------------------------------------------------------------------
(* Properties.                                                             *)

FlagsOK ==
  /\ pusher \in BOOLEAN /\ camera \in BOOLEAN /\ enc \in BOOLEAN /\ camField \in BOOLEAN
  /\ micField \in BOOLEAN /\ intr \in BOOLEAN /\ lost \in BOOLEAN /\ failed \in BOOLEAN

DataOK ==
  /\ status \in Status /\ queue \in Seq(Status)
  /\ main \in {"idle", "ending", "pausing"}
  /\ starts \in Nat /\ stops \in Nat
  /\ cams \in Nat /\ (camField => cams > 0) /\ mics \in Nat /\ (micField => mics > 0)
  /\ worker \in {"none", "connect", "opening", "connecting", "publish", "publishing",
                 "loop", "dead"}
  /\ orphans \in Nat /\ conn \in Pub!ConnStates /\ errors \in Nat
  /\ closing \in Nat /\ resetting \in Nat

\* Every variable has a value of its kind; a thread in a field is there.
TypeOK == FlagsOK /\ DataOK

\* Once no thread of a session is left and every message is handled, the status
\* is not that of a session (or stopLive would act on one that is not there):
\* whichever of worker and closers ends the connection, and in whatever order
\* their messages are handled between calls.
QuietIsStopped ==
  main = "idle" /\ ~Running /\ closing + resetting = 0 /\ queue = <<>> /\ pusher
    => ~InPushing

\* A start of a patient caller loses a worker that runs only if an IOException of
\* that worker's connection was told, which sets the status to "error"
\* (onRtmpIOException()) while the worker goes on. Nothing else misleads it: no
\* status that lags behind its messages, and no end or error of an earlier session.
OneWorker == orphans > 0 => failed

\* The status of a session that goes on.
Going == status \in {"Pending", "Pushing"} \/ (status = "Error" /\ failed)

\* The status becomes "pushing" only in a session that was pending and, as far as
\* was told, has not ended: the messages of a session that ended are never handled
\* behind those of its end, nor before the first one of their session. After an
\* IOException, which is not an end, the next video frame takes the status from
\* "error" back to "pushing".
PushingInSession == [][status' = "Pushing" /\ pusher => Going]_status

\* A camera worker that the plugin can still stop has codecs to give its
\* pictures to (SrsEncoder.onGetRgbaFrame() would dereference null), whatever
\* calls of swatchCamera(), rotateOrientation() and stops came between.
CameraHasEncoder == camField => enc

\* The end of a session that was stopped is told, unless another one begins.
EndIsTold == main = "idle" /\ closing > 0 /\ pusher ~> ~InPushing \/ Running \/ ~pusher
=============================================================================
