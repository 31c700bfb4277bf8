------------------------------ MODULE Capture ------------------------------
(***************************************************************************)
(* From the camera and the microphone to the muxer: SrsCameraView.java,    *)
(* SrsEncoder.java and the threads of SrsPublisher.java. The GL thread     *)
(* draws pictures and queues them; a camera worker encodes them; a         *)
(* microphone thread encodes sound; the main thread starts, pauses,        *)
(* resumes and stops.                                                      *)
(*                                                                         *)
(* The queue always holds the one buffer the GL thread draws into          *)
(* (getGLFboBuffer()), so that only its length matters. A codec is         *)
(* external: a queue of inputs and a queue of outputs. The frames that the *)
(* muxer has cached are a number, which its worker lowers.                 *)
(*                                                                         *)
(* A start may come over a capture that runs, as after a connection that   *)
(* failed: codecs, microphone and camera worker are overwritten. The old   *)
(* camera worker goes on, and nobody interrupts or joins it. The old       *)
(* microphone thread shares the new microphone and codec, ends at the      *)
(* first exception, and is left out, unless no other takes its field.      *)
(* An exception of a camera worker ends the process: once one has          *)
(* "crashed", nothing moves any more. The caller pauses a session only     *)
(* while it captures, and starts none in a pause.                          *)
(***************************************************************************)
EXTENDS Integers, FiniteSets

CONSTANTS
  Workers, NoWorker,     \* camera workers, and the field without one
  MaxStarts, MaxPauses,  \* calls of startPublish() and pausePublish()
  MaxPictures,           \* pictures drawn
  MaxTime,               \* of the system's clock
  VGOP,                  \* cached frames from which the encoder is throttled
  InSlots, OutSlots      \* buffers of the video codec

ASSUME CaptureConstants ==
  /\ IsFiniteSet(Workers) /\ NoWorker \notin Workers
  /\ MaxStarts \in Nat /\ MaxPauses \in Nat /\ MaxPictures \in Nat /\ MaxTime \in Nat
  /\ VGOP \in Nat \ {0} /\ InSlots \in Nat \ {0} /\ OutSlots \in Nat \ {0}

VARIABLES
  main,        \* the main thread: "idle", or in a stop or pause: "micJoin",
               \* "camOff", "camClear", "camJoin", "release"
  pausing,     \* it is a pause
  paused,      \* a pause waits for its resume
  starts, pauses, drawn,
  codecs,      \* vencoder and aencoder are there
  now,         \* System.nanoTime() / 1000
  presentTime, pauseTime,  \* mPresentTimeUs, mPausetime
  isEncoding,  \* mIsEncoding
  pictures,    \* the length of mGLIntBufferCache
  gl,          \* the GL thread: "idle", or "add" having seen mIsEncoding
  worker,      \* the field of that name
  cams,        \* where the camera workers are; "none" if they are not
  camIntr,     \* those with their interrupt status set
  pts,         \* the time of the last picture
  micThere,    \* the field mic is not null
  mic,         \* the thread in aworker; "none" when the field is null
  micIntr,     \* its interrupt status
  ins, outs,   \* pictures that the video codec has been given, and has encoded
  cached,      \* video frames in the muxer's cache
  active       \* history: time from the start, without that from pause to resume

mainVars == <<main, pausing, paused, starts, pauses>>
clockVars == <<now, presentTime, pauseTime, active>>
camVars == <<worker, cams, camIntr, pts>>
micVars == <<micThere, mic, micIntr>>
glVars == <<isEncoding, pictures, gl, drawn>>
codecVars == <<codecs, ins, outs, cached>>
vars == <<mainVars, clockVars, camVars, micVars, glVars, codecVars>>

Init ==
  /\ main = "idle" /\ pausing = FALSE /\ paused = FALSE
  /\ starts = 0 /\ pauses = 0 /\ drawn = 0
  /\ codecs = FALSE /\ ins = 0 /\ outs = 0 /\ cached = 0
  /\ now = 0 /\ presentTime = 0 /\ pauseTime = 0 /\ active = 0
  /\ isEncoding = FALSE /\ pictures = 0 /\ gl = "idle"
  /\ worker = NoWorker /\ cams = [w \in Workers |-> "none"] /\ camIntr = {} /\ pts = 0
  /\ micThere = FALSE /\ mic = "none" /\ micIntr = FALSE

-----------------------------------------------------------------------------
(* The main thread.                                                        *)

\* startAudio(): a thread, if there is a microphone; if not, the field keeps the
\* thread it had.
StartAudio ==
  \/ micThere' = TRUE /\ mic' = "loop" /\ micIntr' = FALSE
  \/ micThere' = FALSE /\ UNCHANGED <<mic, micIntr>>

\* A new thread; which one does not matter.
Unused == CHOOSE w \in Workers : cams[w] = "none"

\* Workers that use the codecs and may meet them before vencoder.start().
Using == {w \in Workers : cams[w] \in {"picture", "drain"}}

\* What becomes of a worker when vencoder is another one: it waits for a buffer
\* of the old codec.
Overtaken(at) == IF at = "codec" THEN "stale" ELSE at

\* startEncode(): the clock begins, codecs are opened, a worker and a microphone
\* thread are started, over what runs or not.
Start ==
  /\ main = "idle" /\ ~paused /\ starts < MaxStarts
  /\ starts' = starts + 1
  /\ codecs' = TRUE /\ ins' = 0 /\ outs' = 0
  /\ presentTime' = now /\ active' = 0
  /\ \E w \in Workers, unlucky \in SUBSET Using :
       /\ cams[w] = "none" /\ w = Unused /\ worker' = w
       /\ cams' = [v \in Workers |-> IF v = w THEN "loop"
                                     ELSE IF v \in unlucky THEN "crashed"
                                     ELSE Overtaken(cams[v])]
  /\ isEncoding' = TRUE
  /\ StartAudio
  /\ UNCHANGED <<main, pausing, paused, pauses, now, pauseTime, camIntr, pts, pictures, gl,
                 drawn, cached>>

\* startEncode() without a codec to be had: only the clock begins.
StartFails ==
  /\ main = "idle" /\ ~paused /\ starts < MaxStarts
  /\ starts' = starts + 1
  /\ presentTime' = now /\ active' = 0
  /\ UNCHANGED <<main, pausing, paused, pauses, now, pauseTime, camVars, micVars, glVars,
                 codecVars>>

\* Mutant: mPausetime is zero when it is subtracted.
SinceBoot == now

\* Mutant: the clock is not moved.
NoTime == 0

\* How long the pause was.
PauseLasted == now - pauseTime

\* resumePublish(): the pause is taken out of the clock, threads are started.
Resume ==
  /\ main = "idle" /\ paused
  /\ paused' = FALSE
  /\ presentTime' = presentTime + PauseLasted /\ pauseTime' = 0
  /\ \E w \in Workers :
       /\ cams[w] = "none" /\ w = Unused /\ worker' = w
       /\ cams' = [cams EXCEPT ![w] = "loop"]
  /\ isEncoding' = TRUE
  /\ StartAudio
  /\ UNCHANGED <<main, pausing, starts, pauses, now, active, camIntr, pts, pictures, gl, drawn,
                 codecVars>>

\* pausePublish(): the time is noted, and stopAudio() begins.
Pause ==
  /\ main = "idle" /\ codecs /\ ~paused /\ pauses < MaxPauses
  /\ pauses' = pauses + 1
  /\ pauseTime' = now
  /\ main' = "micJoin" /\ pausing' = TRUE /\ micIntr' = TRUE
  /\ UNCHANGED <<paused, starts, now, presentTime, active, camVars, micThere, mic, glVars,
                 codecVars>>

\* stopPublish(), of a paused session too, or of one that captures nothing:
\* stopAudio() begins.
Stop ==
  /\ main = "idle"
  /\ main' = "micJoin" /\ pausing' = FALSE /\ paused' = FALSE /\ micIntr' = TRUE
  /\ UNCHANGED <<starts, pauses, clockVars, camVars, micThere, mic, glVars, codecVars>>

\* stopAudio(): the microphone thread, if there is one, is joined.
MicJoin ==
  /\ main = "micJoin" /\ mic \in {"none", "dead"}
  /\ main' = "camOff" /\ mic' = "none" /\ micThere' = FALSE
  /\ UNCHANGED <<pausing, paused, starts, pauses, clockVars, camVars, micIntr, glVars, codecVars>>

\* disableEncoding(): mIsEncoding.
CamOff ==
  /\ main = "camOff" /\ main' = "camClear"
  /\ isEncoding' = FALSE
  /\ UNCHANGED <<pausing, paused, starts, pauses, clockVars, camVars, micVars, pictures, gl,
                 drawn, codecVars>>

\* Mutant: what is left in the queue stays there.
LeftInQueue == pictures

ClearedQueue == 0

\* Mutant: the camera worker will end by itself.
NoJoin == IF pausing THEN "idle" ELSE "release"

AfterClear == "camJoin"

\* disableEncoding(): the queue is cleared, the worker in the field interrupted.
CamClear ==
  /\ main = "camClear" /\ main' = AfterClear
  /\ pictures' = ClearedQueue
  /\ camIntr' = (camIntr \cup {worker}) \ {NoWorker}
  /\ UNCHANGED <<pausing, paused, starts, pauses, clockVars, worker, cams, pts, micVars,
                 isEncoding, gl, drawn, codecVars>>

\* disableEncoding(): the worker, if there is one, is joined.
CamJoin ==
  /\ main = "camJoin" /\ (worker # NoWorker => cams[worker] = "dead")
  /\ main' = IF pausing THEN "idle" ELSE "release"
  /\ paused' = pausing
  /\ worker' = NoWorker
  /\ cams' = [w \in Workers |-> IF w = worker THEN "none" ELSE cams[w]]
  /\ UNCHANGED <<pausing, starts, pauses, clockVars, camIntr, pts, micVars, glVars, codecVars>>

\* SrsEncoder.stop(), and the muxer's stop(), which leaves no frame.
Release ==
  /\ main = "release" /\ main' = "idle"
  /\ codecs' = FALSE /\ ins' = 0 /\ outs' = 0 /\ cached' = 0
  /\ UNCHANGED <<pausing, paused, starts, pauses, clockVars, camVars, micVars, glVars>>

Stopping == MicJoin \/ CamOff \/ CamClear \/ CamJoin \/ Release

-----------------------------------------------------------------------------
(* The GL thread: onDrawFrame().                                           *)

Draw ==
  /\ gl = "idle" /\ isEncoding /\ drawn < MaxPictures
  /\ gl' = "add" /\ drawn' = drawn + 1
  /\ UNCHANGED <<mainVars, clockVars, camVars, micVars, isEncoding, pictures, codecVars>>

\* add() and notifyAll().
Add ==
  /\ gl = "add" /\ gl' = "idle"
  /\ pictures' = pictures + 1
  /\ cams' = [w \in Workers |-> IF cams[w] = "wait" THEN "loop" ELSE cams[w]]
  /\ UNCHANGED <<mainVars, clockVars, worker, camIntr, pts, micVars, isEncoding, drawn,
                 codecVars>>

-----------------------------------------------------------------------------
(* The camera workers.                                                     *)

camRest == <<mainVars, clockVars, worker, micVars, isEncoding, gl, drawn>>

Goes(w, at) == cams' = [cams EXCEPT ![w] = at]

\* while (!Thread.interrupted())
CamLoop(w) ==
  /\ cams[w] = "loop"
  /\ Goes(w, IF w \in camIntr THEN "dead" ELSE "check")
  /\ camIntr' = camIntr \ {w}
  /\ UNCHANGED <<camRest, pts, pictures, codecVars>>

\* while (!isEmpty()); a poll() that finds nothing is tolerated.
CamCheck(w) ==
  /\ cams[w] = "check"
  /\ Goes(w, IF pictures = 0 THEN "wait" ELSE "poll")
  /\ UNCHANGED <<camRest, camIntr, pts, pictures, codecVars>>

CamPoll(w) ==
  /\ cams[w] = "poll"
  /\ IF pictures = 0 THEN Goes(w, "check") /\ UNCHANGED pictures
                     ELSE Goes(w, "picture") /\ pictures' = pictures - 1
  /\ UNCHANGED <<camRest, camIntr, pts, codecVars>>

\* Mutant: one frame more.
MayCacheOneMore == cached <= VGOP

NetworkKeepsUp == cached < VGOP

\* onGetRgbaFrame(): the picture gets its time, or is dropped.
CamPicture(w) ==
  /\ cams[w] = "picture"
  /\ IF NetworkKeepsUp THEN Goes(w, "codec") /\ pts' = now - presentTime
                       ELSE Goes(w, "check") /\ UNCHANGED pts
  /\ UNCHANGED <<camRest, camIntr, pictures, codecVars>>

\* onProcessedYuvFrame(): it waits for an input buffer, whatever happens.
CamQueue(w) ==
  /\ cams[w] = "codec" /\ codecs /\ ins < InSlots
  /\ Goes(w, "drain") /\ ins' = ins + 1
  /\ UNCHANGED <<camRest, camIntr, pts, pictures, codecs, outs, cached>>

\* onProcessedYuvFrame(): what is encoded goes to the muxer.
CamDrain(w) ==
  /\ cams[w] = "drain" /\ codecs
  /\ IF outs > 0 THEN outs' = outs - 1 /\ cached' = cached + 1 /\ UNCHANGED cams
                 ELSE Goes(w, "check") /\ UNCHANGED <<outs, cached>>
  /\ UNCHANGED <<camRest, camIntr, pts, pictures, codecs, ins>>

\* onProcessedYuvFrame(): vencoder is null or released, or a buffer is queued
\* that is another codec's.
CamCrashes(w) ==
  /\ cams[w] = "stale" \/ (cams[w] \in {"codec", "drain"} /\ ~codecs)
  /\ Goes(w, "crashed")
  /\ UNCHANGED <<camRest, camIntr, pts, pictures, codecVars>>

\* Mutant: the exception is printed.
Swallowed == FALSE

\* The worker interrupts itself again.
Reinterrupted == TRUE

\* wait(500): by an interrupt, or by time.
CamWait(w) ==
  /\ cams[w] = "wait" /\ Goes(w, "loop")
  /\ camIntr' = (IF Reinterrupted THEN camIntr ELSE camIntr \ {w})
  /\ UNCHANGED <<camRest, pts, pictures, codecVars>>

Camera(w) ==
  \/ CamLoop(w) \/ CamCheck(w) \/ CamPoll(w) \/ CamPicture(w) \/ CamQueue(w) \/ CamDrain(w)
  \/ CamWait(w)

-----------------------------------------------------------------------------
(* The microphone thread, the codec, the muxer's worker, the clock.        *)

\* One turn: read(), which ends the thread if mic is null, and onGetPcmFrame(),
\* which drops what the network cannot take, too.
MicLoop ==
  /\ mic = "loop"
  /\ mic' = IF micIntr \/ ~micThere THEN "dead" ELSE IF NetworkKeepsUp THEN "codec" ELSE "loop"
  /\ UNCHANGED <<mainVars, clockVars, camVars, micThere, micIntr, glVars, codecVars>>

\* A codec that was replaced is one of the exceptions that end the thread.
MicEncodes ==
  /\ mic = "codec" /\ mic' \in {"loop", "dead"}
  /\ UNCHANGED <<mainVars, clockVars, camVars, micThere, micIntr, glVars, codecVars>>

Microphone == MicLoop \/ MicEncodes

CodecWorks ==
  /\ ins > 0 /\ outs < OutSlots
  /\ ins' = ins - 1 /\ outs' = outs + 1
  /\ UNCHANGED <<mainVars, clockVars, camVars, micVars, glVars, codecs, cached>>

Publish ==
  /\ cached > 0 /\ cached' = cached - 1
  /\ UNCHANGED <<mainVars, clockVars, camVars, micVars, glVars, codecs, ins, outs>>

\* From pause() to resume().
InPause == paused \/ (main # "idle" /\ pausing)

Tick ==
  /\ now < MaxTime /\ now' = now + 1
  /\ active' = IF codecs /\ ~InPause THEN active + 1 ELSE active
  /\ UNCHANGED <<mainVars, presentTime, pauseTime, camVars, micVars, glVars, codecVars>>

-----------------------------------------------------------------------------
\* The process has ended.
Crashed == \E w \in Workers : cams[w] = "crashed"

Next ==
  /\ ~Crashed
  /\ \/ Start \/ StartFails \/ Resume \/ Pause \/ Stop \/ Stopping
     \/ Draw \/ Add \/ Microphone \/ CodecWorks \/ Publish \/ Tick
     \/ \E w \in Workers : Camera(w) \/ CamCrashes(w)

Spec == Init /\ [][Next]_vars

\* The threads and the codec are scheduled, and a wait with a time ends.
FairSpec ==
  /\ Spec
  /\ WF_vars(~Crashed /\ Stopping) /\ WF_vars(~Crashed /\ Microphone)
  /\ WF_vars(~Crashed /\ CodecWorks)
  /\ \A w \in Workers : WF_vars(~Crashed /\ Camera(w))

-----------------------------------------------------------------------------
(* Properties.                                                             *)

FlagsOK ==
  /\ pausing \in BOOLEAN /\ paused \in BOOLEAN /\ codecs \in BOOLEAN
  /\ isEncoding \in BOOLEAN /\ micThere \in BOOLEAN /\ micIntr \in BOOLEAN

DataOK ==
  /\ main \in {"idle", "micJoin", "camOff", "camClear", "camJoin", "release"}
  /\ starts \in Nat /\ pauses \in Nat /\ drawn \in Nat
  /\ ins \in 0..InSlots /\ outs \in 0..OutSlots /\ cached \in Nat
  /\ now \in Nat /\ presentTime \in Nat /\ pauseTime \in Nat /\ active \in Nat
  /\ pictures \in Nat /\ gl \in {"idle", "add"}
  /\ worker \in Workers \cup {NoWorker} /\ camIntr \subseteq Workers
  /\ cams \in [Workers -> {"none", "loop", "check", "poll", "picture", "codec", "drain",
                           "stale", "wait", "dead", "crashed"}]
  /\ mic \in {"none", "loop", "codec", "dead"}
  /\ pts \in Nat

\* Every variable has a value of its kind; no picture has a negative time.
TypeOK == FlagsOK /\ DataOK

\* A thread in the encoder finds the codecs there, or it is a camera worker that
\* was overwritten: codecs are released only when both threads that the fields
\* lead to are joined, however long these wait for an input buffer. So only a
\* worker that was overwritten ends the process.
CodecAlive ==
  /\ mic = "codec" => codecs
  /\ \A w \in Workers :
       cams[w] = "crashed" \/ (cams[w] \in {"picture", "codec", "drain"} /\ ~codecs)
         => w # worker

\* Between sessions at most one picture is queued, that of a GL thread that had
\* seen mIsEncoding before disableEncoding() (the next session encodes it).
OneOldPicture == main = "idle" /\ ~isEncoding => pictures + (IF gl = "add" THEN 1 ELSE 0) <= 1

\* While pictures are taken, and no pause begins, the encoder's clock tells the
\* time from the start without that from pausePublish() to resumePublish(),
\* however often a session was paused, and also after one that was stopped in
\* its pause.
ClockWithoutPauses == isEncoding /\ ~InPause => now - presentTime = active

\* Camera workers that were overwritten.
Strays == {w \in Workers \ {worker} : cams[w] # "none"}

\* However slow the network is, no more video frames are cached than VGOP, what
\* the codec may hold, and one for each worker that was overwritten, although all
\* workers pass the throttle before their frames are counted.
CacheBounded == cached < VGOP + InSlots + OutSlots + Cardinality(Strays)

\* stopPublish() and pausePublish() get the threads joined, although these clear
\* their interrupt status, and drain the queue and the codec first, and although
\* overwritten workers take pictures and buffers of the codec.
StopReturns == main # "idle" ~> main = "idle" \/ Crashed
=============================================================================
