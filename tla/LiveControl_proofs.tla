------------------------- MODULE LiveControl_proofs -------------------------
(* Theorems about LiveControl, for any number of sessions and stops.       *)
EXTENDS LiveControl, SequenceTheorems, TLAPS

-----------------------------------------------------------------------------
(* Types.                                                                  *)

LEMMA FlagsNext == FlagsOK /\ [Next]_vars => FlagsOK'
<1> SUFFICES ASSUME FlagsOK, [Next]_vars PROVE FlagsOK'
  OBVIOUS
<1> USE DEF FlagsOK, callVars, captVars, workVars, linkVars, wireVars, closVars
<1>1. CASE StartLive \/ ResumeLive
  BY <1>1, Zenon DEF StartLive, ResumeLive, StartPublish, CaptureStarts
<1>2. CASE EndLive \/ PauseLive
  BY <1>2, Zenon DEF EndLive, PauseLive, StopPublish, CaptureStops, Running
<1>3. CASE SwitchCamera \/ RotateOrientation
  BY <1>3, Zenon DEF SwitchCamera, EncoderEnabled, RotateOrientation, CaptureStops
<1>4. CASE SetConfig \/ Dispose
  BY <1>4, Zenon DEF SetConfig, Dispose
<1>5. CASE MicEnds \/ Stream \/ Server \/ ReceiverFails
  BY <1>5, Zenon DEF MicEnds, Stream, Server, ReceiverFails
<1>6. CASE Main
  BY <1>6, Zenon DEF Main, StopReturns, Hear
<1>7. CASE Worker
  BY <1>7, Zenon DEF Worker, Refused, Opened, ConnectSent, ConnectReturns, PublishSent,
                     PublishReturns, Interrupted
<1>8. CASE Closer
  BY <1>8, Zenon DEF Closer, CloserTells, CloserResets
<1>9. CASE UNCHANGED vars
  BY <1>9, Zenon DEF vars
<1> QED
  BY <1>1, <1>2, <1>3, <1>4, <1>5, <1>6, <1>7, <1>8, <1>9, Zenon DEF Next, Caller

LEMMA PostedTyped ==
  ASSUME NEW q \in Seq(Status), NEW s \in Status
  PROVE  Posted(q, s) \in Seq(Status)
BY DEF Posted

LEMMA DataNext == DataOK /\ [Next]_vars => DataOK'
<1> SUFFICES ASSUME DataOK, [Next]_vars PROVE DataOK'
  OBVIOUS
<1> USE DEF DataOK, callVars, captVars, workVars, linkVars, wireVars, closVars
<1>p. \A s \in Status : Post(s) => queue' \in Seq(Status)
  BY PostedTyped DEF Post
<1>s. {"Pending", "Pushing", "Stop", "Error", "Ready"} \subseteq Status
  BY DEF Status
<1>1. CASE StartLive \/ ResumeLive
  <2>1. /\ cams' \in Nat /\ (camField' => cams' > 0) /\ mics' \in Nat
        /\ (micField' => mics' > 0)
    BY <1>1 DEF StartLive, ResumeLive, StartPublish, CaptureStarts
  <2>2. /\ starts' \in Nat /\ worker' = "connect" /\ orphans' \in Nat
        /\ UNCHANGED <<status, queue, main, stops, conn, errors, closing, resetting>>
    BY <1>1 DEF StartLive, ResumeLive, StartPublish
  <2> QED
    BY <2>1, <2>2
<1>2. CASE EndLive \/ PauseLive
  BY <1>2 DEF EndLive, PauseLive, StopPublish, CaptureStops, Joined
<1>3. CASE SwitchCamera \/ RotateOrientation
  BY <1>3 DEF SwitchCamera, EncoderEnabled, RotateOrientation, CaptureStops, Joined
<1>4. CASE SetConfig \/ Dispose
  BY <1>4, <1>s DEF SetConfig, Dispose, Pub!Reset, Pub!ConnStates
<1>5. CASE MicEnds \/ Stream \/ Server \/ ReceiverFails
  <2>1. CASE MicEnds
    BY <2>1 DEF MicEnds
  <2>2. CASE Stream \/ ReceiverFails
    BY <2>2, <1>p, <1>s DEF Stream, ReceiverFails
  <2>3. CASE Server
    BY <2>3 DEF Server, Pub!Accept, Pub!StreamCreated, Pub!Permit, Pub!ConnStates
  <2> QED
    BY <1>5, <2>1, <2>2, <2>3
<1>6. CASE Main
  <2>1. CASE StopReturns
    BY <2>1 DEF StopReturns
  <2>2. CASE Hear
    <3>1. Head(queue) \in Status /\ Tail(queue) \in Seq(Status)
      BY <2>2 DEF Hear
    <3> QED
      BY <2>2, <3>1 DEF Hear
  <2> QED
    BY <1>6, <2>1, <2>2 DEF Main
<1>7. CASE Worker
  <2>1. CASE Refused \/ Opened \/ ConnectSent
    BY <2>1, <1>p, <1>s
    DEF Refused, Opened, ConnectSent, TellConnecting, Pub!OpenFails, Pub!Open, Pub!ConnStates
  <2>2. CASE ConnectReturns \/ PublishReturns
    BY <2>2, <1>p, <1>s DEF ConnectReturns, PublishReturns, GiveUp, Pub!Reset, Pub!ConnStates
  <2>3. CASE PublishSent \/ Interrupted
    BY <2>3 DEF PublishSent, Interrupted
  <2> QED
    BY <1>7, <2>1, <2>2, <2>3 DEF Worker
<1>8. CASE Closer
  BY <1>8, <1>p, <1>s
  DEF Closer, CloserTells, TellDisconnected, CloserResets, Pub!Reset, Pub!ConnStates
<1>9. CASE UNCHANGED vars
  BY <1>9 DEF vars
<1> QED
  BY <1>1, <1>2, <1>3, <1>4, <1>5, <1>6, <1>7, <1>8, <1>9 DEF Next, Caller

\* TypeOK is an invariant; above all, a camera worker or microphone thread that
\* is joined is there to be joined.
THEOREM TypeCorrect == Spec => []TypeOK
<1>1. Init => FlagsOK
  BY Zenon DEF Init, FlagsOK
<1>2. Init => DataOK
  BY DEF Init, DataOK, Status, Pub!Init, Pub!ConnStates
<1>3. TypeOK /\ [Next]_vars => TypeOK'
  BY FlagsNext, DataNext DEF TypeOK
<1> QED
  BY <1>1, <1>2, <1>3, PTL DEF Spec, TypeOK

-----------------------------------------------------------------------------
(* Capture.                                                                *)

\* Whatever is called in whatever order, a camera worker that the plugin can
\* stop has codecs: every call that takes the codecs away joins the worker.
THEOREM CamerasEncode == Spec => []CameraHasEncoder
<1>1. Init => CameraHasEncoder
  BY DEF Init, CameraHasEncoder
<1>2. CameraHasEncoder /\ [Next]_vars => CameraHasEncoder'
  <2> SUFFICES ASSUME CameraHasEncoder, [Next]_vars PROVE CameraHasEncoder'
    OBVIOUS
  <2> USE DEF CameraHasEncoder, callVars, captVars, workVars, linkVars, wireVars, closVars
  <2>1. CASE StartLive \/ ResumeLive \/ EndLive \/ PauseLive
    BY <2>1 DEF StartLive, ResumeLive, StartPublish, CaptureStarts, EndLive, PauseLive,
                StopPublish, CaptureStops
  <2>2. CASE SwitchCamera \/ RotateOrientation
    BY <2>2 DEF SwitchCamera, EncoderEnabled, RotateOrientation, CaptureStops
  <2>3. CASE SetConfig \/ Dispose \/ MicEnds \/ Main
    BY <2>3 DEF SetConfig, Dispose, MicEnds, Main, StopReturns, Hear
  <2>4. CASE Worker
    BY <2>4 DEF Worker, Refused, Opened, ConnectSent, ConnectReturns, PublishSent,
                PublishReturns, Interrupted
  <2>5. CASE Stream \/ Closer \/ Server \/ ReceiverFails
    BY <2>5 DEF Stream, Closer, CloserTells, CloserResets, Server, ReceiverFails
  <2>6. CASE UNCHANGED vars
    BY <2>6 DEF vars
  <2> QED
    BY <2>1, <2>2, <2>3, <2>4, <2>5, <2>6 DEF Next, Caller
<1> QED
  BY <1>1, <1>2, PTL DEF Spec

-----------------------------------------------------------------------------
(* The session and what the plugin hears of it.                            *)

Live == {"Pending", "Pushing"}

\* The status once every message is handled.
Heard == IF queue = <<>> THEN status ELSE queue[Len(queue)]

\* s is a status of a session that goes on, perhaps after an exception.
GoesOn(s) == s \in Live \/ (s = "Error" /\ failed)

\* The worker, its connection and the closers.
Link ==
  /\ closing + resetting > 0 => ~Running
  /\ intr /\ Running => main # "idle"
  /\ worker = "publish" => Pub!IsConnected
  /\ worker = "publishing" => Pub!IsConnected
  /\ worker = "loop" => conn = "permitted"

\* The plugin will hear of a session if there is one, or of its exception, and of
\* none if there is none, unless a closer has yet to tell.
Hearing ==
  /\ worker \in {"connecting", "publish", "publishing", "loop"} => GoesOn(Heard)
  /\ worker \in {"connect", "opening"} => Heard \notin Live
  /\ ~Running => Heard \notin Live \/ (conn # "null" /\ (main # "idle" \/ closing > 0))
  /\ resetting > 0 => Heard \notin Live

\* "pushing" is heard only in a session that goes on.
InOrder ==
  /\ queue # <<>> /\ queue[1] = "Pushing" => GoesOn(status)
  /\ \A i \in 2..Len(queue) : queue[i] = "Pushing" => GoesOn(queue[i - 1])

\* As long as no worker was overwritten; after dispose() nobody listens.
Session == Link /\ (pusher => Hearing /\ InOrder)

\* A worker was overwritten after an exception only, and the next one runs.
Overwritten == orphans > 0 => failed /\ Running

SessionInv == (OneSession => Session) /\ Overwritten

LEMMA HeardPosted ==
  ASSUME DataOK, NEW s \in Status, Post(s), UNCHANGED status
  PROVE  Heard' = s
<1>1. CASE queue # <<>> /\ queue[Len(queue)] = s /\ queue' = queue
  BY <1>1 DEF Heard
<1>2. CASE queue' = Append(queue, s)
  BY <1>2, AppendProperties DEF DataOK, Heard
<1> QED
  BY <1>1, <1>2 DEF Post, Posted

LEMMA InOrderPosted ==
  ASSUME DataOK, InOrder, NEW s \in Status, s = "Pushing" => GoesOn(Heard), Post(s),
         UNCHANGED status, failed => failed'
  PROVE  InOrder'
<1> USE DEF GoesOn
<1>1. CASE queue' = queue
  BY <1>1 DEF InOrder
<1>2. CASE queue' = Append(queue, s)
  <2>1. /\ Len(queue') = Len(queue) + 1 /\ queue'[Len(queue')] = s
        /\ \A i \in 1..Len(queue) : queue'[i] = queue[i]
    BY <1>2, AppendProperties DEF DataOK
  <2>2. ASSUME queue'[1] = "Pushing" PROVE GoesOn(status)'
    BY <2>1, <2>2 DEF DataOK, InOrder, Heard
  <2>3. ASSUME NEW i \in 2..Len(queue'), queue'[i] = "Pushing" PROVE GoesOn(queue[i - 1])'
    <3>1. CASE i \in 2..Len(queue)
      <4>1. i - 1 \in 1..Len(queue)
        BY <3>1 DEF DataOK
      <4> QED
        BY <2>1, <2>3, <3>1, <4>1 DEF DataOK, InOrder
    <3>2. CASE i = Len(queue) + 1
      BY <2>1, <2>3, <3>2 DEF DataOK, Heard
    <3> QED
      BY <2>1, <3>1, <3>2 DEF DataOK
  <2> QED
    BY <2>2, <2>3 DEF InOrder
<1> QED
  BY <1>1, <1>2 DEF Post, Posted

LEMMA Same ==
  ASSUME Session, UNCHANGED <<status, queue, main, pusher, worker, intr, conn, failed,
                              closing, resetting>>
  PROVE  Session'
BY DEF Session, Link, Hearing, InOrder, Heard, GoesOn, Running, Pub!IsConnected

LEMMA LinkNext == DataOK /\ Link /\ [Next]_vars => Link'
<1> SUFFICES ASSUME DataOK, Link, [Next]_vars PROVE Link'
  OBVIOUS
<1> USE DEF DataOK, Link, Running, Pub!IsConnected, callVars, captVars, workVars, linkVars,
            closVars
<1>1. CASE StartLive \/ ResumeLive
  BY <1>1 DEF StartLive, ResumeLive, StartPublish, Patient
<1>2. CASE EndLive \/ PauseLive
  BY <1>2 DEF EndLive, PauseLive, StopPublish
<1>3. CASE SwitchCamera \/ RotateOrientation \/ SetConfig \/ Dispose \/ MicEnds \/ Stream
  BY <1>3 DEF SwitchCamera, RotateOrientation, SetConfig, Dispose, MicEnds, Stream
<1>4. CASE Main
  BY <1>4 DEF Main, StopReturns, Hear
<1>5. CASE Worker
  BY <1>5
  DEF Worker, Refused, Opened, ConnectSent, ConnectReturns, PublishSent, PublishReturns,
      Interrupted, GiveUp
<1>6. CASE Closer
  BY <1>6 DEF Closer, CloserTells, CloserResets
<1>7. CASE Server
  BY <1>7 DEF Server, Pub!Accept, Pub!StreamCreated, Pub!Permit
<1>8. CASE ReceiverFails
  BY <1>8 DEF ReceiverFails
<1>9. CASE UNCHANGED vars
  BY <1>9 DEF vars
<1> QED
  BY <1>1, <1>2, <1>3, <1>4, <1>5, <1>6, <1>7, <1>8, <1>9 DEF Next, Caller

\* A step that is not a start over a worker that runs.
LEMMA SessionNext ==
  ASSUME DataOK, Session, Next, ~(Running /\ (StartLive \/ ResumeLive))
  PROVE  Session'
<1>l. Link'
  BY LinkNext DEF Session
<1>s. /\ Head(queue) \in Status \/ queue = <<>>
      /\ {"Pending", "Pushing", "Stop", "Error", "Ready"} \subseteq Status
  BY DEF DataOK, Status
<1> USE <1>l DEF Session, GoesOn, callVars, captVars, workVars, linkVars, wireVars, closVars
<1>1. CASE StartLive \/ ResumeLive
  <2>1. /\ Call /\ ~InPushing /\ Patient /\ worker' = "connect" /\ ~Running
        /\ UNCHANGED <<status, queue, main, pusher, conn, closing, resetting>>
    BY <1>1 DEF StartLive, ResumeLive, StartPublish
  <2>2. Heard \notin Live /\ queue = <<>>
    BY <2>1 DEF InPushing, Patient, Heard, Live
  <2>3. Hearing'
    BY <2>1, <2>2 DEF Hearing, Running, Heard, Patient, DataOK
  <2>4. InOrder'
    BY <2>1, <2>2 DEF InOrder
  <2> QED
    BY <2>3, <2>4
<1>2. CASE EndLive \/ PauseLive
  BY <1>2 DEF EndLive, PauseLive, StopPublish, Hearing, InOrder, Heard, Running
<1>3. CASE SwitchCamera \/ RotateOrientation \/ MicEnds
  BY <1>3, Same DEF SwitchCamera, RotateOrientation, MicEnds
<1>4. CASE SetConfig
  BY <1>4 DEF SetConfig, Patient, Hearing, InOrder, Heard, Live, Running, DataOK
<1>5. CASE Dispose
  BY <1>5 DEF Dispose
<1>6. CASE StopReturns
  BY <1>6 DEF StopReturns, Hearing, InOrder, Heard, Running, DataOK
<1>7. CASE Hear
  <2>1. UNCHANGED <<pusher, failed>>
    BY <1>7 DEF Hear
  <2>2. ASSUME pusher PROVE Hearing' /\ InOrder'
    <3>1. /\ status' = queue[1] /\ queue # <<>> /\ Len(queue') = Len(queue) - 1
          /\ \A i \in 1..Len(queue') : queue'[i] = queue[i + 1]
      BY <1>7, <2>2 DEF Hear, DataOK
    <3>2. Heard' = Heard
      BY <3>1 DEF Heard, DataOK
    <3>3. InOrder'
      BY <2>1, <2>2, <3>1 DEF InOrder, DataOK
    <3>4. Hearing'
      BY <1>7, <2>1, <2>2, <3>2 DEF Hear, Hearing, Running
    <3> QED
      BY <3>3, <3>4
  <2> QED
    BY <2>1, <2>2
<1>8. CASE Worker
  <2>1. UNCHANGED <<status, main, pusher, failed, closing, resetting>> /\ Running
    BY <1>8
    DEF Worker, Refused, Opened, ConnectSent, ConnectReturns, PublishSent, PublishReturns,
        Interrupted, Running
  <2>2. closing + resetting = 0 /\ closing = 0 /\ resetting = 0
    BY <2>1 DEF Link, DataOK
  <2>3. CASE Refused \/ Opened
    <3>1. CASE UNCHANGED queue
      BY <2>1, <2>2, <2>3, <3>1 DEF Refused, Opened, Hearing, InOrder, Heard, Running
    <3>2. CASE Post("Error")
      BY <1>s, <2>1, <2>2, <2>3, <3>2, HeardPosted, InOrderPosted
      DEF Refused, Opened, Hearing, Live, Running
    <3> QED
      BY <2>3, <3>1, <3>2 DEF Refused, Opened
  <2>4. CASE ConnectSent
    BY <1>s, <2>1, <2>2, <2>4, HeardPosted, InOrderPosted
    DEF ConnectSent, TellConnecting, Hearing, Live, Running
  <2>5. CASE (ConnectReturns \/ PublishReturns) /\ GiveUp
    BY <1>s, <2>1, <2>2, <2>5, HeardPosted, InOrderPosted DEF GiveUp, Hearing, Live, Running
  <2>6. CASE (ConnectReturns /\ worker' = "publish") \/ PublishSent
    BY <2>1, <2>2, <2>6
    DEF ConnectReturns, GiveUp, PublishSent, Hearing, InOrder, Heard, Running
  <2>7. CASE PublishReturns /\ worker' = "loop"
    BY <1>s, <2>1, <2>2, <2>7, HeardPosted, InOrderPosted
    DEF PublishReturns, GiveUp, Hearing, Live, Running
  <2>8. CASE Interrupted
    BY <2>1, <2>2, <2>8 DEF Interrupted, Link, Hearing, InOrder, Heard, Running
  <2> QED
    BY <1>8, <2>3, <2>4, <2>5, <2>6, <2>7, <2>8 DEF Worker, ConnectReturns, PublishReturns
<1>9. CASE Stream
  <2>1. /\ Post("Pushing") /\ worker = "loop" /\ resetting = 0
        /\ UNCHANGED <<status, main, pusher, worker, conn, failed, closing, resetting>>
    BY <1>9 DEF Stream, Link, Running, DataOK
  <2>2. Heard' = "Pushing"
    BY <1>s, <2>1, HeardPosted
  <2>3. Hearing'
    BY <2>1, <2>2 DEF Hearing, Live, Running
  <2>4. ASSUME Hearing, InOrder PROVE InOrder'
    <3>1. GoesOn(Heard)
      BY <2>1, <2>4 DEF Hearing
    <3> QED
      BY <1>s, <2>1, <2>4, <3>1, InOrderPosted
  <2> QED
    BY <2>1, <2>3, <2>4
<1>10. CASE Closer
  <2>1. UNCHANGED <<status, main, pusher, worker, failed>>
    BY <1>10 DEF Closer, CloserTells, CloserResets
  <2>2. ~Running
    BY <1>10 DEF Closer, CloserTells, CloserResets, Link, DataOK
  <2>3. CASE CloserTells /\ conn # "null"
    BY <1>s, <2>1, <2>2, <2>3, HeardPosted, InOrderPosted
    DEF CloserTells, TellDisconnected, Hearing, Live, Running
  <2>4. CASE CloserTells /\ conn = "null"
    BY <2>1, <2>2, <2>4 DEF CloserTells, TellDisconnected, Hearing, InOrder, Heard, Running
  <2>5. CASE CloserResets
    BY <2>1, <2>2, <2>5
    DEF CloserResets, Pub!Reset, Hearing, InOrder, Heard, Running, DataOK
  <2> QED
    BY <1>10, <2>3, <2>4, <2>5 DEF Closer
<1>11. CASE Server
  <2>1. conn # "null" /\ conn' # "null"
    BY <1>11 DEF Server, Pub!Accept, Pub!StreamCreated, Pub!Permit
  <2> QED
    BY <1>11, <2>1 DEF Server, Hearing, InOrder, Heard, Running
<1>12. CASE ReceiverFails
  <2>1. /\ resetting' = 0 /\ failed' /\ Post("Error")
        /\ UNCHANGED <<status, main, pusher, worker, conn, closing>>
    BY <1>12 DEF ReceiverFails
  <2>2. Heard' = "Error"
    BY <1>s, <2>1, HeardPosted
  <2>3. Hearing'
    BY <2>1, <2>2 DEF Hearing, Live
  <2>4. ASSUME InOrder PROVE InOrder'
    BY <1>s, <2>1, <2>4, InOrderPosted
  <2> QED
    BY <2>1, <2>3, <2>4
<1> QED
  BY <1>1, <1>2, <1>3, <1>4, <1>5, <1>6, <1>7, <1>8, <1>9, <1>10, <1>11, <1>12
  DEF Next, Caller, Main

LEMMA OrphansKept ==
  ASSUME Next, ~(Running /\ (StartLive \/ ResumeLive))
  PROVE  orphans' = orphans
<1> USE DEF callVars, captVars, workVars, linkVars, closVars
<1>1. CASE Caller
  BY <1>1
  DEF Caller, StartLive, ResumeLive, StartPublish, EndLive, PauseLive, StopPublish,
      SwitchCamera, RotateOrientation, SetConfig, Dispose
<1>2. CASE Worker
  BY <1>2
  DEF Worker, Refused, Opened, ConnectSent, ConnectReturns, PublishSent, PublishReturns,
      Interrupted
<1>3. CASE MicEnds \/ Main \/ Stream \/ Closer \/ Server \/ ReceiverFails
  BY <1>3
  DEF MicEnds, Main, StopReturns, Hear, Stream, Closer, CloserTells, CloserResets, Server,
      ReceiverFails
<1> QED
  BY <1>1, <1>2, <1>3 DEF Next

\* The plugin has heard of a worker that runs, unless of its exception last.
LEMMA StartOver ==
  ASSUME DataOK, Session, Running, StartLive \/ ResumeLive
  PROVE  failed' /\ Running'
<1>1. /\ Call /\ ~InPushing /\ Patient /\ worker' = "connect" /\ failed' = (failed /\ Running)
  BY DEF StartLive, ResumeLive, StartPublish
<1>2. Heard \notin Live /\ worker \in {"connecting", "publish", "publishing", "loop"}
  BY <1>1 DEF InPushing, Patient, Heard, Live, Running, DataOK
<1>3. failed
  BY <1>1, <1>2 DEF Session, Hearing, GoesOn, Call
<1> QED
  BY <1>1, <1>3, Zenon DEF Running

LEMMA SessionHolds == Spec => []SessionInv
<1>1. Init => SessionInv
  BY DEF Init, Pub!Init, SessionInv, OneSession, Overwritten, Session, Link, Hearing, InOrder,
         Heard, GoesOn, Live, Running
<1>2. TypeOK /\ SessionInv /\ [Next]_vars => SessionInv'
  <2> SUFFICES ASSUME DataOK, SessionInv, [Next]_vars PROVE SessionInv'
    BY DEF TypeOK
  <2>1. CASE Next /\ Running /\ (StartLive \/ ResumeLive)
    <3>1. Session /\ orphans = 0
      BY <2>1 DEF Next, OneSession, SessionInv
    <3>2. orphans' = 1
      BY <2>1, <3>1 DEF StartLive, ResumeLive, StartPublish
    <3>3. failed' /\ Running'
      BY <2>1, <3>1, StartOver
    <3> QED
      BY <3>2, <3>3 DEF SessionInv, OneSession, Overwritten
  <2>2. CASE Next /\ ~(Running /\ (StartLive \/ ResumeLive))
    <3>1. Session /\ orphans = 0
      BY <2>2 DEF Next, OneSession, SessionInv
    <3>2. Session' /\ orphans' = 0
      BY <2>2, <3>1, SessionNext, OrphansKept
    <3> QED
      BY <3>2 DEF SessionInv, Overwritten
  <2>3. CASE UNCHANGED vars
    <3>1. Session => Session'
      BY <2>3, Same DEF vars, callVars, captVars, workVars, linkVars, wireVars, closVars
    <3> QED
      BY <2>3, <3>1
      DEF vars, workVars, linkVars, wireVars, SessionInv, OneSession, Overwritten, Running
  <2> QED
    BY <2>1, <2>2, <2>3
<1> QED
  BY <1>1, <1>2, TypeCorrect, PTL DEF Spec

\* A status that follows the messages of RtmpHandler.java keeps a patient caller
\* from starting a second worker, however its sessions fail or end, until an
\* IOException of the connection is told: that one sets the status to "error"
\* over a worker that runs, and the next start overwrites its field.
THEOREM OneWorkerUnlessFailed == Spec => []OneWorker
<1>1. SessionInv => OneWorker
  BY DEF SessionInv, Overwritten, OneWorker
<1> QED
  BY <1>1, SessionHolds, PTL

\* And when nothing runs any more, the status says so: no end of a session is
\* kept from the plugin, or overtaken by a message of the session.
THEOREM QuietMeansStopped == Spec => []QuietIsStopped
<1>1. SessionInv /\ TypeOK => QuietIsStopped
  BY DEF SessionInv, OneSession, Overwritten, Session, Hearing, Heard, Live, QuietIsStopped,
         InPushing, TypeOK, DataOK
<1> QED
  BY <1>1, SessionHolds, TypeCorrect, PTL

\* No session seems to push before it was pending, or after its end was heard;
\* only the exception of a connection is taken for an end that it is not.
THEOREM PushingOnlyInSession == Spec => PushingInSession
<1>1. TypeOK /\ SessionInv /\ [Next]_vars => [status' = "Pushing" /\ pusher => Going]_status
  <2> SUFFICES ASSUME TypeOK, SessionInv, [Next]_vars, status' # status, status' = "Pushing",
                      pusher
               PROVE  Going
    OBVIOUS
  <2>1. CASE Next /\ Hear
    <3>1. InOrder
      BY <2>1 DEF Next, SessionInv, Session
    <3> QED
      BY <2>1, <3>1 DEF Hear, InOrder, GoesOn, Live, Going, TypeOK, DataOK
  <2>2. CASE SetConfig
    BY <2>2 DEF SetConfig
  <2> USE DEF callVars, captVars, workVars, linkVars, closVars
  <2>3. CASE Next /\ ~Hear /\ ~SetConfig
    BY <2>3
    DEF Next, Caller, StartLive, ResumeLive, StartPublish, EndLive, PauseLive, StopPublish,
        SwitchCamera, RotateOrientation, Dispose, MicEnds, Main, StopReturns, Worker, Refused,
        Opened, ConnectSent, ConnectReturns, PublishSent, PublishReturns, Interrupted, Stream,
        Closer, CloserTells, CloserResets, Server, ReceiverFails
  <2> QED
    BY <2>1, <2>2, <2>3 DEF vars
<1> QED
  BY <1>1, SessionHolds, TypeCorrect, PTL DEF Spec, PushingInSession

=============================================================================
