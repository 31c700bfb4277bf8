------------------------ MODULE SrsFlvMuxer_proofs ------------------------
(* Theorems about SrsFlvMuxer, for every value of its constants.           *)
EXTENDS SrsFlvMuxer, SequenceTheorems, FunctionTheorems, FiniteSetTheorems, TLAPS

-----------------------------------------------------------------------------
(* Types.                                                                  *)

LEMMA NoFrameTyped == FlvConstants => NoFrame \in Frame
BY DEF FlvConstants, NoFrame, Frame, Track

LEMMA FlagsNext == FlagsOK /\ [Next]_vars => FlagsOK'
<1> SUFFICES ASSUME FlagsOK, [Next]_vars PROVE FlagsOK'
  OBVIOUS
<1> USE DEF FlagsOK, mainVars, flvVars, prodVars, workVars
<1>1. CASE Start \/ StopClear
  BY <1>1, Zenon DEF Start, StopClear
<1>2. CASE Stopping
  BY <1>2, Zenon DEF Stopping, StopInterrupt, StopJoin, StopReset
<1>3. CASE Capture
  <2>1. ASSUME NEW dts, NEW sps, NEW pps, WriteParameterSets(sps, pps, dts)
        PROVE  FlagsOK'
    BY <2>1, Zenon DEF WriteParameterSets, Sampled
  <2>2. ASSUME NEW dts, NEW idr, WriteSlice(idr, dts)
        PROVE  FlagsOK'
    BY <2>2, Zenon DEF WriteSlice, Sampled
  <2>3. ASSUME NEW dts, WriteAudio(dts)
        PROVE  FlagsOK'
    BY <2>3, Zenon DEF WriteAudio, Sampled
  <2>4. ASSUME NEW t, Add(t) \/ Notify(t)
        PROVE  FlagsOK'
    BY <2>4, Zenon DEF Add, Notify
  <2> QED
    BY <1>3, <2>1, <2>2, <2>3, <2>4, Zenon DEF Capture
<1>4. CASE Worker
  <2>1. CASE ConnectReturns \/ PublishReturns
    BY <2>1, Zenon DEF ConnectReturns, PublishReturns, Awaited
  <2>2. CASE Loop \/ WaitInterrupted
    BY <2>2, Zenon DEF Loop, WaitInterrupted, Reinterrupt
  <2>3. CASE ConnectRefused \/ Opened \/ ConnectSent \/ PublishSent
    BY <2>3, Zenon DEF ConnectRefused, Opened, ConnectSent, PublishSent
  <2>4. CASE Check \/ Poll \/ Send \/ Transmit \/ WaitBegins \/ WaitTimesOut
    BY <2>4, Zenon DEF Check, Poll, Send, Transmit, WaitBegins, WaitTimesOut
  <2> QED
    BY <1>4, <2>1, <2>2, <2>3, <2>4 DEF Worker
<1>5. CASE Closer
  BY <1>5, Zenon DEF Closer, CloserCloses, CloserNulls
<1>6. CASE Server
  BY <1>6, Zenon DEF Server
<1>7. CASE UNCHANGED vars
  BY <1>7, Zenon DEF vars
<1> QED
  BY <1>1, <1>2, <1>3, <1>4, <1>5, <1>6, <1>7 DEF Next

LEMMA SampledTyped ==
  ASSUME DataOK, NEW t \in Track, NEW dts \in 0..MaxDts, Sampled(t, dts)
  PROVE  /\ clock' \in [Track -> 0..MaxDts] /\ samples' \in [Track -> Nat]
         /\ UNCHANGED <<mainVars, cache, counter, header, workVars, conn, closVars, aired>>
BY DEF DataOK, Sampled

LEMMA HandOverTyped ==
  ASSUME DataOK, NEW t \in Track, NEW hdr \in BOOLEAN, NEW dts \in 0..MaxDts,
         HandOver(t, hdr, dts)
  PROVE  /\ prodFrame' \in [Track -> Frame]
         /\ prodPc' \in [Track -> {"idle", "add", "count", "notify"}]
<1>1. [track |-> t, hdr |-> hdr, dts |-> dts, born |-> starts] \in Frame
  BY DEF DataOK, Frame
<1> QED
  BY <1>1 DEF DataOK, HandOver

LEMMA DataNext == FlvConstants /\ TypeOK /\ [Next]_vars => DataOK'
<1> SUFFICES ASSUME FlvConstants, TypeOK, [Next]_vars PROVE DataOK'
  OBVIOUS
<1>t. DataOK
  BY DEF TypeOK
<1> USE <1>t DEF FlvConstants, mainVars, flvVars, prodVars, workVars, closVars
<1>1. CASE Start
  BY <1>1 DEF Start, MayStart, DataOK
<1>2. CASE StopClear
  BY <1>2 DEF StopClear, OneFewer, DataOK
<1>3. CASE Stopping
  BY <1>3 DEF Stopping, StopInterrupt, StopJoin, StopReset, Zero, Fresh, DataOK
<1>4. CASE Capture
  <2>1. ASSUME NEW dts \in 0..MaxDts, NEW sps \in Sps, NEW pps \in Pps,
               WriteParameterSets(sps, pps, dts)
        PROVE  DataOK'
    <3>1. Sampled("video", dts) /\ "video" \in Track
      BY <2>1 DEF WriteParameterSets, Track
    <3>2. /\ h264' = [sps |-> sps, pps |-> pps]
          /\ announced' \in {announced, [sps |-> sps, pps |-> pps]}
          /\ HandOver("video", TRUE, dts) \/ UNCHANGED <<prodPc, prodFrame>>
      BY <2>1, Zenon DEF WriteParameterSets
    <3>3. /\ prodFrame' \in [Track -> Frame]
          /\ prodPc' \in [Track -> {"idle", "add", "count", "notify"}]
      BY <3>1, <3>2, HandOverTyped DEF DataOK
    <3>4. /\ clock' \in [Track -> 0..MaxDts] /\ samples' \in [Track -> Nat]
          /\ UNCHANGED <<mainVars, cache, counter, header, workVars, conn, closVars, aired>>
      BY <3>1, SampledTyped
    <3>5. /\ h264' \in [sps : Sps \cup {Nil, Zeroed}, pps : Pps \cup {Nil, Zeroed}]
          /\ announced' \in [sps : Sps \cup {Nil}, pps : Pps \cup {Nil}]
      BY <3>2 DEF DataOK
    <3> QED
      BY <3>3, <3>4, <3>5 DEF DataOK
  <2>2. ASSUME NEW dts \in 0..MaxDts, NEW idr \in BOOLEAN, WriteSlice(idr, dts)
        PROVE  DataOK'
    BY <2>2, SampledTyped, HandOverTyped DEF WriteSlice, DataOK, Track
  <2>3. ASSUME NEW dts \in 0..MaxDts, WriteAudio(dts)
        PROVE  DataOK'
    <3>1. Sampled("audio", dts) /\ "audio" \in Track
      BY <2>3 DEF WriteAudio, Track
    <3>2. HandOver("audio", FALSE, dts) \/ HandOver("audio", TRUE, dts)
      BY <2>3, Zenon DEF WriteAudio
    <3>3. /\ prodFrame' \in [Track -> Frame]
          /\ prodPc' \in [Track -> {"idle", "add", "count", "notify"}]
      BY <3>1, <3>2, HandOverTyped
    <3>4. UNCHANGED <<h264, announced>>
      BY <2>3 DEF WriteAudio
    <3>5. /\ clock' \in [Track -> 0..MaxDts] /\ samples' \in [Track -> Nat]
          /\ UNCHANGED <<mainVars, cache, counter, header, workVars, conn, closVars, aired>>
      BY <3>1, SampledTyped
    <3> QED
      BY <3>3, <3>4, <3>5 DEF DataOK
  <2>4. ASSUME NEW t \in Track, Add(t)
        PROVE  DataOK'
    BY <2>4 DEF Add, DataOK
  <2>5. ASSUME NEW t \in Track, Notify(t)
        PROVE  DataOK'
    BY <2>5, NoFrameTyped DEF Notify, Streaming, DataOK
  <2> QED
    BY <1>4, <2>1, <2>2, <2>3, <2>4, <2>5 DEF Capture
<1>5. CASE Worker
  <2>1. CASE ConnectRefused \/ Opened \/ ConnectSent \/ PublishSent
    BY <2>1 DEF ConnectRefused, Opened, ConnectSent, PublishSent, NoSession, GiveUp, Forget,
                Pub!OpenFails, Pub!Open, Pub!ConnStates, DataOK
  <2>2. CASE ConnectReturns
    BY <2>2 DEF ConnectReturns, GiveUp, Forget, Pub!Reset, Pub!ConnStates, DataOK
  <2>3. CASE PublishReturns
    BY <2>3 DEF PublishReturns, Forget, Pub!Reset, Pub!ConnStates, Streaming, DataOK
  <2>4. CASE Loop \/ Check \/ WaitBegins \/ WaitTimesOut \/ WaitInterrupted
    BY <2>4 DEF Loop, Check, WaitBegins, WaitTimesOut, WaitInterrupted, Streaming, DataOK
  <2>5. CASE Poll
    <3>1. cache # <<>> => Head(cache) \in Frame /\ Tail(cache) \in Seq(Frame)
      BY DEF DataOK
    <3> QED
      BY <2>5, <3>1 DEF Poll, Streaming, DataOK
  <2>6. CASE Send
    <3>1. NewDts(frame) \in 0..MaxDts
      BY DEF NewDts, Max2, Frame, DataOK
    <3>2. frame.track \in Track
      BY DEF Frame, DataOK
    <3> QED
      <4>1. wdts' \in [Track -> 0..MaxDts]
        BY <2>6, <3>1 DEF Send, SendFlvTag, DataOK
      <4>3. header' \in SUBSET Track
        BY <2>6, <3>2 DEF Send, DataOK
      <4>2. wpc' \in {"check", "transmit"} /\ frame' \in {frame, NoFrame}
        BY <2>6 DEF Send, SendFlvTag
      <4> QED
        BY <2>6, <4>1, <4>2, <4>3, NoFrameTyped DEF Send, Streaming, DataOK
  <2>7. CASE Transmit
    <3>1. frame.track \in Track
      BY DEF Frame, DataOK
    <3>2. aired' \in [Track -> Seq(Frame)]
      BY <2>7, <3>1 DEF Transmit, DataOK
    <3> QED
      BY <2>7, <3>2, NoFrameTyped DEF Transmit, NoSession, CountDown, Streaming, DataOK
  <2> QED
    BY <1>5, <2>1, <2>2, <2>3, <2>4, <2>5, <2>6, <2>7 DEF Worker
<1>6. CASE Closer
  <2>1. CASE CloserCloses
    BY <2>1 DEF CloserCloses, Forget, Pub!Reset, Pub!ConnStates, DataOK
  <2>2. CASE CloserNulls
    BY <2>2 DEF CloserNulls, Forget, Pub!Reset, Pub!ConnStates, DataOK
  <2> QED
    BY <1>6, <2>1, <2>2 DEF Closer
<1>7. CASE Server
  <2>1. aired' \in {aired, Nowhere} /\ conn' \in Pub!ConnStates
    BY <1>7 DEF Server, Pub!Accept, Pub!StreamCreated, Pub!Permit, Pub!ConnStates
  <2>2. Nowhere \in [Track -> Seq(Frame)]
    BY DEF Nowhere
  <2> QED
    BY <1>7, <2>1, <2>2 DEF Server, DataOK
<1>8. CASE UNCHANGED vars
  BY <1>8 DEF vars, DataOK
<1> QED
  BY <1>1, <1>2, <1>3, <1>4, <1>5, <1>6, <1>7, <1>8 DEF Next

\* TypeOK is an invariant, for any number of sessions, samples and timestamps.
THEOREM TypeCorrect == Spec => []TypeOK
<1>1. Init => TypeOK
  <2>1. Init => FlagsOK
    BY DEF Init, FlagsOK
  <2>2. Init => DataOK
    BY FlvConstants, NoFrameTyped
    DEF Init, DataOK, FlvConstants, Fresh, Nowhere, Pub!Init, Pub!ConnStates
  <2> QED
    BY <2>1, <2>2 DEF TypeOK
<1>2. TypeOK /\ [Next]_vars => TypeOK'
  BY FlvConstants, FlagsNext, DataNext DEF TypeOK
<1> QED
  BY <1>1, <1>2, PTL DEF Spec

-----------------------------------------------------------------------------
(* The worker and its connection.                                          *)

\* How far the connection can be at each place of the worker: as far as the
\* worker has seen it, or taken away by a closer.
Ladder ==
  /\ wpc = "opening" => conn \in {"null", "open"}
  /\ wpc = "connecting" => conn \in {"null", "open", "connected"}
  /\ wpc = "publish" => conn \in {"null", "connected"}
  /\ wpc = "publishing" => conn \in {"null", "connected", "created", "permitted"}
  /\ wpc \in Streaming => conn \in {"null", "permitted"}

OnAir == wpc \in Streaming /\ conn = "permitted"

\* The frame about to be sent is the sequence header of track t.
Announcing(t) == wpc = "transmit" /\ frame.track = t /\ frame.hdr

\* The worker's memory (header and wdts) goes no further back than the stream.
Memory ==
  /\ wpc = "publishing" /\ conn = "permitted" => aired = Nowhere
  /\ wpc \in {"connect", "opening", "connecting", "publish", "publishing"} =>
       wdts = [t \in Track |-> 0]
  /\ OnAir => \A t \in Track :
       t \in header \/ wdts[t] > 0 => aired[t] # <<>> \/ Announcing(t)
  /\ OnAir /\ wpc = "transmit" => frame.hdr \/ aired[frame.track] # <<>>

\* wdts is the greatest timestamp sent on this stream.
Greatest ==
  /\ OnAir => \A t \in Track : \A i \in DOMAIN aired[t] : aired[t][i].dts <= wdts[t]
  /\ wpc = "transmit" => frame.dts = wdts[frame.track]

StreamInv == Ladder /\ Memory /\ Greatest /\ HeaderFirst /\ DtsMonotone

\* Without closers of earlier sessions: no closer is there while a worker is,
\* and the connection is never behind what the worker has seen.
Alone ==
  /\ mainPc = "reset" => wpc = "none"
  /\ mainPc \in {"interrupt", "join"} => wpc # "none"
  /\ closing + nulling > 0 => wpc = "none"
  /\ wpc = "opening" => conn = "open"
  /\ wpc = "connecting" => conn \in {"open", "connected"}
  /\ wpc = "publish" => conn = "connected"
  /\ wpc = "publishing" => conn \in {"connected", "created", "permitted"}
  /\ wpc \in Streaming => conn = "permitted"
  /\ wpc = "poll" /\ cache = <<>> => mainPc \in {"interrupt", "join"}
  /\ CrashOnlyWhileStopping


LEMMA StreamInit == FlvConstants /\ Init => StreamInv
BY DEF Init, Pub!Init, Nowhere, StreamInv, Ladder, Memory, Greatest, OnAir, HeaderFirst,
       DtsMonotone, Streaming, Track

\* A step that leaves the worker, its memory, the connection and the stream alone.
LEMMA StreamUntouched ==
  ASSUME StreamInv, UNCHANGED <<wpc, frame, wdts, header, conn, aired>>
  PROVE  StreamInv'
BY DEF StreamInv, Ladder, Memory, Greatest, OnAir, Announcing, HeaderFirst, DtsMonotone

\* A step after which nothing is on the air, and that keeps the stream or
\* begins an empty one.
LEMMA OffAir ==
  ASSUME TypeOK, StreamInv, Ladder', ~OnAir', wpc' # "transmit",
         aired' = aired \/ aired' = Nowhere,
         wpc' = "publishing" /\ conn' = "permitted" => aired' = Nowhere,
         wpc' \in {"connect", "opening", "connecting", "publish", "publishing"} =>
           wdts' = [t \in Track |-> 0]
  PROVE  StreamInv'
<1>1. Memory' /\ Greatest'
  BY DEF Memory, Greatest
<1>2. HeaderFirst' /\ DtsMonotone'
  BY DEF StreamInv, HeaderFirst, DtsMonotone, Nowhere
<1> QED
  BY <1>1, <1>2 DEF StreamInv

LEMMA StreamSend ==
  ASSUME FlvConstants, TypeOK, StreamInv, Send
  PROVE  StreamInv'
<1> USE DEF StreamInv
<1>1. /\ wpc = "send" /\ wpc' \in {"check", "transmit"}
      /\ UNCHANGED <<conn, aired>>
  BY DEF Send, SendFlvTag, closVars
<1>2. /\ frame \in Frame /\ frame.track \in Track /\ frame.dts \in 0..MaxDts
      /\ wdts \in [Track -> 0..MaxDts]
  BY DEF TypeOK, DataOK, Frame
<1>3. Ladder'
  BY <1>1 DEF Ladder, Streaming
<1>4. HeaderFirst' /\ DtsMonotone'
  BY <1>1 DEF HeaderFirst, DtsMonotone
<1>5. CASE ~Announced(frame)
  <2>1. UNCHANGED <<header, wdts>> /\ wpc' = "check"
    BY <1>5 DEF Send
  <2> QED
    BY <1>1, <1>3, <1>4, <2>1 DEF Memory, Greatest, OnAir, Announcing, Streaming
<1>6. CASE Announced(frame)
  <2>1. /\ header' = header \cup {frame.track}
        /\ wdts' = [wdts EXCEPT ![frame.track] = NewDts(frame)]
        /\ wpc' = IF frame.dts < NewDts(frame) \/ conn # "permitted"
                    THEN "check" ELSE "transmit"
        /\ wpc' = "transmit" => frame' = frame
    BY <1>6 DEF Send, SendFlvTag
  <2>2. /\ NewDts(frame) >= wdts[frame.track] /\ NewDts(frame) >= frame.dts
        /\ NewDts(frame) \in 0..MaxDts
        /\ NewDts(frame) = frame.dts \/ NewDts(frame) = wdts[frame.track]
    BY <1>2 DEF NewDts, Max2
  <2>3. OnAir' => OnAir
    BY <1>1 DEF OnAir, Streaming
  <2>4. Greatest'
    <3>1. ASSUME OnAir', NEW t \in Track, NEW i \in DOMAIN aired[t]
          PROVE  aired[t][i].dts <= wdts'[t]
      <4>1. aired[t][i].dts <= wdts[t] /\ aired[t][i].dts \in Nat
        <5>1. aired[t][i] \in Frame
          BY DEF TypeOK, DataOK
        <5> QED
          BY <3>1, <5>1, <2>3 DEF Greatest, Frame
      <4> QED
        BY <1>2, <2>1, <2>2, <4>1
    <3>2. wpc' = "transmit" => frame'.dts = wdts'[frame'.track]
      BY <1>2, <2>1, <2>2
    <3> QED
      BY <1>1, <3>1, <3>2 DEF Greatest
  <2>5. Memory'
    <3>1. ASSUME OnAir', NEW t \in Track, t \in header' \/ wdts'[t] > 0, aired[t] = <<>>
          PROVE  Announcing(t)'
      <4>1. ~ (t \in header) /\ ~ (wdts[t] > 0)
        BY <3>1, <2>3, <1>1 DEF Memory, Announcing
      <4>2. t = frame.track
        BY <4>1, <3>1, <2>1, <1>2
      <4>3. frame.hdr
        BY <1>6, <4>1, <4>2 DEF Announced
      <4>4. wpc' = "transmit"
        BY <4>1, <4>2, <2>1, <2>2, <1>1, <1>2, <3>1 DEF OnAir
      <4> QED
        BY <4>2, <4>3, <4>4, <2>1 DEF Announcing
    <3>2. ASSUME OnAir', wpc' = "transmit", ~frame.hdr
          PROVE  aired[frame.track] # <<>>
      BY <1>1, <1>2, <1>6, <2>3, <3>2 DEF Announced, Memory, Announcing
    <3> QED
      BY <1>1, <2>1, <3>1, <3>2 DEF Memory
  <2> QED
    BY <1>3, <1>4, <2>4, <2>5
<1> QED
  BY <1>5, <1>6

LEMMA StreamTransmit ==
  ASSUME FlvConstants, TypeOK, StreamInv, Transmit
  PROVE  StreamInv'
<1> USE DEF StreamInv
<1>1. /\ wpc = "transmit" /\ wpc' \in {"check", "crashed"}
      /\ UNCHANGED <<conn, wdts, header>>
  BY DEF Transmit, NoSession, closVars
<1>2. Ladder'
  BY <1>1 DEF Ladder, Streaming
<1>3. CASE conn # "permitted"
  <2>1. aired' = aired
    BY <1>3 DEF Transmit
  <2> QED
    BY <1>1, <1>2, <1>3, <2>1, OffAir DEF OnAir
<1>4. CASE conn = "permitted"
  <2> DEFINE k == frame.track
             s == aired[k]
  <2>1. /\ k \in Track /\ frame \in Frame /\ s \in Seq(Frame)
        /\ aired \in [Track -> Seq(Frame)] /\ wdts \in [Track -> 0..MaxDts]
    BY DEF TypeOK, DataOK, Frame
  <2>2. aired' = [aired EXCEPT ![k] = Append(s, frame)]
    BY <1>4 DEF Transmit
  <2>3. /\ aired'[k] = Append(s, frame) /\ aired'[k] # <<>>
        /\ \A t \in Track : t # k => aired'[t] = aired[t]
    BY <2>1, <2>2
  <2>4. OnAir /\ frame.dts = wdts[k] /\ (frame.hdr \/ s # <<>>)
    BY <1>1, <1>4 DEF OnAir, Streaming, Memory, Greatest
  <2>5. \A i \in DOMAIN s : s[i].dts <= frame.dts /\ s[i].dts \in Nat
    <3>1. \A i \in DOMAIN s : s[i] \in Frame
      BY <2>1
    <3> QED
      BY <2>1, <2>4, <3>1 DEF Greatest, Frame
  <2>6. /\ DOMAIN Append(s, frame) = 1..(Len(s) + 1) /\ DOMAIN s = 1..Len(s) /\ Len(s) \in Nat
        /\ \A i \in 1..Len(s) : Append(s, frame)[i] = s[i]
        /\ Append(s, frame)[Len(s) + 1] = frame
    BY <2>1
  <2>7. HeaderFirst'
    <3>1. Append(s, frame)[1].hdr
      <4>1. CASE s = <<>>
        BY <4>1, <2>4
      <4>2. CASE s # <<>>
        BY <4>2, <2>1, <2>6 DEF HeaderFirst
      <4> QED
        BY <4>1, <4>2
    <3> QED
      BY <2>3, <3>1 DEF HeaderFirst
  <2>8. \A i \in DOMAIN Append(s, frame) : Append(s, frame)[i].dts <= wdts[k]
    <3>1. frame.dts <= frame.dts
      BY <2>1 DEF Frame
    <3> QED
      BY <2>4, <2>5, <2>6, <3>1
  <2>9. DtsMonotone'
    <3>1. ASSUME NEW i \in DOMAIN Append(s, frame), NEW j \in DOMAIN Append(s, frame), i < j
          PROVE  Append(s, frame)[i].dts <= Append(s, frame)[j].dts
      <4>1. i \in 1..Len(s)
        BY <3>1, <2>6
      <4>2. CASE j = Len(s) + 1
        BY <4>1, <4>2, <2>5, <2>6
      <4>3. CASE j \in 1..Len(s)
        BY <3>1, <4>1, <4>3, <2>1, <2>6 DEF DtsMonotone
      <4> QED
        BY <3>1, <2>6, <4>2, <4>3
    <3> QED
      BY <2>3, <3>1 DEF DtsMonotone
  <2>10. Greatest'
    BY <1>1, <2>3, <2>4, <2>8 DEF Greatest, OnAir
  <2>11. Memory'
    BY <1>1, <2>3, <2>4 DEF Memory, OnAir, Announcing
  <2> QED
    BY <1>2, <2>7, <2>9, <2>10, <2>11
<1> QED
  BY <1>3, <1>4

LEMMA StreamNext == FlvConstants /\ TypeOK /\ StreamInv /\ [Next]_vars => StreamInv'
<1> SUFFICES ASSUME FlvConstants, TypeOK, StreamInv, [Next]_vars PROVE StreamInv'
  OBVIOUS
<1> USE DEF StreamInv, mainVars, flvVars, prodVars, workVars, closVars
<1>1. CASE Start
  <2>1. wpc' = "connect" /\ UNCHANGED <<conn, aired>> /\ wdts' = [t \in Track |-> 0]
    BY <1>1 DEF Start
  <2> QED
    BY <2>1, OffAir DEF Ladder, OnAir, Streaming
<1>2. CASE StopClear \/ StopInterrupt \/ StopReset
  BY <1>2, StreamUntouched DEF StopClear, StopInterrupt, StopReset
<1>3. CASE StopJoin
  <2>1. wpc' = "none" /\ UNCHANGED <<conn, aired>>
    BY <1>3 DEF StopJoin
  <2> QED
    BY <2>1, OffAir DEF Ladder, OnAir, Streaming
<1>4. CASE Capture
  <2>1. CASE \E t \in Track : Notify(t)
    <3>1. /\ UNCHANGED <<frame, wdts, header, conn, aired>>
          /\ wpc' = wpc \/ (wpc = "wait" /\ wpc' = "loop")
      BY <2>1 DEF Notify
    <3> QED
      BY <3>1 DEF Ladder, Memory, Greatest, OnAir, Announcing, HeaderFirst, DtsMonotone,
                  Streaming
  <2>2. CASE ~ \E t \in Track : Notify(t)
    <3>1. UNCHANGED <<wpc, frame, wdts, header, conn, aired>>
      BY <1>4, <2>2 DEF Capture, WriteParameterSets, WriteSlice, WriteAudio, Sampled, Add
    <3> QED
      BY <3>1, StreamUntouched
  <2> QED
    BY <2>1, <2>2
<1>5. CASE Worker
  <2>1. CASE ConnectRefused \/ Opened \/ ConnectSent \/ ConnectReturns \/ PublishSent
    <3>1. /\ UNCHANGED <<wdts, aired>> /\ wpc' \notin Streaming /\ Ladder'
          /\ wpc' = "publishing" => conn' # "permitted"
          /\ wpc' \in {"connect", "opening", "connecting", "publish", "publishing"} =>
               wpc \in {"connect", "opening", "connecting", "publish", "publishing"}
      BY <2>1 DEF ConnectRefused, Opened, ConnectSent, ConnectReturns, PublishSent, NoSession,
                  GiveUp, Ladder, Streaming, Pub!Open, Pub!OpenFails, Pub!Reset, Pub!IsConnected
    <3> QED
      BY <3>1, OffAir DEF OnAir, Memory, Streaming
  <2>2. CASE PublishReturns
    <3>1. CASE conn = "permitted"
      <4>1. /\ wpc = "publishing" /\ wpc' = "loop" /\ header' = {}
            /\ UNCHANGED <<conn, aired, wdts, frame>>
        BY <2>2, <3>1 DEF PublishReturns, PublishPermitted, Forget
      <4>2. aired = Nowhere /\ wdts = [t \in Track |-> 0]
        BY <4>1, <3>1 DEF Memory
      <4> QED
        BY <3>1, <4>1, <4>2 DEF Ladder, Memory, Greatest, OnAir, HeaderFirst, DtsMonotone,
                                Streaming, Nowhere
    <3>2. CASE conn # "permitted"
      <4>1. wpc' = "dead" /\ conn' = "null" /\ UNCHANGED aired
        BY <2>2, <3>2 DEF PublishReturns, PublishPermitted, Pub!Reset
      <4> QED
        BY <4>1, OffAir DEF Ladder, OnAir, Streaming
    <3> QED
      BY <3>1, <3>2
  <2>3. CASE Loop \/ Check \/ Poll \/ WaitBegins \/ WaitTimesOut \/ WaitInterrupted
    <3>1. /\ UNCHANGED <<wdts, header, conn, aired>>
          /\ wpc \in Streaming \ {"transmit"}
          /\ wpc' \in (Streaming \ {"transmit"}) \cup {"dead", "crashed"}
      BY <2>3 DEF Loop, Check, Poll, WaitBegins, WaitTimesOut, WaitInterrupted, Streaming
    <3> QED
      BY <3>1 DEF Ladder, Memory, Greatest, OnAir, Announcing, HeaderFirst, DtsMonotone,
                  Streaming
  <2>4. CASE Send
    BY <2>4, StreamSend
  <2>5. CASE Transmit
    BY <2>5, StreamTransmit
  <2> QED
    BY <1>5, <2>1, <2>2, <2>3, <2>4, <2>5 DEF Worker
<1>6. CASE CloserCloses
  BY <1>6 DEF CloserCloses, Pub!Reset, Ladder, Memory, Greatest, OnAir, HeaderFirst,
              DtsMonotone, Streaming
<1>7. CASE CloserNulls
  <2>1. header' = {} /\ UNCHANGED <<wpc, frame, wdts, conn, aired>>
    BY <1>7 DEF CloserNulls, Forget
  <2> QED
    BY <2>1 DEF Ladder, Memory, Greatest, OnAir, Announcing, HeaderFirst, DtsMonotone
<1>8. CASE Server
  <2>1. /\ UNCHANGED <<wpc, frame, wdts, header>> /\ wpc \notin Streaming
        /\ aired' = aired \/ aired' = Nowhere
        /\ conn' = "permitted" => aired' = Nowhere
        /\ Ladder'
    BY <1>8 DEF Server, Pub!Accept, Pub!StreamCreated, Pub!Permit, Ladder, Streaming
  <2> QED
    BY <2>1, OffAir DEF OnAir, Memory, Streaming
<1>9. CASE UNCHANGED vars
  BY <1>9, StreamUntouched DEF vars
<1> QED
  BY <1>1, <1>2, <1>3, <1>4, <1>5, <1>6, <1>7, <1>8, <1>9 DEF Next, Stopping, Closer

\* On every stream the first frame of a track is its sequence header and the
\* timestamps of a track never go back, whatever sessions overlap, fail or are
\* left behind: what sendFlvTag() and the loop in start() of SrsFlvMuxer.java
\* remember suffices.
THEOREM StreamsInOrder == Spec => [](HeaderFirst /\ DtsMonotone)
<1>1. Init => StreamInv
  BY FlvConstants, StreamInit
<1>2. TypeOK /\ StreamInv /\ [Next]_vars => StreamInv'
  BY FlvConstants, StreamNext
<1>3. StreamInv => HeaderFirst /\ DtsMonotone
  BY DEF StreamInv
<1> QED
  BY <1>1, <1>2, <1>3, TypeCorrect, PTL DEF Spec

\* The timestamps of a track never go back on a stream: DtsMonotone by itself.
THEOREM TimestampsKept == Spec => []DtsMonotone
BY StreamsInOrder, PTL

-----------------------------------------------------------------------------
(* Sessions that start after the closers of the one before have finished.  *)

LEMMA AloneInit == FlvConstants /\ Init => Alone
BY DEF Init, FlvConstants, Alone, CrashOnlyWhileStopping, Streaming

LEMMA AloneNext ==
  ASSUME "disconnect" \notin Overlap, TypeOK, Alone, [Next]_vars
  PROVE  Alone'
<1> USE DEF mainVars, flvVars, prodVars, workVars, closVars
<1>t. closing \in Nat /\ nulling \in Nat /\ cache \in Seq(Frame)
  BY DEF TypeOK, DataOK
<1>0. CASE UNCHANGED vars
  BY <1>0 DEF vars, Alone, CrashOnlyWhileStopping
<1>1. CASE Next
  <2>c. wpc # "crashed" /\ (Alone => CrashOnlyWhileStopping)
    BY <1>1 DEF Next, Alone
  <2>1. CASE Start
    BY <2>1, <1>t DEF Start, MayStart, Alone, CrashOnlyWhileStopping, Streaming
  <2>2. CASE StopClear
    BY <2>2, <2>c DEF StopClear, Alone, CrashOnlyWhileStopping, Streaming
  <2>3. CASE Stopping
    BY <2>3, <2>c, <1>t DEF Stopping, StopInterrupt, StopJoin, StopReset, Alone,
                            CrashOnlyWhileStopping, Streaming
  <2>4. CASE Capture
    <3>1. /\ UNCHANGED <<mainPc, conn, closing, nulling>>
          /\ cache' = cache \/ cache' # <<>>
          /\ wpc' = wpc \/ (wpc = "wait" /\ wpc' = "loop")
      <4>1. ASSUME NEW t \in Track, Add(t) PROVE cache' # <<>>
        BY <4>1, <1>t DEF Add
      <4> QED
        BY <2>4, <4>1 DEF Capture, WriteParameterSets, WriteSlice, WriteAudio, Sampled, Add,
                          Notify
    <3> QED
      BY <3>1, <2>c DEF Alone, CrashOnlyWhileStopping, Streaming
  <2>5. CASE Worker
    <3>1. CASE ConnectRefused \/ Opened \/ ConnectSent \/ ConnectReturns
      BY <3>1, <2>c, <1>t
      DEF ConnectRefused, Opened, ConnectSent, NoSession, ConnectReturns, GiveUp, Alone,
          CrashOnlyWhileStopping, Streaming, Pub!Open, Pub!IsConnected
    <3>2. CASE PublishSent \/ PublishReturns
      BY <3>2, <2>c, <1>t
      DEF PublishSent, PublishReturns, PublishPermitted, NoSession, GiveUp, Alone,
          CrashOnlyWhileStopping, Streaming
    <3>3. CASE Loop \/ Check \/ WaitBegins \/ WaitTimesOut \/ WaitInterrupted
      BY <3>3, <2>c, <1>t
      DEF Loop, Check, CacheIsEmpty, WaitBegins, WaitTimesOut, WaitInterrupted, Alone,
          CrashOnlyWhileStopping, Streaming
    <3>4. CASE Poll
      BY <3>4, <2>c, <1>t DEF Poll, Alone, CrashOnlyWhileStopping, Streaming
    <3>5. CASE Send
      BY <3>5, <2>c, <1>t DEF Send, SendFlvTag, Alone, CrashOnlyWhileStopping, Streaming
    <3>6. CASE Transmit
      BY <3>6, <2>c, <1>t DEF Transmit, NoSession, Alone, CrashOnlyWhileStopping, Streaming
    <3> QED
      BY <2>5, <3>1, <3>2, <3>3, <3>4, <3>5, <3>6 DEF Worker
  <2>6. CASE Closer
    BY <2>6, <2>c, <1>t DEF Closer, CloserCloses, CloserNulls, Alone, CrashOnlyWhileStopping,
                            Streaming
  <2>7. CASE Server
    BY <2>7, <2>c DEF Server, Pub!Accept, Pub!StreamCreated, Pub!Permit, Alone,
                      CrashOnlyWhileStopping, Streaming
  <2> QED
    BY <1>1, <2>1, <2>2, <2>3, <2>4, <2>5, <2>6, <2>7 DEF Next
<1> QED
  BY <1>0, <1>1

\* If every start() waits for the disconnect() of the last stop(), the worker
\* dies only of the cache that stop() empties between its isEmpty() and its
\* poll(): nobody else is at its connection (Alone).
THEOREM CrashesOnlyInStop ==
  ASSUME "disconnect" \notin Overlap
  PROVE  Spec => []CrashOnlyWhileStopping
<1>1. Init => Alone
  BY FlvConstants, AloneInit
<1>2. TypeOK /\ Alone /\ [Next]_vars => Alone'
  BY AloneNext
<1>3. Alone => CrashOnlyWhileStopping
  BY DEF Alone
<1> QED
  BY <1>1, <1>2, <1>3, TypeCorrect, PTL DEF Spec

-----------------------------------------------------------------------------
(* Parameter sets.                                                         *)

\* A parameter set that is neither null nor zeros was given by the encoder.
HeaderInv == HeaderCurrent /\ (h264.pps \in Pps => h264.sps \in Sps)

LEMMA HeaderNext ==
  ASSUME \A a, b \in Sps : a = b, TypeOK, HeaderInv, [Next]_vars
  PROVE  HeaderInv'
<1> USE FlvConstants DEF FlvConstants, mainVars, flvVars, prodVars, workVars, closVars
<1>u. ASSUME UNCHANGED <<h264, sent, announced>> PROVE HeaderInv'
  BY <1>u DEF HeaderInv, HeaderCurrent
<1>1. CASE Start \/ StopClear
  BY <1>1, <1>u DEF Start, StopClear
<1>2. CASE Stopping
  <2>1. CASE StopReset
    <3>1. h264'.pps \notin Pps
      BY <2>1 DEF StopReset, Zero
    <3> QED
      BY <3>1 DEF HeaderInv, HeaderCurrent
  <2> QED
    BY <1>2, <2>1, <1>u DEF Stopping, StopInterrupt, StopJoin
<1>3. CASE Capture
  <2>1. ASSUME NEW dts \in 0..MaxDts, NEW sps \in Sps, NEW pps \in Pps,
               WriteParameterSets(sps, pps, dts)
        PROVE  HeaderInv'
    <3>1. h264' = [sps |-> sps, pps |-> pps]
      BY <2>1 DEF WriteParameterSets
    <3>2. CASE NewParameterSets(sps, pps)
      BY <2>1, <3>1, <3>2 DEF WriteParameterSets, HeaderInv, HeaderCurrent
    <3>3. CASE ~NewParameterSets(sps, pps)
      <4>1. /\ pps = h264.pps /\ sent /\ announced = h264 /\ h264.sps \in Sps
            /\ sent' = sent /\ announced' = announced
        BY <2>1, <3>3 DEF WriteParameterSets, NewParameterSets, HeaderInv, HeaderCurrent
      <4>2. h264 = [sps |-> h264.sps, pps |-> h264.pps]
        BY DEF TypeOK, DataOK
      <4> QED
        BY <3>1, <4>1, <4>2 DEF HeaderInv, HeaderCurrent
    <3> QED
      BY <3>2, <3>3
  <2>2. ASSUME ~\E dts \in 0..MaxDts : \E sps \in Sps, pps \in Pps :
                  WriteParameterSets(sps, pps, dts)
        PROVE  UNCHANGED <<h264, sent, announced>>
    BY <1>3, <2>2 DEF Capture, WriteSlice, WriteAudio, Add, Notify
  <2> QED
    BY <2>1, <2>2, <1>u
<1>4. CASE Worker
  BY <1>4, <1>u
  DEF Worker, ConnectRefused, Opened, ConnectSent, ConnectReturns, PublishSent, PublishReturns,
      Loop, Check, Poll, Send, Transmit, WaitBegins, WaitTimesOut, WaitInterrupted
<1>5. CASE Closer \/ Server
  BY <1>5, <1>u DEF Closer, CloserCloses, CloserNulls, Server
<1>6. CASE UNCHANGED vars
  BY <1>6, <1>u DEF vars
<1> QED
  BY <1>1, <1>2, <1>3, <1>4, <1>5, <1>6 DEF Next

\* For an encoder with one SPS, the sequence header that was written is that of
\* the parameter sets in use, although reset() of SrsFlvMuxer.java only
\* overwrites what the next ones are compared with.
THEOREM HeadersCurrent ==
  ASSUME \A a, b \in Sps : a = b
  PROVE  Spec => []HeaderCurrent
<1>1. Init => HeaderInv
  BY FlvConstants DEF FlvConstants, Init, Fresh, HeaderInv, HeaderCurrent
<1>2. TypeOK /\ HeaderInv /\ [Next]_vars => HeaderInv'
  BY HeaderNext
<1>3. HeaderInv => HeaderCurrent
  BY DEF HeaderInv
<1> QED
  BY <1>1, <1>2, <1>3, TypeCorrect, PTL DEF Spec

-----------------------------------------------------------------------------
(* Sessions that start when everything of the one before has ended.        *)

\* Capture threads that run belong to one session, and it is the last one.
OneCapture ==
  /\ capturing \in {0, 1}
  /\ mainPc # "idle" \/ wpc = "none" => capturing = 0
  /\ capturing = 0 => cache = <<>> /\ \A t \in Track : prodPc[t] = "idle"

\* Every frame on its way was captured in this session.
Born ==
  /\ \A i \in DOMAIN cache : cache[i].born = starts
  /\ \A t \in Track : prodPc[t] # "idle" => prodFrame[t].born = starts
  /\ wpc \in {"send", "transmit"} => frame.born = starts
  /\ wpc \in Streaming =>
       \A t \in Track : \A i \in DOMAIN aired[t] : aired[t][i].born = starts

LEMMA OneCaptureNext ==
  ASSUME Overlap = {}, TypeOK, OneCapture, [Next]_vars
  PROVE  OneCapture'
<1> USE DEF mainVars, flvVars, prodVars, workVars, closVars
<1>t. prodPc \in [Track -> {"idle", "add", "count", "notify"}] /\ cache \in Seq(Frame)
  BY DEF TypeOK, DataOK
<1>u. ASSUME UNCHANGED <<capturing, prodPc, mainPc>>, cache = <<>> => cache' = <<>>,
             wpc' = "none" => wpc = "none"
      PROVE  OneCapture'
  BY <1>u DEF OneCapture
<1>1. CASE Start
  BY <1>1 DEF Start, MayStart, OneCapture
<1>2. CASE StopClear
  BY <1>2 DEF StopClear, CaptureJoined, OneFewer, OneCapture
<1>3. CASE Stopping
  BY <1>3 DEF Stopping, StopInterrupt, StopJoin, StopReset, OneCapture
<1>4. CASE Capture
  <2>1. capturing > 0 \/ \E t \in Track : prodPc[t] # "idle"
    BY <1>4 DEF Capture, WriteParameterSets, WriteSlice, WriteAudio, Sampled, Add, Notify
  <2>2. UNCHANGED <<capturing, mainPc>> /\ (wpc' = wpc \/ wpc' = "loop")
    BY <1>4 DEF Capture, WriteParameterSets, WriteSlice, WriteAudio, Sampled, Add, Notify
  <2> QED
    BY <2>1, <2>2 DEF OneCapture
<1>5. CASE Worker
  <2>1. CASE Poll
    <3>1. UNCHANGED <<capturing, prodPc, mainPc>> /\ wpc' # "none"
      BY <2>1 DEF Poll
    <3>2. cache = <<>> => cache' = <<>>
      BY <2>1 DEF Poll
    <3> QED
      BY <3>1, <3>2 DEF OneCapture
  <2>2. CASE ConnectRefused \/ Opened \/ ConnectSent \/ ConnectReturns \/ PublishSent
    BY <2>2, <1>u DEF ConnectRefused, Opened, ConnectSent, ConnectReturns, PublishSent, GiveUp,
                      NoSession
  <2>3. CASE PublishReturns \/ Loop \/ Check \/ Send \/ Transmit \/ WaitBegins \/ WaitTimesOut
             \/ WaitInterrupted
    BY <2>3, <1>u DEF PublishReturns, Loop, Check, Send, SendFlvTag, Transmit, NoSession,
                      WaitBegins, WaitTimesOut, WaitInterrupted
  <2> QED
    BY <1>5, <2>1, <2>2, <2>3 DEF Worker
<1>6. CASE Closer \/ Server
  BY <1>6, <1>u DEF Closer, CloserCloses, CloserNulls, Server
<1>7. CASE UNCHANGED vars
  BY <1>7, <1>u DEF vars
<1> QED
  BY <1>1, <1>2, <1>3, <1>4, <1>5, <1>6, <1>7 DEF Next

LEMMA BornNext ==
  ASSUME Overlap = {}, TypeOK, OneCapture, Memory, Born, [Next]_vars
  PROVE  Born'
<1> USE DEF mainVars, flvVars, prodVars, workVars, closVars
<1>t. /\ prodPc \in [Track -> {"idle", "add", "count", "notify"}] /\ cache \in Seq(Frame)
      /\ prodFrame \in [Track -> Frame] /\ frame \in Frame /\ aired \in [Track -> Seq(Frame)]
  BY DEF TypeOK, DataOK
<1>u. ASSUME UNCHANGED <<starts, prodPc, prodFrame, aired>>, cache' \in {cache, <<>>},
             wpc' \in {"send", "transmit"} => wpc \in {"send", "transmit"} /\ frame' = frame,
             wpc' \in Streaming => wpc \in Streaming
      PROVE  Born'
  BY <1>u DEF Born
<1>1. CASE Start
  <2>1. cache = <<>> /\ \A t \in Track : prodPc[t] = "idle"
    BY <1>1 DEF Start, MayStart, OneCapture
  <2> QED
    BY <1>1, <2>1 DEF Start, Born, Streaming
<1>2. CASE StopClear \/ Stopping
  BY <1>2, <1>u DEF StopClear, Stopping, StopInterrupt, StopJoin, StopReset, Streaming
<1>3. CASE Capture
  <2>1. ASSUME NEW t \in Track, NEW hdr \in BOOLEAN, NEW dts \in 0..MaxDts,
               HandOver(t, hdr, dts), UNCHANGED <<starts, cache, wpc, frame, aired>>
        PROVE  Born'
    BY <2>1, <1>t DEF HandOver, Born
  <2>2. ASSUME NEW dts \in 0..MaxDts, NEW sps \in Sps, NEW pps \in Pps,
               WriteParameterSets(sps, pps, dts)
        PROVE  Born'
    BY <2>2, <2>1, <1>u DEF WriteParameterSets, Sampled, Track
  <2>3. ASSUME NEW dts \in 0..MaxDts, NEW idr \in BOOLEAN, WriteSlice(idr, dts)
        PROVE  Born'
    BY <2>3, <2>1, <1>u DEF WriteSlice, Sampled, Track
  <2>4. ASSUME NEW dts \in 0..MaxDts, WriteAudio(dts)
        PROVE  Born'
    BY <2>4, <2>1, <1>u DEF WriteAudio, Sampled, Track
  <2>5. ASSUME NEW t \in Track, Add(t)
        PROVE  Born'
    <3>1. \A i \in DOMAIN cache' :
            cache'[i] = prodFrame[t] \/ (i \in DOMAIN cache /\ cache'[i] = cache[i])
      BY <2>5, <1>t DEF Add
    <3>2. prodFrame[t].born = starts
      BY <2>5 DEF Add, Born
    <3> QED
      BY <2>5, <3>1, <3>2, <1>t DEF Add, Born
  <2>6. ASSUME NEW t \in Track, Notify(t)
        PROVE  Born'
    BY <2>6, <1>t DEF Notify, Born, Streaming
  <2> QED
    BY <1>3, <2>2, <2>3, <2>4, <2>5, <2>6 DEF Capture
<1>4. CASE Worker
  <2>1. CASE Poll
    <3>1. CASE cache = <<>>
      BY <2>1, <3>1, <1>u DEF Poll, Streaming
    <3>2. CASE cache # <<>>
      <4>1. /\ Head(cache).born = starts
            /\ \A i \in DOMAIN Tail(cache) : Tail(cache)[i].born = starts
        BY <3>2, <1>t DEF Born
      <4> QED
        BY <2>1, <3>2, <4>1 DEF Poll, Born, Streaming
    <3> QED
      BY <3>1, <3>2
  <2>2. CASE ConnectRefused \/ Opened \/ ConnectSent \/ ConnectReturns \/ PublishSent
    BY <2>2, <1>u DEF ConnectRefused, Opened, ConnectSent, ConnectReturns, PublishSent, GiveUp,
                      NoSession, Streaming
  <2>3. CASE PublishReturns
    <3>1. wpc' \in Streaming => aired = Nowhere
      BY <2>3 DEF PublishReturns, PublishPermitted, Memory, Streaming
    <3> QED
      BY <2>3, <3>1 DEF PublishReturns, Born, Nowhere, Streaming
  <2>4. CASE Loop \/ Check \/ WaitBegins \/ WaitTimesOut \/ WaitInterrupted
    BY <2>4, <1>u DEF Loop, Check, WaitBegins, WaitTimesOut, WaitInterrupted, Streaming
  <2>5. CASE Send
    BY <2>5 DEF Send, SendFlvTag, Born, Streaming
  <2>6. CASE Transmit
    <3>1. frame.track \in Track /\ frame.born = starts
      BY <2>6, <1>t DEF Transmit, Frame, Born
    <3>2. \A t \in Track : \A i \in DOMAIN aired'[t] :
            aired'[t][i] = frame \/ (i \in DOMAIN aired[t] /\ aired'[t][i] = aired[t][i])
      BY <2>6, <3>1, <1>t DEF Transmit
    <3>3. \A t \in Track : \A i \in DOMAIN aired'[t] : aired'[t][i].born = starts
      BY <2>6, <3>1, <3>2 DEF Transmit, Born, Streaming
    <3> QED
      BY <2>6, <3>3 DEF Transmit, NoSession, Born, Streaming
  <2> QED
    BY <1>4, <2>1, <2>2, <2>3, <2>4, <2>5, <2>6 DEF Worker
<1>5. CASE Closer
  BY <1>5, <1>u DEF Closer, CloserCloses, CloserNulls
<1>6. CASE Server
  BY <1>6, <1>u DEF Server, Born, Nowhere, Streaming
<1>7. CASE UNCHANGED vars
  BY <1>7, <1>u DEF vars
<1> QED
  BY <1>1, <1>2, <1>3, <1>4, <1>5, <1>6, <1>7 DEF Next

\* If every start() waits until everything of the last session has ended, a
\* session publishes only its own frames: the threads that stopEncode() joins,
\* and the cache that stop() empties, are all that could hold older ones.
THEOREM FramesFresh ==
  ASSUME Overlap = {}
  PROVE  Spec => []FreshFrames
<1>1. Init => StreamInv /\ OneCapture /\ Born
  <2>1. Init => OneCapture /\ Born
    BY DEF Init, OneCapture, Born, Streaming
  <2> QED
    BY <2>1, FlvConstants, StreamInit
<1>2. TypeOK /\ StreamInv /\ OneCapture /\ Born /\ [Next]_vars => (StreamInv /\ OneCapture /\ Born)'
  BY FlvConstants, StreamNext, OneCaptureNext, BornNext DEF StreamInv
<1>3. Born => FreshFrames
  BY DEF Born, FreshFrames
<1> QED
  BY <1>1, <1>2, <1>3, TypeCorrect, PTL DEF Spec

\* What the closers of the last session have not yet done when stop() is over.
Cleaned ==
  wpc = "none" /\ mainPc = "idle" =>
    /\ ~sent /\ needKey /\ ~aacGot
    /\ closing = 0 => conn = "null" /\ counter = 0
    /\ closing + nulling = 0 => header = {}

LEMMA CleanedNext ==
  ASSUME TypeOK, OneCapture, Cleaned, [Next]_vars
  PROVE  Cleaned'
<1> USE DEF mainVars, flvVars, prodVars, workVars, closVars
<1>t. closing \in Nat /\ nulling \in Nat
  BY DEF TypeOK, DataOK
<1>1. CASE Start \/ StopClear
  BY <1>1 DEF Start, StopClear, Cleaned
<1>2. CASE Stopping
  BY <1>2, <1>t DEF Stopping, StopInterrupt, StopJoin, StopReset, Cleaned
<1>3. CASE Capture
  <2>1. UNCHANGED <<mainPc, conn, closing, nulling, header>> /\ (wpc' = "none" => wpc = "none")
    BY <1>3 DEF Capture, WriteParameterSets, WriteSlice, WriteAudio, Sampled, Add, Notify
  <2>2. capturing > 0 \/ \E t \in Track : prodPc[t] # "idle"
    BY <1>3 DEF Capture, WriteParameterSets, WriteSlice, WriteAudio, Sampled, Add, Notify
  <2> QED
    BY <2>1, <2>2 DEF OneCapture, Cleaned
<1>4. CASE Worker
  <2>1. wpc' # "none"
    BY <1>4
    DEF Worker, ConnectRefused, Opened, ConnectSent, ConnectReturns, PublishSent, PublishReturns,
        Loop, Check, Poll, Send, SendFlvTag, Transmit, WaitBegins, WaitTimesOut, WaitInterrupted,
        GiveUp, NoSession
  <2> QED
    BY <2>1 DEF Cleaned
<1>5. CASE CloserCloses
  BY <1>5, <1>t DEF CloserCloses, Pub!Reset, Cleaned
<1>6. CASE CloserNulls
  BY <1>6, <1>t DEF CloserNulls, Forget, Cleaned
<1>7. CASE Server
  BY <1>7 DEF Server, Pub!Permit, Cleaned
<1>8. CASE UNCHANGED vars
  BY <1>8 DEF vars, Cleaned
<1> QED
  BY <1>1, <1>2, <1>3, <1>4, <1>5, <1>6, <1>7, <1>8 DEF Next, Closer

\* And then, when the closer has ended, nothing of the session is left.
THEOREM NothingStays ==
  ASSUME Overlap = {}
  PROVE  Spec => []StoppedIsClean
<1>1. Init => OneCapture /\ Cleaned
  BY DEF Init, Pub!Init, OneCapture, Cleaned
<1>2. TypeOK /\ OneCapture /\ Cleaned /\ [Next]_vars => (OneCapture /\ Cleaned)'
  BY OneCaptureNext, CleanedNext
<1>3. TypeOK /\ OneCapture /\ Cleaned => StoppedIsClean
  BY DEF TypeOK, DataOK, OneCapture, Cleaned, StoppedIsClean
<1> QED
  BY <1>1, <1>2, <1>3, TypeCorrect, PTL DEF Spec


-----------------------------------------------------------------------------
(* The counter of cached video frames.                                     *)

\* Where the video frames of s are; VideoIn(s) is how many.
VideosOf(s) == {i \in DOMAIN s : s[i].track = "video"}

LEMMA VideosFinite ==
  ASSUME NEW s \in Seq(Frame)
  PROVE  IsFiniteSet(VideosOf(s)) /\ VideoIn(s) = Cardinality(VideosOf(s)) /\ VideoIn(s) \in Nat
<1>1. Len(s) \in Nat /\ VideosOf(s) \subseteq 1..Len(s)
  BY DEF VideosOf
<1>2. IsFiniteSet(1..Len(s))
  BY <1>1, FS_Interval
<1>3. IsFiniteSet(VideosOf(s))
  BY <1>1, <1>2, FS_Subset
<1>4. VideoIn(s) = Cardinality(VideosOf(s))
  BY DEF VideoIn, VideosOf
<1> QED
  BY <1>3, <1>4, FS_CardinalityType

LEMMA VideoInEmpty == VideoIn(<<>>) = 0
<1>1. VideosOf(<<>>) = {}
  BY DEF VideosOf
<1> QED
  BY <1>1, FS_EmptySet DEF VideoIn, VideosOf

LEMMA VideoAppended ==
  ASSUME NEW s \in Seq(Frame), NEW f \in Frame
  PROVE  VideoIn(Append(s, f)) = VideoIn(s) + (IF f.track = "video" THEN 1 ELSE 0)
<1>n. PICK n \in Nat : n = Len(s)
  OBVIOUS
<1>v. PICK v : v = Append(s, f)
  OBVIOUS
<1>1. /\ v \in Seq(Frame) /\ DOMAIN v = 1..(n + 1) /\ v[n + 1] = f
      /\ DOMAIN s = 1..n /\ \A i \in 1..n : v[i] = s[i]
  BY <1>n, <1>v
<1>2. CASE f.track = "video"
  <2>1. VideosOf(v) = VideosOf(s) \cup {n + 1} /\ n + 1 \notin VideosOf(s)
    BY <1>1, <1>2 DEF VideosOf
  <2>2. Cardinality(VideosOf(s) \cup {n + 1}) = Cardinality(VideosOf(s)) + 1
    BY <2>1, VideosFinite, FS_AddElement
  <2> QED
    BY <1>1, <1>2, <1>v, <2>1, <2>2, VideosFinite
<1>3. CASE f.track # "video"
  <2>1. VideosOf(v) = VideosOf(s)
    BY <1>1, <1>3 DEF VideosOf
  <2>2. VideoIn(v) = VideoIn(s) /\ VideoIn(s) \in Nat
    BY <1>1, <2>1, VideosFinite
  <2>3. VideoIn(v) = VideoIn(s) + 0
    BY <2>2
  <2> QED
    BY <1>3, <1>v, <2>3
<1> QED
  BY <1>2, <1>3

LEMMA VideoPolled ==
  ASSUME NEW s \in Seq(Frame), s # <<>>
  PROVE  VideoIn(s) = VideoIn(Tail(s)) + (IF Head(s).track = "video" THEN 1 ELSE 0)
<1>n. PICK n \in Nat : n = Len(s) /\ n >= 1
  OBVIOUS
<1>v. PICK v : v = Tail(s)
  OBVIOUS
<1>h. PICK f : f = Head(s)
  OBVIOUS
<1>1. /\ v \in Seq(Frame) /\ DOMAIN v = 1..(n - 1) /\ f = s[1]
      /\ DOMAIN s = 1..n /\ \A i \in 1..(n - 1) : v[i] = s[i + 1]
  BY <1>n, <1>v, <1>h
<1> DEFINE S == VideosOf(s) \ {1}
           T == VideosOf(v)
           g == [i \in S |-> i - 1]
<1>2. IsFiniteSet(S) /\ IsFiniteSet(VideosOf(s))
  BY VideosFinite, FS_RemoveElement
<1>3. Cardinality(T) = Cardinality(S)
  <2>1. g \in [S -> T]
    <3>1. ASSUME NEW i \in S PROVE i - 1 \in T
      <4>1. i \in 1..n /\ i # 1 /\ s[i].track = "video"
        BY <1>1 DEF VideosOf
      <4>2. i - 1 \in 1..(n - 1) /\ v[i - 1] = s[i]
        BY <1>1, <4>1
      <4> QED
        BY <1>1, <4>1, <4>2 DEF VideosOf
    <3> QED
      BY <3>1
  <2>2. \A a, b \in S : g[a] = g[b] => a = b
    BY <1>1 DEF VideosOf
  <2>3. \A t \in T : \E i \in S : g[i] = t
    <3>1. ASSUME NEW t \in T PROVE t + 1 \in S /\ (t + 1) - 1 = t
      <4>1. t \in 1..(n - 1) /\ v[t].track = "video"
        BY <1>1 DEF VideosOf
      <4>2. t + 1 \in 1..n /\ t + 1 # 1 /\ v[t] = s[t + 1] /\ (t + 1) - 1 = t
        BY <1>1, <4>1
      <4> QED
        BY <1>1, <4>1, <4>2 DEF VideosOf
    <3> QED
      BY <3>1
  <2> HIDE DEF g, S, T
  <2>4. g \in Bijection(S, T)
    BY <2>1, <2>2, <2>3, Fun_IsBij
  <2>5. ExistsBijection(S, T)
    BY <2>4, Fun_ExistsBij
  <2> QED
    BY <1>2, <2>5, FS_Bijection
<1>4. VideoIn(v) = Cardinality(S) /\ VideoIn(s) = Cardinality(VideosOf(s))
  BY <1>1, <1>3, VideosFinite
<1>5. CASE f.track = "video"
  <2>1. 1 \in VideosOf(s)
    BY <1>1, <1>5, <1>n DEF VideosOf
  <2>2. Cardinality(S) = Cardinality(VideosOf(s)) - 1
    BY <1>2, <2>1, FS_RemoveElement
  <2>3. VideoIn(s) \in Nat
    BY VideosFinite
  <2>4. VideoIn(s) = VideoIn(v) + 1
    BY <1>4, <2>2, <2>3
  <2> QED
    BY <1>5, <1>h, <1>v, <2>4
<1>6. CASE f.track # "video"
  <2>1. S = VideosOf(s)
    BY <1>1, <1>6 DEF VideosOf
  <2>2. VideoIn(s) = VideoIn(v) /\ VideoIn(s) \in Nat
    BY <1>4, <2>1, VideosFinite
  <2>3. VideoIn(s) = VideoIn(v) + 0
    BY <2>2
  <2> QED
    BY <1>6, <1>h, <1>v, <2>3
<1> QED
  BY <1>5, <1>6

\* A worker that has not given up, while no stop() is going on.
Session ==
  /\ mainPc = "idle"
  /\ wpc \in {"connect", "opening", "connecting", "publish", "publishing"} \cup Streaming

\* The worker knows no sequence header of video on this stream.
Unheard == wpc \in Streaming => "video" \notin header

Polled == wpc = "send" /\ frame.track = "video"
VideoAt(i) == cache[i].track = "video"
Heralds == \E j \in DOMAIN cache : VideoAt(j) /\ cache[j].hdr

\* What a capture thread hands over is a frame of its track, and started is set;
\* audio frames are not counted.
Handed ==
  /\ capturing > 0 => started
  /\ prodPc["audio"] # "count"
  /\ \A t \in Track : prodPc[t] # "idle" => prodFrame[t].track = t

\* The video frames of a session are on their way in the order of their times.
Chronology ==
  Session =>
    /\ wdts["video"] <= clock["video"]
    /\ prodPc["video"] = "add" => prodFrame["video"].dts = clock["video"]
    /\ Polled => wdts["video"] <= frame.dts /\ frame.dts <= clock["video"]
    /\ \A i \in DOMAIN cache : VideoAt(i) =>
         /\ wdts["video"] <= cache[i].dts /\ cache[i].dts <= clock["video"]
         /\ Polled => frame.dts <= cache[i].dts
         /\ \A j \in 1..i : VideoAt(j) => cache[j].dts <= cache[i].dts

\* And the first of them is a sequence header, unless the worker has it.
Heralded ==
  Session /\ Unheard =>
    IF Polled THEN frame.hdr
    ELSE /\ \A i \in DOMAIN cache : VideoAt(i) => \E j \in 1..i : VideoAt(j) /\ cache[j].hdr
         /\ prodPc["video"] = "add" => prodFrame["video"].hdr \/ Heralds
         /\ sent => prodPc["video"] = "add" \/ Heralds

\* So no video frame is dropped, and the counter is right.
Uncounted == IF prodPc["video"] = "count" THEN 1 ELSE 0
InHand == IF wpc \in {"send", "transmit"} /\ frame.track = "video" THEN 1 ELSE 0
Counted == Session => counter + Uncounted = VideoIn(cache) + InHand

\* A session begins with start(), and lasts until stop() or until the worker gives up.
LEMMA SessionStep ==
  ASSUME TypeOK, Alone, [Next]_vars, Session'
  PROVE  \/ Start
         \/ /\ Session /\ closing = 0 /\ nulling = 0
            /\ Capture \/ Worker \/ Server \/ UNCHANGED vars
<1> USE DEF mainVars, flvVars, prodVars, workVars, closVars
<1>1. CASE StopClear \/ StopInterrupt \/ StopJoin
  BY <1>1 DEF StopClear, StopInterrupt, StopJoin, Session
<1>2. CASE StopReset
  BY <1>2 DEF StopReset, Alone, Session, Streaming
<1>3. Session => closing = 0 /\ nulling = 0
  <2>1. closing \in Nat /\ nulling \in Nat
    BY DEF TypeOK, DataOK
  <2>2. Session => wpc # "none"
    BY DEF Session, Streaming
  <2> QED
    BY <2>1, <2>2 DEF Alone
<1>4. CASE Closer
  <2>1. Session
    BY <1>4 DEF Closer, CloserCloses, CloserNulls, Session
  <2> QED
    BY <1>3, <1>4, <2>1 DEF Closer, CloserCloses, CloserNulls
<1>5. CASE Capture
  <2>1. mainPc' = mainPc /\ (wpc' = wpc \/ wpc = "wait")
    BY <1>5 DEF Capture, WriteParameterSets, WriteSlice, WriteAudio, Sampled, Add, Notify
  <2>2. Session
    BY <2>1 DEF Session, Streaming
  <2> QED
    BY <1>3, <1>5, <2>2
<1>6. CASE Worker
  <2>1. mainPc' = mainPc /\ wpc \notin {"none", "dead", "crashed"}
    BY <1>6
    DEF Worker, ConnectRefused, Opened, ConnectSent, ConnectReturns, PublishSent,
        PublishReturns, Loop, Check, Poll, Send, Transmit, WaitBegins, WaitTimesOut,
        WaitInterrupted
  <2>2. Session
    BY <2>1 DEF Session, TypeOK, DataOK
  <2> QED
    BY <1>3, <1>6, <2>2
<1>7. CASE Server \/ UNCHANGED vars
  <2>1. Session
    BY <1>7 DEF Server, vars, Session
  <2> QED
    BY <1>3, <1>7, <2>1
<1> QED
  BY <1>1, <1>2, <1>4, <1>5, <1>6, <1>7 DEF Next, Stopping

LEMMA HandedNext ==
  ASSUME TypeOK, OneCapture, Handed, [Next]_vars
  PROVE  Handed'
<1> USE DEF mainVars, flvVars, prodVars, workVars, closVars
<1>t. /\ prodPc \in [Track -> {"idle", "add", "count", "notify"}]
      /\ prodFrame \in [Track -> Frame]
  BY DEF TypeOK, DataOK
<1>u. ASSUME UNCHANGED <<capturing, started, prodPc, prodFrame>> PROVE Handed'
  BY <1>u DEF Handed
<1>1. CASE Start
  BY <1>1 DEF Start, Handed
<1>2. CASE StopClear
  <2>1. capturing' = 0
    BY <1>2 DEF StopClear, OneFewer, OneCapture
  <2> QED
    BY <1>2, <2>1 DEF StopClear, Handed
<1>3. CASE Capture
  <2>1. ASSUME NEW t \in Track, NEW hdr \in BOOLEAN, NEW dts \in 0..MaxDts,
               HandOver(t, hdr, dts), UNCHANGED <<capturing, started>>
        PROVE  Handed'
    BY <2>1, <1>t DEF HandOver, Handed, Track
  <2>2. ASSUME NEW dts \in 0..MaxDts, NEW sps \in Sps, NEW pps \in Pps,
               WriteParameterSets(sps, pps, dts)
        PROVE  Handed'
    BY <2>2, <2>1, <1>u DEF WriteParameterSets, Sampled, Track
  <2>3. ASSUME NEW dts \in 0..MaxDts, NEW idr \in BOOLEAN, WriteSlice(idr, dts)
        PROVE  Handed'
    BY <2>3, <2>1, <1>u DEF WriteSlice, Sampled, Track
  <2>4. ASSUME NEW dts \in 0..MaxDts, WriteAudio(dts)
        PROVE  Handed'
    BY <2>4, <2>1, <1>u DEF WriteAudio, Sampled, Track
  <2>5. ASSUME NEW t \in Track, Add(t) \/ Notify(t)
        PROVE  Handed'
    BY <2>5, <1>t DEF Add, Notify, Handed, Track
  <2> QED
    BY <1>3, <2>2, <2>3, <2>4, <2>5 DEF Capture
<1>4. CASE Worker
  BY <1>4, <1>u
  DEF Worker, ConnectRefused, Opened, ConnectSent, ConnectReturns, PublishSent, PublishReturns,
      Loop, Check, Poll, Send, Transmit, WaitBegins, WaitTimesOut, WaitInterrupted
<1>5. CASE Stopping \/ Closer \/ Server \/ UNCHANGED vars
  BY <1>5, <1>u DEF Stopping, StopInterrupt, StopJoin, StopReset, Closer, CloserCloses,
                    CloserNulls, Server, vars
<1> QED
  BY <1>1, <1>2, <1>3, <1>4, <1>5 DEF Next

Way == Chronology /\ Heralded /\ Counted

\* A session begins with nothing on its way.
LEMMA WayBegins ==
  ASSUME Overlap = {}, TypeOK, OneCapture, Cleaned, Start
  PROVE  Way'
<1>t. closing \in Nat /\ nulling \in Nat
  BY DEF TypeOK, DataOK
<1>1. /\ mainPc = "idle" /\ wpc = "none" /\ closing = 0 /\ nulling = 0
  BY <1>t DEF Start, MayStart
<1>2. /\ cache = <<>> /\ counter = 0 /\ ~sent /\ \A t \in Track : prodPc[t] = "idle"
  BY <1>1 DEF OneCapture, Cleaned
<1>3. /\ cache' = <<>> /\ counter' = 0 /\ ~sent' /\ prodPc'["video"] = "idle"
      /\ wpc' = "connect" /\ wdts'["video"] = 0 /\ clock'["video"] = 0
  BY <1>2 DEF Start, flvVars, Track
<1>4. Uncounted' = 0 /\ InHand' = 0
  BY <1>3 DEF Uncounted, InHand
<1>5. Counted'
  BY <1>3, <1>4, VideoInEmpty DEF Counted
<1>6. Chronology' /\ Heralded'
  BY <1>3 DEF Chronology, Heralded, Polled, VideoAt
<1> QED
  BY <1>5, <1>6 DEF Way

\* A step that leaves everything on its way, and what the worker has of it.
LEMMA WayUntouched ==
  ASSUME Way, Session, UNCHANGED <<cache, counter, prodPc, prodFrame, clock, sent, wdts>>,
         wpc' \in {"send", "transmit"} \/ wpc \in {"send", "transmit"} =>
           wpc' = wpc /\ frame' = frame,
         Unheard' => Unheard
  PROVE  Way'
<1>1. Polled' <=> Polled
  BY DEF Polled
<1>2. InHand' = InHand /\ Uncounted' = Uncounted
  BY DEF InHand, Uncounted
<1>3. Polled => frame' = frame
  BY DEF Polled
<1>4. Chronology'
  BY <1>1, <1>3 DEF Way, Chronology, VideoAt
<1>5. Heralded'
  BY <1>1, <1>3 DEF Way, Heralded, VideoAt, Heralds
<1>6. Counted'
  BY <1>2 DEF Way, Counted
<1> QED
  BY <1>4, <1>5, <1>6 DEF Way

\* Nothing is on its way yet that is handed over.
LEMMA WaySampled ==
  ASSUME TypeOK, Handed, Way, Session,
         NEW t \in Track, NEW dts \in 0..MaxDts, Sampled(t, dts),
         sent' \in BOOLEAN,
         \/ UNCHANGED <<prodPc, prodFrame, sent>>
         \/ \E hdr \in BOOLEAN :
              HandOver(t, hdr, dts) /\ IF t = "video" THEN hdr \/ sent ELSE sent' = sent
  PROVE  Way'
<1>t. /\ prodPc \in [Track -> {"idle", "add", "count", "notify"}]
      /\ prodFrame \in [Track -> Frame] /\ clock \in [Track -> 0..MaxDts]
      /\ cache \in Seq(Frame) /\ frame \in Frame /\ wdts \in [Track -> 0..MaxDts]
      /\ MaxDts \in Nat
  BY FlvConstants DEF TypeOK, DataOK, FlvConstants
<1>k. PICK old \in Nat : old = clock["video"]
  BY <1>t DEF Track
<1>n. PICK new \in Nat : new = clock'["video"]
  BY <1>t DEF Sampled, Track
<1>w. PICK w \in Nat : w = wdts["video"]
  BY <1>t DEF Track
<1>1. /\ prodPc[t] = "idle" /\ started /\ old <= new /\ (t = "video" => new = dts)
      /\ UNCHANGED <<mainPc, cache, counter, header, wpc, frame, wdts>>
  BY <1>k, <1>n, <1>t DEF Sampled, Handed, mainVars, workVars, Track
<1>2. Session /\ (Unheard' <=> Unheard) /\ (Polled' <=> Polled) /\ (Heralds' <=> Heralds)
  BY <1>1 DEF Unheard, Polled, Heralds, VideoAt
<1>3. Uncounted' = Uncounted /\ InHand' = InHand
  <2>1. prodPc'["video"] = "count" <=> prodPc["video"] = "count"
    BY <1>1, <1>t DEF HandOver, Track
  <2> QED
    BY <1>1, <2>1 DEF Uncounted, InHand
<1>4. Counted'
  BY <1>1, <1>2, <1>3 DEF Way, Counted
<1>5. Chronology'
  <2>1. prodPc'["video"] = "add" => prodFrame'["video"].dts = new
    <3>1. CASE t = "video"
      BY <1>1, <1>t, <3>1 DEF HandOver, Track
    <3>2. CASE t # "video"
      <4>1. prodPc'["video"] = prodPc["video"] /\ prodFrame'["video"] = prodFrame["video"]
        BY <1>t, <3>2 DEF HandOver, Track
      <4>2. new = old
        BY <1>k, <1>n, <1>t, <3>2 DEF Sampled, Track
      <4> QED
        BY <1>2, <1>k, <4>1, <4>2 DEF Way, Chronology
    <3> QED
      BY <3>1, <3>2
  <2>2. w <= new
    BY <1>1, <1>2, <1>k, <1>w DEF Way, Chronology
  <2>3. Polled' => w <= frame.dts /\ frame.dts <= new
    <3>1. frame.dts \in Nat
      BY <1>t DEF Frame
    <3> QED
      BY <1>1, <1>2, <1>k, <1>w, <3>1 DEF Way, Chronology
  <2>4. ASSUME NEW i \in DOMAIN cache, VideoAt(i)
        PROVE  /\ w <= cache[i].dts /\ cache[i].dts <= new
               /\ Polled' => frame.dts <= cache[i].dts
               /\ \A j \in 1..i : VideoAt(j) => cache[j].dts <= cache[i].dts
    <3>1. cache[i].dts \in Nat
      <4>1. cache[i] \in Frame
        BY <1>t
      <4> QED
        BY <1>t, <4>1 DEF Frame
    <3> QED
      BY <1>1, <1>2, <1>k, <1>w, <2>4, <3>1 DEF Way, Chronology
  <2> QED
    BY <1>1, <1>n, <1>w, <2>1, <2>2, <2>3, <2>4 DEF Chronology, VideoAt
<1>6. Heralded'
  <2> SUFFICES ASSUME Unheard PROVE
        IF Polled THEN frame.hdr
        ELSE /\ \A i \in DOMAIN cache : VideoAt(i) => \E j \in 1..i : VideoAt(j) /\ cache[j].hdr
             /\ prodPc'["video"] = "add" => prodFrame'["video"].hdr \/ Heralds
             /\ sent' => prodPc'["video"] = "add" \/ Heralds
    BY <1>1, <1>2 DEF Heralded, VideoAt
  <2>0. IF Polled THEN frame.hdr
        ELSE /\ \A i \in DOMAIN cache : VideoAt(i) => \E j \in 1..i : VideoAt(j) /\ cache[j].hdr
             /\ prodPc["video"] = "add" => prodFrame["video"].hdr \/ Heralds
             /\ sent => prodPc["video"] = "add" \/ Heralds
    BY <1>2 DEF Way, Heralded
  <2>1. CASE UNCHANGED <<prodPc, prodFrame, sent>>
    BY <2>0, <2>1
  <2>2. ASSUME NEW hdr \in BOOLEAN, HandOver(t, hdr, dts), t = "video", hdr \/ sent
        PROVE  /\ prodPc'["video"] = "add" /\ prodFrame'["video"].hdr = hdr
               /\ prodPc["video"] = "idle"
    BY <1>1, <1>t, <2>2 DEF HandOver, Track
  <2>3. ASSUME NEW hdr \in BOOLEAN, HandOver(t, hdr, dts), t # "video"
        PROVE  prodPc'["video"] = prodPc["video"] /\ prodFrame'["video"] = prodFrame["video"]
    BY <1>t, <2>3 DEF HandOver, Track
  <2>4. CASE t = "video"
    BY <2>0, <2>1, <2>2, <2>4
  <2>5. CASE t # "video"
    BY <2>0, <2>1, <2>3, <2>5
  <2> QED
    BY <2>4, <2>5
<1> QED
  BY <1>4, <1>5, <1>6 DEF Way

LEMMA WayAdd ==
  ASSUME TypeOK, Handed, Way, Session, NEW t \in Track, Add(t)
  PROVE  Way'
<1>t. /\ prodPc \in [Track -> {"idle", "add", "count", "notify"}]
      /\ prodFrame \in [Track -> Frame] /\ cache \in Seq(Frame)
  BY DEF TypeOK, DataOK
<1>f. PICK f \in Frame : f = prodFrame[t]
  BY <1>t
<1>n. PICK n \in Nat : n = Len(cache)
  BY <1>t
<1>1. /\ prodPc[t] = "add" /\ f.track = t /\ cache' = Append(cache, f)
      /\ UNCHANGED <<mainPc, counter, header, sent, prodFrame, clock, wpc, frame, wdts>>
  BY <1>f DEF Add, Handed, mainVars, flvVars, workVars
<1>2. /\ DOMAIN cache = 1..n /\ DOMAIN cache' = 1..(n + 1) /\ cache'[n + 1] = f
      /\ \A i \in 1..n : cache'[i] = cache[i]
  BY <1>1, <1>n, <1>t
<1>3. /\ t = "video" => prodPc'["video"] = "count"
      /\ t # "video" => prodPc'["video"] = prodPc["video"]
  BY <1>t DEF Add, Track
<1>4. /\ Session /\ (Unheard' <=> Unheard) /\ (Polled' <=> Polled) /\ InHand' = InHand
  BY <1>1 DEF Unheard, Polled, InHand
<1>5. Counted'
  <2>1. VideoIn(cache') = VideoIn(cache) + (IF t = "video" THEN 1 ELSE 0)
    BY <1>1, <1>t, VideoAppended, Zenon
  <2>2. Uncounted' = Uncounted + (IF t = "video" THEN 1 ELSE 0)
    BY <1>1, <1>3 DEF Uncounted
  <2>3. VideoIn(cache) \in Nat /\ counter \in Int /\ Uncounted \in Nat /\ InHand \in Nat
    BY <1>t, VideosFinite DEF TypeOK, DataOK, Uncounted, InHand
  <2>4. counter + Uncounted = VideoIn(cache) + InHand
    BY DEF Way, Counted
  <2>5. counter' + Uncounted' = VideoIn(cache') + InHand'
    BY <1>1, <1>4, <2>1, <2>2, <2>3, <2>4
  <2> QED
    BY <2>5 DEF Counted
<1>6. Chronology'
  <2>1. t = "video" => f.dts = clock["video"]
    BY <1>1, <1>f DEF Way, Chronology
  <2>2. f.dts \in Nat
    BY FlvConstants DEF Frame, FlvConstants
  <2>3. ASSUME NEW i \in 1..(n + 1), cache'[i].track = "video"
        PROVE  /\ wdts["video"] <= cache'[i].dts /\ cache'[i].dts <= clock["video"]
               /\ Polled => frame.dts <= cache'[i].dts
               /\ \A j \in 1..i : cache'[j].track = "video" => cache'[j].dts <= cache'[i].dts
    <3>1. CASE i \in 1..n
      <4>1. \A j \in 1..i : j \in 1..n
        BY <3>1
      <4> QED
        BY <1>2, <2>3, <3>1, <4>1 DEF Way, Chronology, VideoAt
    <3>2. CASE i = n + 1
      <4>1. cache'[i] = f /\ t = "video"
        BY <1>1, <1>2, <2>3, <3>2
      <4>2. \A j \in 1..i : j \in 1..n \/ j = i
        BY <3>2
      <4> QED
        BY <1>2, <2>1, <2>2, <4>1, <4>2 DEF Way, Chronology, VideoAt
    <3> QED
      BY <3>1, <3>2
  <2>4. prodPc'["video"] = "add" => prodPc["video"] = "add"
    BY <1>3
  <2> QED
    BY <1>1, <1>2, <1>4, <2>3, <2>4 DEF Way, Chronology, VideoAt
<1>7. Heralded'
  <2> SUFFICES ASSUME Unheard, ~Polled PROVE
        /\ \A i \in 1..(n + 1) : cache'[i].track = "video" =>
             \E j \in 1..i : cache'[j].track = "video" /\ cache'[j].hdr
        /\ prodPc'["video"] = "add" => prodFrame["video"].hdr \/ Heralds'
        /\ sent => prodPc'["video"] = "add" \/ Heralds'
    <3>1. Polled' => (Unheard' => frame'.hdr)
      BY <1>1, <1>4 DEF Way, Heralded
    <3> QED
      BY <1>1, <1>2, <1>4, <3>1 DEF Heralded, VideoAt
  <2>1. /\ \A i \in 1..n : VideoAt(i) => \E j \in 1..i : VideoAt(j) /\ cache[j].hdr
        /\ prodPc["video"] = "add" => prodFrame["video"].hdr \/ Heralds
        /\ sent => prodPc["video"] = "add" \/ Heralds
    BY <1>2 DEF Way, Heralded
  <2>2. Heralds => Heralds'
    BY <1>2 DEF Heralds, VideoAt
  <2>3. Heralds => \E j \in 1..(n + 1) : cache'[j].track = "video" /\ cache'[j].hdr
    BY <1>2 DEF Heralds, VideoAt
  <2>4. CASE t = "video"
    <3>1. f.hdr \/ Heralds
      BY <1>1, <1>f, <2>1, <2>4
    <3>2. n + 1 \in 1..(n + 1)
      OBVIOUS
    <3>3. Heralds'
      BY <1>1, <1>2, <2>2, <2>4, <3>1, <3>2 DEF Heralds, VideoAt
    <3>4. \E j \in 1..(n + 1) : cache'[j].track = "video" /\ cache'[j].hdr
      BY <1>1, <1>2, <2>3, <2>4, <3>1, <3>2
    <3>5. ASSUME NEW i \in 1..(n + 1), cache'[i].track = "video"
          PROVE  \E j \in 1..i : cache'[j].track = "video" /\ cache'[j].hdr
      <4>1. CASE i \in 1..n
        <5>1. PICK j \in 1..i : VideoAt(j) /\ cache[j].hdr
          BY <1>2, <2>1, <3>5, <4>1 DEF VideoAt
        <5>2. j \in 1..n
          BY <4>1
        <5> QED
          BY <1>2, <5>1, <5>2 DEF VideoAt
      <4>2. CASE i = n + 1
        BY <3>4, <4>2
      <4> QED
        BY <4>1, <4>2
    <3> QED
      BY <1>3, <2>4, <3>3, <3>5
  <2>5. CASE t # "video"
    <3>1. ASSUME NEW i \in 1..(n + 1), cache'[i].track = "video"
          PROVE  \E j \in 1..i : cache'[j].track = "video" /\ cache'[j].hdr
      <4>1. i \in 1..n
        BY <1>1, <1>2, <2>5, <3>1
      <4>2. PICK j \in 1..i : VideoAt(j) /\ cache[j].hdr
        BY <1>2, <2>1, <3>1, <4>1 DEF VideoAt
      <4>3. j \in 1..n
        BY <4>1
      <4> QED
        BY <1>2, <4>2, <4>3 DEF VideoAt
    <3> QED
      BY <1>3, <2>1, <2>2, <2>5, <3>1
  <2> QED
    BY <2>4, <2>5
<1> QED
  BY <1>5, <1>6, <1>7 DEF Way

LEMMA WayNotify ==
  ASSUME TypeOK, Handed, Way, Session, NEW t \in Track, Notify(t)
  PROVE  Way'
<1>t. /\ prodPc \in [Track -> {"idle", "add", "count", "notify"}] /\ counter \in Int
      /\ prodFrame \in [Track -> Frame]
  BY DEF TypeOK, DataOK
<1>1. /\ prodPc[t] \in {"count", "notify"}
      /\ UNCHANGED <<mainPc, cache, header, sent, clock, frame, wdts>>
      /\ wpc' = wpc \/ (wpc = "wait" /\ wpc' = "loop")
  BY DEF Notify, mainVars, flvVars
<1>2. \/ t = "video" /\ prodPc'["video"] = "idle"
      \/ /\ t = "audio" /\ counter' = counter
         /\ prodPc'["video"] = prodPc["video"] /\ prodFrame'["video"] = prodFrame["video"]
  BY <1>t DEF Notify, Handed, Track
<1>3. /\ Session /\ (Unheard' <=> Unheard) /\ (Polled' <=> Polled) /\ InHand' = InHand
      /\ (Heralds' <=> Heralds)
  BY <1>1 DEF Unheard, Polled, InHand, Streaming, Heralds, VideoAt
<1>4. counter' + Uncounted' = counter + Uncounted
  BY <1>t, <1>2 DEF Notify, Uncounted
<1>5. Counted'
  BY <1>1, <1>3, <1>4 DEF Way, Counted
<1>6. /\ prodPc'["video"] = "add" =>
           prodPc["video"] = "add" /\ prodFrame'["video"] = prodFrame["video"]
      /\ prodPc["video"] = "add" => prodPc'["video"] = "add"
  BY <1>1, <1>2
<1>7. Chronology'
  BY <1>1, <1>3, <1>6 DEF Way, Chronology, VideoAt
<1>8. Heralded'
  BY <1>1, <1>3, <1>6 DEF Way, Heralded, VideoAt
<1> QED
  BY <1>5, <1>7, <1>8 DEF Way

LEMMA WayPoll ==
  ASSUME TypeOK, Way, Session, Poll, Session'
  PROVE  Way'
<1>t. cache \in Seq(Frame) /\ counter \in Int
  BY DEF TypeOK, DataOK
<1>1. /\ wpc = "poll" /\ wpc' = "send" /\ cache # <<>>
      /\ frame' = Head(cache) /\ cache' = Tail(cache)
      /\ UNCHANGED <<mainPc, counter, header, sent, prodPc, prodFrame, clock, wdts>>
  BY DEF Poll, Session, Streaming, mainVars, flvVars, prodVars
<1>n. PICK n \in Nat : n = Len(cache) /\ n >= 1
  BY <1>t, <1>1
<1>f. PICK f \in Frame : f = Head(cache)
  BY <1>1, <1>t
<1>2. /\ DOMAIN cache = 1..n /\ DOMAIN cache' = 1..(n - 1) /\ f = cache[1] /\ 1 \in 1..n
      /\ \A i \in 1..(n - 1) : i + 1 \in 1..n /\ cache'[i] = cache[i + 1]
      /\ frame' = f
  BY <1>1, <1>n, <1>f, <1>t
<1>3. ~Polled /\ (Polled' <=> f.track = "video") /\ (Unheard' <=> Unheard)
  BY <1>1, <1>2 DEF Polled, Unheard, Streaming
<1>4. Counted'
  <2>1. VideoIn(cache) = VideoIn(cache') + (IF f.track = "video" THEN 1 ELSE 0)
    BY <1>1, <1>f, <1>t, VideoPolled, Zenon
  <2>2. InHand = 0 /\ InHand' = (IF f.track = "video" THEN 1 ELSE 0) /\ Uncounted' = Uncounted
    BY <1>1, <1>2 DEF InHand, Uncounted
  <2>3. cache' \in Seq(Frame)
    BY <1>1, <1>t
  <2>4. VideoIn(cache') \in Nat /\ Uncounted \in Nat
    BY <2>3, VideosFinite DEF Uncounted
  <2>5. counter + Uncounted = VideoIn(cache) + InHand
    BY DEF Way, Counted
  <2>6. counter' + Uncounted' = VideoIn(cache') + InHand'
    BY <1>1, <1>t, <2>1, <2>2, <2>4, <2>5
  <2> QED
    BY <2>6 DEF Counted
<1>5. Chronology'
  <2>0. /\ wdts["video"] <= clock["video"]
        /\ prodPc["video"] = "add" => prodFrame["video"].dts = clock["video"]
        /\ \A i \in 1..n : VideoAt(i) =>
             /\ wdts["video"] <= cache[i].dts /\ cache[i].dts <= clock["video"]
             /\ \A j \in 1..i : VideoAt(j) => cache[j].dts <= cache[i].dts
    BY <1>2 DEF Way, Chronology
  <2>1. f.track = "video" => wdts["video"] <= f.dts /\ f.dts <= clock["video"]
    BY <1>2, <2>0 DEF VideoAt
  <2>2. ASSUME NEW i \in 1..(n - 1), cache'[i].track = "video"
        PROVE  /\ wdts["video"] <= cache'[i].dts /\ cache'[i].dts <= clock["video"]
               /\ f.track = "video" => f.dts <= cache'[i].dts
               /\ \A j \in 1..i : cache'[j].track = "video" => cache'[j].dts <= cache'[i].dts
    <3>1. \A j \in 1..i : j \in 1..(n - 1) /\ j + 1 \in 1..(i + 1)
      OBVIOUS
    <3>2. i + 1 \in 1..n /\ cache'[i] = cache[i + 1] /\ 1 \in 1..(i + 1)
      BY <1>2
    <3> QED
      BY <1>2, <2>0, <2>2, <3>1, <3>2 DEF VideoAt
  <2> QED
    BY <1>1, <1>2, <1>3, <2>0, <2>1, <2>2 DEF Chronology, VideoAt
<1>6. Heralded'
  <2> SUFFICES ASSUME Unheard PROVE
        IF f.track = "video" THEN f.hdr
        ELSE /\ \A i \in 1..(n - 1) : cache'[i].track = "video" =>
                  \E j \in 1..i : cache'[j].track = "video" /\ cache'[j].hdr
             /\ prodPc["video"] = "add" => prodFrame["video"].hdr \/ Heralds'
             /\ sent => prodPc["video"] = "add" \/ Heralds'
    BY <1>1, <1>2, <1>3 DEF Heralded, VideoAt
  <2>1. /\ \A i \in 1..n : VideoAt(i) => \E j \in 1..i : VideoAt(j) /\ cache[j].hdr
        /\ prodPc["video"] = "add" => prodFrame["video"].hdr \/ Heralds
        /\ sent => prodPc["video"] = "add" \/ Heralds
    BY <1>2, <1>3 DEF Way, Heralded
  <2>2. CASE f.track = "video"
    <3>1. PICK j \in 1..1 : VideoAt(j) /\ cache[j].hdr
      BY <1>2, <2>1, <2>2 DEF VideoAt
    <3>2. j = 1
      OBVIOUS
    <3> QED
      BY <1>2, <2>2, <3>1, <3>2
  <2>3. CASE f.track # "video"
    <3>1. ASSUME NEW i \in 1..n, NEW j \in 1..i, VideoAt(j), cache[j].hdr
          PROVE  /\ j - 1 \in 1..(n - 1) /\ j - 1 \in 1..(i - 1) /\ cache'[j - 1] = cache[j]
      <4>1. j # 1
        BY <1>2, <2>3, <3>1 DEF VideoAt
      <4>2. j - 1 \in 1..(n - 1) /\ (j - 1) + 1 = j /\ j - 1 \in 1..(i - 1)
        BY <4>1
      <4> QED
        BY <1>2, <4>2
    <3>2. Heralds => Heralds'
      <4>1. ASSUME NEW j \in 1..n, VideoAt(j), cache[j].hdr PROVE Heralds'
        <5>1. j \in 1..j
          OBVIOUS
        <5> QED
          BY <1>2, <3>1, <4>1, <5>1 DEF Heralds, VideoAt
      <4> QED
        BY <1>2, <4>1 DEF Heralds
    <3>3. ASSUME NEW i \in 1..(n - 1), cache'[i].track = "video"
          PROVE  \E j \in 1..i : cache'[j].track = "video" /\ cache'[j].hdr
      <4>1. i + 1 \in 1..n /\ VideoAt(i + 1) /\ (i + 1) - 1 = i
        BY <1>2, <3>3 DEF VideoAt
      <4>2. PICK j \in 1..(i + 1) : VideoAt(j) /\ cache[j].hdr
        BY <2>1, <4>1
      <4>3. j - 1 \in 1..i /\ cache'[j - 1] = cache[j]
        BY <3>1, <4>1, <4>2
      <4> QED
        BY <4>2, <4>3 DEF VideoAt
    <3> QED
      BY <2>1, <2>3, <3>2, <3>3
  <2> QED
    BY <2>2, <2>3
<1> QED
  BY <1>4, <1>5, <1>6 DEF Way

\* A video frame in the worker's hand is announced, and no older than the last:
\* it is sent.
LEMMA WaySend ==
  ASSUME TypeOK, Alone, Way, Session, Send
  PROVE  Way'
<1>t. /\ frame \in Frame /\ wdts \in [Track -> 0..MaxDts] /\ header \in SUBSET Track
      /\ cache \in Seq(Frame) /\ MaxDts \in Nat
  BY FlvConstants DEF TypeOK, DataOK, FlvConstants
<1>f. frame.track \in Track /\ frame.dts \in Nat
  BY <1>t DEF Frame
<1>w. PICK w \in Nat : w = wdts["video"]
  BY <1>t DEF Track
<1>1. /\ wpc = "send" /\ conn = "permitted" /\ wpc' \in {"check", "transmit"}
      /\ UNCHANGED <<mainPc, cache, counter, sent, prodPc, prodFrame, clock>>
  BY DEF Send, SendFlvTag, Alone, Streaming, mainVars, flvVars, prodVars
<1>2. Uncounted' = Uncounted /\ ~Polled' /\ (Heralds' <=> Heralds)
  BY <1>1 DEF Uncounted, Polled, Heralds, VideoAt
<1>3. CASE frame.track = "video"
  <2>1. Polled
    BY <1>1, <1>3 DEF Polled
  <2>2. Announced(frame)
    BY <1>1, <1>3, <2>1 DEF Way, Heralded, Unheard, Streaming, Announced
  <2>3. w <= frame.dts /\ frame.dts <= clock["video"]
    BY <1>w, <2>1 DEF Way, Chronology
  <2>4. NewDts(frame) = frame.dts
    BY <1>3, <1>f, <1>w, <2>3 DEF NewDts, Max2
  <2>5. /\ wpc' = "transmit" /\ frame' = frame /\ header' = header \cup {"video"}
        /\ wdts' = [wdts EXCEPT !["video"] = frame.dts]
    BY <1>1, <1>3, <1>f, <2>2, <2>4 DEF Send, SendFlvTag
  <2>6. InHand' = InHand
    BY <1>1, <2>5 DEF InHand
  <2>7. Counted'
    BY <1>1, <1>2, <2>6 DEF Way, Counted
  <2>8. Heralded'
    BY <2>5 DEF Heralded, Unheard, Streaming
  <2>9. wdts'["video"] = frame.dts
    BY <1>t, <2>5 DEF Track
  <2>10. Chronology'
    BY <1>1, <1>2, <2>1, <2>3, <2>9 DEF Way, Chronology, VideoAt
  <2> QED
    BY <2>7, <2>8, <2>10 DEF Way
<1>4. CASE frame.track # "video"
  <2>1. ~Polled /\ wdts'["video"] = wdts["video"] /\ ("video" \in header' <=> "video" \in header)
    BY <1>4, <1>f, <1>t DEF Polled, Send, SendFlvTag, Track
  <2>2. frame'.track # "video" \/ wpc' = "check"
    BY <1>1, <1>4 DEF Send
  <2>3. InHand = 0 /\ InHand' = 0
    BY <1>1, <1>4, <2>2 DEF InHand
  <2>4. Counted'
    BY <1>1, <1>2, <2>3 DEF Way, Counted
  <2>5. Unheard' => Unheard
    BY <1>1, <2>1 DEF Unheard, Streaming
  <2>6. Heralded'
    BY <1>1, <1>2, <2>1, <2>5 DEF Way, Heralded, VideoAt
  <2>7. Chronology'
    BY <1>1, <1>2, <2>1 DEF Way, Chronology, VideoAt
  <2> QED
    BY <2>4, <2>6, <2>7 DEF Way
<1> QED
  BY <1>3, <1>4

LEMMA WayTransmit ==
  ASSUME TypeOK, Alone, Way, Session, Transmit
  PROVE  Way'
<1>t. counter \in Int /\ cache \in Seq(Frame)
  BY DEF TypeOK, DataOK
<1>1. /\ wpc = "transmit" /\ wpc' = "check" /\ CountDown(frame)
      /\ UNCHANGED <<mainPc, cache, header, sent, prodPc, prodFrame, clock, wdts>>
  BY DEF Transmit, NoSession, Alone, Streaming, mainVars, flvVars, prodVars
<1>2. /\ Uncounted' = Uncounted /\ ~Polled /\ ~Polled' /\ (Unheard' <=> Unheard)
      /\ (Heralds' <=> Heralds)
  BY <1>1 DEF Uncounted, Polled, Unheard, Streaming, Heralds, VideoAt
<1>3. InHand' = 0 /\ counter' = counter - InHand /\ InHand \in Int
  BY <1>1, <1>t DEF InHand, CountDown
<1>4. counter' + Uncounted' = VideoIn(cache') + InHand'
  <2>1. VideoIn(cache) \in Nat /\ Uncounted \in Nat
    BY <1>t, VideosFinite DEF Uncounted
  <2>2. counter + Uncounted = VideoIn(cache) + InHand
    BY DEF Way, Counted
  <2> QED
    BY <1>1, <1>2, <1>3, <1>t, <2>1, <2>2
<1>5. Chronology'
  BY <1>1, <1>2 DEF Way, Chronology, VideoAt
<1>6. Heralded'
  BY <1>1, <1>2 DEF Way, Heralded, VideoAt
<1> QED
  BY <1>4, <1>5, <1>6 DEF Way, Counted

LEMMA WayNext ==
  ASSUME Overlap = {}, TypeOK, Alone, OneCapture, Cleaned, Handed, Way, [Next]_vars
  PROVE  Way'
<1> USE DEF mainVars, flvVars, prodVars, workVars, closVars
<1>0. ASSUME ~Session' PROVE Way'
  BY <1>0 DEF Way, Chronology, Heralded, Counted
<1> SUFFICES ASSUME Session' PROVE Way'
  BY <1>0
<1>1. CASE Start
  BY <1>1, WayBegins
<1>2. CASE Session /\ Capture
  <2>1. ASSUME NEW dts \in 0..MaxDts, NEW sps \in Sps, NEW pps \in Pps,
               WriteParameterSets(sps, pps, dts)
        PROVE  Way'
    <3>1. Sampled("video", dts) /\ sent' \in BOOLEAN
      BY <2>1 DEF WriteParameterSets, TypeOK, FlagsOK
    <3>2. \/ UNCHANGED <<prodPc, prodFrame, sent>>
          \/ HandOver("video", TRUE, dts)
      BY <2>1, Zenon DEF WriteParameterSets
    <3> QED
      BY <1>2, <3>1, <3>2, WaySampled DEF Track
  <2>2. ASSUME NEW dts \in 0..MaxDts, NEW idr \in BOOLEAN, WriteSlice(idr, dts)
        PROVE  Way'
    <3>1. Sampled("video", dts) /\ sent' \in BOOLEAN
      BY <2>2 DEF WriteSlice, TypeOK, FlagsOK
    <3>2. \/ UNCHANGED <<prodPc, prodFrame, sent>>
          \/ HandOver("video", FALSE, dts) /\ sent
      BY <2>2, Zenon DEF WriteSlice
    <3> QED
      BY <1>2, <3>1, <3>2, WaySampled DEF Track
  <2>3. ASSUME NEW dts \in 0..MaxDts, WriteAudio(dts)
        PROVE  Way'
    <3>1. Sampled("audio", dts) /\ sent' \in BOOLEAN
      BY <2>3 DEF WriteAudio, TypeOK, FlagsOK
    <3>2. \E hdr \in BOOLEAN : HandOver("audio", hdr, dts) /\ sent' = sent
      BY <2>3, Zenon DEF WriteAudio
    <3> QED
      BY <1>2, <3>1, <3>2, WaySampled DEF Track
  <2>4. ASSUME NEW t \in Track, Add(t) \/ Notify(t)
        PROVE  Way'
    BY <1>2, <2>4, WayAdd, WayNotify
  <2> QED
    BY <1>2, <2>1, <2>2, <2>3, <2>4 DEF Capture
<1>3. CASE Session /\ Worker
  <2>1. CASE ConnectRefused \/ Opened \/ ConnectSent \/ ConnectReturns \/ PublishSent
    <3>1. /\ wpc \in {"connect", "opening", "connecting", "publish"}
          /\ wpc' \in {"opening", "connecting", "publish", "publishing"}
          /\ UNCHANGED <<cache, counter, prodPc, prodFrame, clock, sent, wdts>>
      BY <2>1 DEF ConnectRefused, Opened, ConnectSent, ConnectReturns, PublishSent, GiveUp,
                  NoSession, Session, Streaming
    <3>2. Unheard' => Unheard
      BY <3>1 DEF Unheard, Streaming
    <3> QED
      BY <1>3, <3>1, <3>2, WayUntouched
  <2>2. CASE PublishReturns
    <3>1. /\ wpc = "publishing" /\ wpc' = "loop"
          /\ UNCHANGED <<cache, counter, prodPc, prodFrame, clock, sent, wdts>>
      BY <2>2 DEF PublishReturns, Session, Streaming
    <3>2. Unheard' => Unheard
      BY <3>1 DEF Unheard, Streaming
    <3> QED
      BY <1>3, <3>1, <3>2, WayUntouched
  <2>3. CASE Loop \/ Check \/ WaitBegins \/ WaitTimesOut \/ WaitInterrupted
    <3>1. /\ wpc \in {"loop", "check", "lock", "wait"}
          /\ wpc' \in {"loop", "check", "lock", "wait", "poll", "dead"}
          /\ UNCHANGED <<cache, counter, prodPc, prodFrame, clock, sent, wdts, header>>
      BY <2>3 DEF Loop, Check, CacheIsEmpty, WaitBegins, WaitTimesOut, WaitInterrupted
    <3>2. Unheard' => Unheard
      BY <3>1 DEF Unheard, Streaming, Session
    <3> QED
      BY <1>3, <3>1, <3>2, WayUntouched
  <2> QED
    BY <1>3, <2>1, <2>2, <2>3, WayPoll, WaySend, WayTransmit DEF Worker
<1>4. CASE Session /\ (Server \/ UNCHANGED vars)
  <2>1. UNCHANGED <<cache, counter, prodPc, prodFrame, clock, sent, wdts, wpc, frame, header>>
    BY <1>4 DEF Server, vars
  <2>2. Unheard' => Unheard
    BY <2>1 DEF Unheard
  <2> QED
    BY <1>4, <2>1, <2>2, WayUntouched
<1> QED
  BY <1>1, <1>2, <1>3, <1>4, SessionStep

\* If every start() waits until everything of the last session has ended,
\* videoFrameCacheNumber is the number of video frames on their way while a
\* stream is published: the worker drops none, because they come in the order
\* of their times behind a sequence header, and nothing resets the counter.
THEOREM CounterIsExact ==
  ASSUME Overlap = {}
  PROVE  Spec => []CounterExact
<1> DEFINE Inv == Alone /\ OneCapture /\ Cleaned /\ Handed /\ Way
<1>1. Init => Inv
  <2>1. Init => OneCapture /\ Cleaned /\ Handed
    BY DEF Init, Pub!Init, OneCapture, Cleaned, Handed, Track
  <2>2. Init => ~Session
    BY DEF Init, Session, Streaming
  <2>3. Init => Way
    BY <2>2 DEF Way, Chronology, Heralded, Counted
  <2> QED
    BY <2>1, <2>3, FlvConstants, AloneInit
<1>2. TypeOK /\ Inv /\ [Next]_vars => Inv'
  BY AloneNext, OneCaptureNext, CleanedNext, HandedNext, WayNext
<1>3. Inv => CounterExact
  BY DEF Way, Counted, Session, CounterExact, Uncounted, InHand
<1> HIDE DEF Inv
<1> QED
  BY <1>1, <1>2, <1>3, TypeCorrect, PTL DEF Spec
=============================================================================
