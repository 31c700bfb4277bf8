---------------------------- MODULE SrsFlvMuxer ----------------------------
(***************************************************************************)
(* SrsFlvMuxer.java: encoded samples become FLV frames in mFlvTagCache and *)
(* a worker thread publishes them over RTMP.  Five kinds of threads meet:  *)
(*                                                                         *)
(*   main      startPublish() and stopPublish() of SrsPublisher.java, which *)
(*             start the muxer, then the capture threads, and stop them in *)
(*             the opposite order                                          *)
(*   capture   one thread per track that calls writeSampleData()           *)
(*   worker    connect, then poll the cache and publish                    *)
(*   closer    the thread stop() leaves behind to call disconnect()        *)
(*   server    the replies that RtmpConnection's receiver thread handles   *)
(*                                                                         *)
(* An uncaught exception of a thread ends an Android process: once the     *)
(* worker has "crashed" nothing moves any more.                            *)
(*                                                                         *)
(* An operator marked "Mutant" is used nowhere here: it is the definition  *)
(* after it with a bug, and some property must fail with it.               *)
(***************************************************************************)
EXTENDS Integers, Sequences, FiniteSets

CONSTANTS
  MaxStarts,    \* how often startPublish() is called
  MaxStops,     \* how often stopPublish() is called
  MaxSamples,   \* per track: samples it is given by the encoder after each start
  MaxDts,       \* the largest dts
  Sps, Pps,     \* values of H.264 parameter sets
  Nil,          \* null, for a parameter set that was never seen
  Zeroed,       \* a parameter set that reset() filled with zeros
  Overlap       \* what of an earlier session may be left when start() is called

ASSUME FlvConstants ==
  /\ MaxStarts \in Nat /\ MaxStops \in Nat /\ MaxDts \in Nat
  /\ MaxSamples \in [{"video", "audio"} -> Nat]
  /\ Overlap \subseteq {"failed", "disconnect"}
  /\ {Nil, Zeroed} \cap (Sps \cup Pps) = {} /\ Nil # Zeroed

Track == {"video", "audio"}
Frame == [track : Track, hdr : BOOLEAN, dts : 0..MaxDts, born : 0..MaxStarts]
NoFrame == [track |-> "audio", hdr |-> FALSE, dts |-> 0, born |-> 0]

VARIABLES
  mainPc,    \* where the main thread is: "idle", or inside stop()
  started,   \* the field of that name
  starts,    \* calls of startPublish() so far
  stops,     \* calls of stopPublish() so far
  capturing, \* capture sessions that run (startEncode() minus stopEncode())
  cache,     \* mFlvTagCache
  counter,   \* videoFrameCacheNumber
  header,    \* tracks whose sequence header the worker has (m*SequenceHeader # null)
  needKey,   \* needToFindKeyFrame
  sent,      \* h264_sps_pps_sent
  h264,      \* h264_sps and h264_pps
  aacGot,    \* aac_specific_config_got
  announced, \* history: what the last AVC sequence header was made from
  prodPc,    \* per track: where its capture thread is in flvTagCacheAdd()
  prodFrame, \* per track: the frame it is adding
  clock,     \* per track: dts of its last sample
  samples,   \* per track: samples since the last start
  wpc,       \* where the worker is; "none" when the field worker is null
  intr,      \* the worker's interrupt status
  frame,     \* the frame the worker polled
  wdts,      \* the worker's videodts and audiodts
  conn,      \* the publisher, see RtmpPublisher.tla
  closing,   \* closers that have not called publisher.close() yet
  nulling,   \* closers that have, and still clear the sequence headers
  aired      \* history: per track, the frames published on this stream

mainVars == <<mainPc, started, starts, stops, capturing>>
flvVars  == <<needKey, sent, h264, aacGot, announced>>
prodVars == <<prodPc, prodFrame, clock, samples>>
workVars == <<wpc, intr, frame, wdts>>
closVars == <<closing, nulling>>
vars == <<mainVars, cache, counter, header, flvVars, prodVars, workVars, conn,
          closVars, aired>>

Pub == INSTANCE RtmpPublisher WITH conn <- conn

Max2(a, b) == IF a >= b THEN a ELSE b

\* The worker is in its publishing loop.
Streaming == {"loop", "check", "poll", "send", "transmit", "lock", "wait"}

Fresh == [sps |-> Nil, pps |-> Nil]
Nowhere == [t \in Track |-> <<>>]

Init ==
  /\ mainPc = "idle" /\ started = FALSE /\ starts = 0 /\ stops = 0 /\ capturing = 0
  /\ cache = <<>> /\ counter = 0 /\ header = {}
  /\ needKey = TRUE /\ sent = FALSE /\ h264 = Fresh /\ aacGot = FALSE /\ announced = Fresh
  /\ prodPc = [t \in Track |-> "idle"] /\ prodFrame = [t \in Track |-> NoFrame]
  /\ clock = [t \in Track |-> 0] /\ samples = [t \in Track |-> 0]
  /\ wpc = "none" /\ intr = FALSE /\ frame = NoFrame /\ wdts = [t \in Track |-> 0]
  /\ Pub!Init
  /\ closing = 0 /\ nulling = 0 /\ aired = Nowhere

-----------------------------------------------------------------------------
(* The main thread.                                                        *)

\* The caller starts again once the worker of the last session is gone. With
\* "failed" it may also start over a worker that gave up, without a stop();
\* with "disconnect", before the last closer has finished.
MayStart ==
  /\ mainPc = "idle" /\ starts < MaxStarts
  /\ wpc = "none" \/ (wpc = "dead" /\ "failed" \in Overlap)
  /\ closing + nulling = 0 \/ "disconnect" \in Overlap

\* startPublish(): start() forks a worker, startEncode() the capture threads;
\* SrsEncoder.start() restarts the presentation clock.
Start ==
  /\ MayStart
  /\ started' = TRUE /\ starts' = starts + 1
  /\ wpc' = "connect" /\ intr' = FALSE /\ wdts' = [t \in Track |-> 0]
  /\ capturing' = capturing + 1
  /\ clock' = [t \in Track |-> 0] /\ samples' = [t \in Track |-> 0]
  /\ UNCHANGED <<mainPc, stops, cache, counter, header, flvVars, prodPc, prodFrame,
                 frame, conn, closVars, aired>>

\* Mutant: stopEncode() without a join().
CaptureLeft == TRUE

\* stopEncode() joins the capture threads of the last session; those of an
\* earlier one are forgotten and go on.
CaptureJoined == capturing <= 1 => \A t \in Track : prodPc[t] = "idle"

\* Mutant: a stop without a start is not expected.
OneLess(n) == n - 1

OneFewer(n) == IF n = 0 THEN 0 ELSE n - 1

\* stopPublish(): stopEncode(), then stop() begins.
StopClear ==
  /\ mainPc = "idle" /\ stops < MaxStops
  /\ CaptureJoined /\ capturing' = OneFewer(capturing)
  /\ stops' = stops + 1
  /\ started' = FALSE /\ cache' = <<>>
  /\ mainPc' = IF wpc = "none" THEN "reset" ELSE "interrupt"
  /\ UNCHANGED <<starts, counter, header, flvVars, prodVars, workVars, conn, closVars, aired>>

\* worker.interrupt(): of no effect on a thread that has ended.
StopInterrupt ==
  /\ mainPc = "interrupt"
  /\ mainPc' = "join" /\ intr' = (wpc # "dead")
  /\ UNCHANGED <<started, starts, stops, capturing, cache, counter, header, flvVars,
                 prodVars, wpc, frame, wdts, conn, closVars, aired>>

\* worker.join() returns; worker = null.
StopJoin ==
  /\ mainPc = "join" /\ wpc = "dead"
  /\ mainPc' = "reset" /\ wpc' = "none"
  /\ UNCHANGED <<started, starts, stops, capturing, cache, counter, header, flvVars,
                 prodVars, intr, frame, wdts, conn, closVars, aired>>

\* Mutant: reset() keeps the parameter sets.
Keep(p) == p

\* SrsFlv.reset(): known parameter sets are overwritten with zeros.
Zero(p) == IF p = Nil THEN Nil ELSE Zeroed

\* The rest of stop(): flv.reset(), and a thread of its own for disconnect().
StopReset ==
  /\ mainPc = "reset"
  /\ mainPc' = "idle"
  /\ sent' = FALSE /\ aacGot' = FALSE /\ announced' = Fresh
  /\ h264' = [sps |-> Zero(h264.sps), pps |-> Zero(h264.pps)]
  /\ needKey' = TRUE
  /\ closing' = closing + 1
  /\ UNCHANGED <<started, starts, stops, capturing, cache, counter, header,
                 prodVars, workVars, conn, nulling, aired>>

-----------------------------------------------------------------------------
(* The capture threads: writeSampleData().                                 *)

\* The encoder gives track t a sample, no earlier than the one before.
Sampled(t, dts) ==
  /\ capturing > 0 /\ prodPc[t] = "idle" /\ samples[t] < MaxSamples[t]
  /\ dts \in clock[t]..MaxDts
  /\ clock' = [clock EXCEPT ![t] = dts]
  /\ samples' = [samples EXCEPT ![t] = @ + 1]
  /\ UNCHANGED <<mainVars, cache, counter, header, workVars, conn, closVars, aired>>

\* writeRtmpPacket() hands the frame to flvTagCacheAdd(), which looks at
\* started before it adds.
HandOver(t, hdr, dts) ==
  /\ prodFrame' = [prodFrame EXCEPT ![t] =
                     [track |-> t, hdr |-> hdr, dts |-> dts, born |-> starts]]
  /\ prodPc' = [prodPc EXCEPT ![t] = IF started THEN "add" ELSE "notify"]

\* A new sequence header is due.
NewParameterSets(sps, pps) == pps # h264.pps

\* writeVideoSample() of SPS and PPS. frame.data still holds the PPS behind the
\* SPS, so it never equals the stored SPS, which is replaced each time; the
\* sequence header is written when the PPS is a new one.
WriteParameterSets(sps, pps, dts) ==
  /\ Sampled("video", dts)
  /\ h264' = [sps |-> sps, pps |-> pps]
  /\ IF NewParameterSets(sps, pps)
       THEN /\ needKey' = FALSE /\ sent' = TRUE
            /\ announced' = [sps |-> sps, pps |-> pps]
            /\ HandOver("video", TRUE, dts)
       ELSE UNCHANGED <<needKey, sent, announced, prodPc, prodFrame>>
  /\ UNCHANGED aacGot

\* writeVideoSample() of a slice: ignored until a sequence header was written,
\* and, while needToFindKeyFrame holds, unless it is an IDR picture.
WriteSlice(idr, dts) ==
  /\ Sampled("video", dts)
  /\ IF sent /\ (needKey => idr)
       THEN needKey' = FALSE /\ HandOver("video", FALSE, dts)
       ELSE UNCHANGED <<needKey, prodPc, prodFrame>>
  /\ UNCHANGED <<sent, h264, announced, aacGot>>

\* writeAudioSample(): the first sample becomes the sequence header.
WriteAudio(dts) ==
  /\ Sampled("audio", dts)
  /\ IF aacGot THEN HandOver("audio", FALSE, dts) ELSE HandOver("audio", TRUE, dts)
  /\ aacGot' = TRUE
  /\ UNCHANGED <<needKey, sent, h264, announced>>

\* flvTagCacheAdd(): mFlvTagCache.add(frame).
Add(t) ==
  /\ prodPc[t] = "add"
  /\ cache' = Append(cache, prodFrame[t])
  /\ prodPc' = [prodPc EXCEPT ![t] = IF t = "video" THEN "count" ELSE "notify"]
  /\ UNCHANGED <<mainVars, counter, header, flvVars, prodFrame, clock, samples,
                 workVars, conn, closVars, aired>>

\* flvTagCacheAdd(): incrementAndGet() for a video frame that was added, then
\* notifyAll(), which only a worker inside wait() hears.
Notify(t) ==
  /\ prodPc[t] \in {"count", "notify"}
  /\ counter' = IF prodPc[t] = "count" THEN counter + 1 ELSE counter
  /\ prodPc' = [prodPc EXCEPT ![t] = "idle"]
  /\ prodFrame' = [prodFrame EXCEPT ![t] = NoFrame]
  /\ wpc' = IF wpc = "wait" THEN "loop" ELSE wpc
  /\ UNCHANGED <<mainVars, cache, header, flvVars, clock, samples, intr, frame, wdts,
                 conn, closVars, aired>>

Capture ==
  \/ \E dts \in 0..MaxDts :
       \/ \E sps \in Sps, pps \in Pps : WriteParameterSets(sps, pps, dts)
       \/ \E idr \in BOOLEAN : WriteSlice(idr, dts)
       \/ WriteAudio(dts)
  \/ \E t \in Track : Add(t) \/ Notify(t)

-----------------------------------------------------------------------------
(* The worker: connect(url), then the publishing loop.                     *)

\* Mutant: only the audio header is set to null.
ForgetAudio == header' = header \ {"audio"}

\* connect() and disconnect() of the muxer set both sequence headers to null.
Forget == header' = {}

\* connect() or publish() of the publisher is false, and the worker ends.
GiveUp == wpc' = "dead" /\ Forget

\* publisher.connect(): refused, for the address or an IOException, or because
\* the connection a closer has yet to close is still there.
ConnectRefused ==
  /\ wpc = "connect"
  /\ Pub!OpenFails \/ UNCHANGED conn
  /\ GiveUp
  /\ UNCHANGED <<mainVars, cache, counter, flvVars, prodVars, intr, frame, wdts,
                 closVars, aired>>

\* publisher.connect(): the socket is there and the receiver runs.
Opened ==
  /\ wpc = "connect" /\ Pub!Open /\ wpc' = "opening"
  /\ UNCHANGED <<mainVars, cache, counter, header, flvVars, prodVars, intr, frame, wdts,
                 closVars, aired>>

\* A closer's reset() came between a check of the connection and the command
\* or frame that it allowed: rtmpSessionInfo is null by now.
NoSession == conn = "null" /\ wpc' = "crashed"

\* publisher.connect(): the command is sent, the worker waits for the answer.
ConnectSent ==
  /\ wpc = "opening"
  /\ wpc' = "connecting" \/ NoSession
  /\ UNCHANGED <<mainVars, cache, counter, header, flvVars, prodVars, intr, frame, wdts,
                 conn, closVars, aired>>

\* wait(5000) ends: notified or timed out; or interrupted, and then the
\* exception is swallowed and the interrupt status with it. A thread that was
\* notified before it was interrupted may return without looking at the status.
Awaited(answered) ==
  IF intr THEN intr' = FALSE \/ (answered /\ intr' = TRUE) ELSE intr' = FALSE

\* publisher.connect() returns connected, after shutdown() if it is false.
ConnectReturns ==
  /\ wpc = "connecting"
  /\ Awaited(Pub!IsConnected)
  /\ IF Pub!IsConnected
       THEN wpc' = "publish" /\ UNCHANGED <<conn, counter, header>>
       ELSE Pub!Reset /\ counter' = 0 /\ GiveUp
  /\ UNCHANGED <<mainVars, cache, flvVars, prodVars, frame, wdts, closVars, aired>>

\* publisher.publish("live"): false at once if there is no connection or a stream
\* exists already; else the commands are sent and the worker waits.
PublishSent ==
  /\ wpc = "publish"
  /\ \/ conn = "connected" /\ wpc' = "publishing" /\ UNCHANGED header
     \/ conn # "connected" /\ GiveUp
     \/ NoSession /\ UNCHANGED header
  /\ UNCHANGED <<mainVars, cache, counter, flvVars, prodVars, intr, frame, wdts, conn,
                 closVars, aired>>

PublishPermitted == conn = "permitted"

\* publisher.publish() returns publishPermitted, after shutdown() if it is
\* false; connect() of the muxer clears the sequence headers either way.
PublishReturns ==
  /\ wpc = "publishing"
  /\ Awaited(PublishPermitted)
  /\ Forget
  /\ IF PublishPermitted
       THEN wpc' = "loop" /\ UNCHANGED <<conn, counter>>
       ELSE wpc' = "dead" /\ Pub!Reset /\ counter' = 0
  /\ UNCHANGED <<mainVars, cache, flvVars, prodVars, frame, wdts, closVars, aired>>

\* while (!Thread.interrupted())
Loop ==
  /\ wpc = "loop"
  /\ wpc' = IF intr THEN "dead" ELSE "check"
  /\ intr' = FALSE
  /\ UNCHANGED <<mainVars, cache, counter, header, flvVars, prodVars, frame, wdts, conn,
                 closVars, aired>>

\* Mutant: do { ... } while.
CacheUnseen == FALSE

CacheIsEmpty == cache = <<>>

\* while (!mFlvTagCache.isEmpty())
Check ==
  /\ wpc = "check"
  /\ wpc' = IF CacheIsEmpty THEN "lock" ELSE "poll"
  /\ UNCHANGED <<mainVars, cache, counter, header, flvVars, prodVars, intr, frame, wdts,
                 conn, closVars, aired>>

\* mFlvTagCache.poll(): null if the cache was emptied since, and the next line
\* dereferences it.
Poll ==
  /\ wpc = "poll"
  /\ IF cache = <<>>
       THEN wpc' = "crashed" /\ UNCHANGED <<cache, frame>>
       ELSE wpc' = "send" /\ frame' = Head(cache) /\ cache' = Tail(cache)
  /\ UNCHANGED <<mainVars, counter, header, flvVars, prodVars, intr, wdts, conn,
                 closVars, aired>>

\* Mutant: the last timestamp, not the greatest.
OwnDts(f) == f.dts

\* videodts and audiodts after frame f.
NewDts(f) == Max2(f.dts, wdts[f.track])

\* sendFlvTag() publishes no frame older than the one before it, and
\* publishVideoData() and publishAudioData() none unless they are permitted to.
SendFlvTag(f) ==
  /\ wdts' = [wdts EXCEPT ![f.track] = NewDts(f)]
  /\ wpc' = IF f.dts < NewDts(f) \/ conn # "permitted" THEN "check" ELSE "transmit"

\* Mutant: no sequence header is missed.
Unheralded(f) == TRUE

Announced(f) == f.hdr \/ f.track \in header

\* The body of the loop for the polled frame: a sequence header is remembered,
\* and a frame whose track has none is dropped.
Send ==
  /\ wpc = "send"
  /\ IF Announced(frame)
       THEN header' = header \cup {frame.track} /\ SendFlvTag(frame)
       ELSE wpc' = "check" /\ UNCHANGED <<header, wdts>>
  /\ frame' = IF wpc' = "check" THEN NoFrame ELSE frame
  /\ UNCHANGED <<mainVars, cache, counter, flvVars, prodVars, intr, conn, closVars, aired>>

\* Mutant: every frame counts.
CountDownAll(f) == counter' = counter - 1

\* A video frame is taken off the counter.
CountDown(f) == counter' = IF f.track = "video" THEN counter - 1 ELSE counter

\* sendRtmpPacket(), which swallows the exception of a closed socket; the frame
\* counts as gone, sent or not.
Transmit ==
  /\ wpc = "transmit"
  /\ \/ wpc' = "check" /\ CountDown(frame)
     \/ NoSession /\ UNCHANGED counter
  /\ aired' = IF conn = "permitted" THEN [aired EXCEPT ![frame.track] = Append(@, frame)]
                                    ELSE aired
  /\ frame' = NoFrame
  /\ UNCHANGED <<mainVars, cache, header, flvVars, prodVars, intr, wdts, conn, closVars>>

\* txFrameLock.wait(500) begins; a notifyAll() before this was lost.
WaitBegins ==
  /\ wpc = "lock" /\ wpc' = "wait"
  /\ UNCHANGED <<mainVars, cache, counter, header, flvVars, prodVars, intr, frame, wdts,
                 conn, closVars, aired>>

\* Mutant: wait() without a time.
WaitHasNoEnd == FALSE

\* ... and ends after half a second.
WaitTimesOut ==
  /\ wpc = "wait" /\ ~intr /\ wpc' = "loop"
  /\ UNCHANGED <<mainVars, cache, counter, header, flvVars, prodVars, intr, frame, wdts,
                 conn, closVars, aired>>

\* Mutant: the exception is swallowed.
Swallow == intr' = FALSE

\* worker.interrupt() in the handler of the exception.
Reinterrupt == intr' = TRUE

\* InterruptedException clears the status; worker.interrupt() sets it again.
WaitInterrupted ==
  /\ wpc = "wait" /\ intr /\ wpc' = "loop" /\ Reinterrupt
  /\ UNCHANGED <<mainVars, cache, counter, header, flvVars, prodVars, frame, wdts,
                 conn, closVars, aired>>

Worker ==
  \/ ConnectRefused \/ Opened \/ ConnectSent \/ ConnectReturns \/ PublishSent \/ PublishReturns
  \/ Loop \/ Check \/ Poll \/ Send \/ Transmit \/ WaitBegins \/ WaitTimesOut \/ WaitInterrupted

-----------------------------------------------------------------------------
(* The closers and the server.                                             *)

\* disconnect(): publisher.close() ...
CloserCloses ==
  /\ closing > 0
  /\ Pub!Reset /\ counter' = 0
  /\ closing' = closing - 1 /\ nulling' = nulling + 1
  /\ UNCHANGED <<mainVars, cache, header, flvVars, prodVars, workVars, aired>>

\* ... then both sequence headers are set to null.
CloserNulls ==
  /\ nulling > 0
  /\ nulling' = nulling - 1 /\ Forget
  /\ UNCHANGED <<mainVars, cache, counter, flvVars, prodVars, workVars, conn, closing, aired>>

\* The server answers what it was sent; its permission begins a new stream.
Server ==
  /\ \/ wpc = "connecting" /\ Pub!Accept /\ UNCHANGED aired
     \/ wpc = "publishing" /\ Pub!StreamCreated /\ UNCHANGED aired
     \/ Pub!Permit /\ aired' = Nowhere
  /\ UNCHANGED <<mainVars, cache, counter, header, flvVars, prodVars, workVars, closVars>>

-----------------------------------------------------------------------------
Stopping == StopInterrupt \/ StopJoin \/ StopReset
Closer == CloserCloses \/ CloserNulls

Next ==
  /\ wpc # "crashed"
  /\ \/ Start \/ StopClear \/ Stopping
     \/ Capture \/ Worker \/ Closer \/ Server

Spec == Init /\ [][Next]_vars

\* The threads that run are scheduled; wait(500) and wait(5000) end by time. The
\* server, the encoder and the caller owe nothing.
Fairness ==
  /\ WF_vars(wpc # "crashed" /\ Stopping)
  /\ WF_vars(Worker)
  /\ WF_vars(wpc # "crashed" /\ Closer)
  /\ \A t \in Track : WF_vars(wpc # "crashed" /\ (Add(t) \/ Notify(t)))

FairSpec == Spec /\ Fairness

-----------------------------------------------------------------------------
(* Properties.                                                             *)

FlagsOK ==
  /\ started \in BOOLEAN /\ needKey \in BOOLEAN /\ sent \in BOOLEAN
  /\ aacGot \in BOOLEAN /\ intr \in BOOLEAN

DataOK ==
  /\ mainPc \in {"idle", "interrupt", "join", "reset"}
  /\ starts \in 0..MaxStarts /\ stops \in 0..MaxStops /\ capturing \in 0..starts
  /\ cache \in Seq(Frame) /\ counter \in Int /\ header \in SUBSET Track
  /\ h264 \in [sps : Sps \cup {Nil, Zeroed}, pps : Pps \cup {Nil, Zeroed}]
  /\ announced \in [sps : Sps \cup {Nil}, pps : Pps \cup {Nil}]
  /\ prodPc \in [Track -> {"idle", "add", "count", "notify"}]
  /\ prodFrame \in [Track -> Frame]
  /\ clock \in [Track -> 0..MaxDts] /\ samples \in [Track -> Nat]
  /\ wpc \in Streaming \cup {"none", "connect", "opening", "connecting", "publish",
                             "publishing", "dead", "crashed"}
  /\ frame \in Frame /\ wdts \in [Track -> 0..MaxDts]
  /\ conn \in Pub!ConnStates
  /\ closing \in Nat /\ nulling \in Nat
  /\ aired \in [Track -> Seq(Frame)]

\* Every variable has a value of its kind; nothing counts below zero but the
\* counter of cached frames.
TypeOK == FlagsOK /\ DataOK

\* A stream shows a track only after the track's sequence header: what the
\* worker forgets in connect() and disconnect() is never more than what the
\* server lost with the stream.
HeaderFirst == \A t \in Track : aired[t] # <<>> => aired[t][1].hdr

\* On a stream the timestamps of a track never go back, whatever clock the
\* encoder was restarted with and whatever an earlier session left in the cache.
DtsMonotone ==
  \A t \in Track : \A i, j \in DOMAIN aired[t] :
    i < j => aired[t][i].dts <= aired[t][j].dts

\* The worker finds the cache empty between isEmpty() and poll(), and dies of
\* the null frame, only while stop() is emptying it; and no closer takes the
\* session from under its hands.
CrashOnlyWhileStopping == wpc = "crashed" => mainPc \in {"interrupt", "join"}

VideoIn(s) == Cardinality({i \in DOMAIN s : s[i].track = "video"})

\* While a stream is being published, videoFrameCacheNumber is the number of
\* video frames that are cached or in the worker's hand, except that a frame
\* is added to the cache before it is counted (the encoder's throttle and
\* isAllFramesUploaded() read this number).
CounterExact ==
  wpc \in Streaming /\ mainPc = "idle" =>
    counter + (IF prodPc["video"] = "count" THEN 1 ELSE 0)
      = VideoIn(cache) + (IF wpc \in {"send", "transmit"} /\ frame.track = "video" THEN 1 ELSE 0)

\* A session publishes and caches only frames captured in this session.
FreshFrames ==
  wpc \in Streaming =>
    /\ \A i \in DOMAIN cache : cache[i].born = starts
    /\ \A t \in Track : \A i \in DOMAIN aired[t] : aired[t][i].born = starts

\* When everything stop() set off has ended, nothing of the session is left.
StoppedIsClean ==
  mainPc = "idle" /\ wpc = "none" /\ closing + nulling = 0 =>
    /\ conn = "null" /\ counter = 0 /\ cache = <<>> /\ header = {}
    /\ ~sent /\ needKey /\ ~aacGot

\* Once a session has seen parameter sets, a sequence header was made from
\* those that are in use, although the ones of the session before may be the
\* same and reset() only overwrites them.
HeaderCurrent == h264.pps \in Pps => sent /\ announced = h264

\* Every cached frame is polled while the worker publishes, although the worker
\* may begin to wait just after it was notified.
FramesDrain == cache # <<>> /\ wpc \in Streaming ~> cache = <<>> \/ wpc \notin Streaming

\* stop() returns if the interrupt reaches the worker in its publishing loop.
StopReturnsOnceStreaming ==
  mainPc = "join" /\ intr /\ wpc \in Streaming ~> mainPc = "idle" \/ wpc = "crashed"

\* stop() does not hold up the main thread for good (SrsFlvMuxer.java:204, "We
\* should not block the main thread").
StopReturns == mainPc # "idle" ~> mainPc = "idle" \/ wpc = "crashed"
=============================================================================
