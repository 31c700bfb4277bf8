---------------------------- MODULE SrsMp4Muxer ----------------------------
(***************************************************************************)
(* SrsMp4Muxer.java: encoded samples are recorded into an MP4 file.  The   *)
(* main thread calls record(), pause(), resume() and stop(); one capture   *)
(* thread per track calls writeSampleData(), which puts frames into        *)
(* frameCache; a worker polls them and writes them to the file.  stop()    *)
(* waits for the worker, and writes the movie box.                         *)
(*                                                                         *)
(* Of a sample's bytes only the number matters. A file is what the code    *)
(* keeps of it: its size, where its mdat box begins, and the samples of    *)
(* each track. An uncaught exception of the worker ends the process.       *)
(***************************************************************************)
EXTENDS Integers, Sequences, SequencesExt, Mp4Tables

CONSTANTS
  MaxRecords,  \* calls of record()
  MaxFrames,   \* samples of the encoder
  MaxPauses,   \* calls of pause()
  MaxErrors,   \* exceptions of the file system
  MaxPts,      \* the largest presentation time
  Sizes,       \* sizes of samples
  FtypSize, HeaderSize,   \* of the ftyp box, and of the header of the mdat box
  TimeScale, TimeUnit,    \* a track's ticks, and the encoder's, per second
  LastDuration            \* what the last sample of a track is said to last

ASSUME RecorderConstants ==
  /\ MaxRecords \in Nat /\ MaxFrames \in Nat /\ MaxPauses \in Nat /\ MaxErrors \in Nat
  /\ MaxPts \in Nat /\ Sizes \subseteq Nat \ {0}
  /\ FtypSize \in Nat /\ HeaderSize \in Nat
  /\ TimeScale \in Nat /\ TimeUnit \in Nat \ {0} /\ LastDuration \in Nat

Track == {"video", "audio"}
Frame == [track : Track, key : BOOLEAN, pts : 0..MaxPts, size : Sizes, born : Nat]

VARIABLES
  main,      \* the main thread: "idle", or in stop(): "clear", "join", "finish"
  records, pauses, frames, errors,
  bRecording, bPaused,
  needKey,   \* needToFindKeyFrame
  aac,       \* aacSpecConfig
  sps,       \* spsList and ppsList are not empty
  cache,     \* frameCache
  wpc,       \* the worker; "none" when the field is null
  capture,   \* per track: where its thread is in writeFrameByte(), with what frame
  tracks,    \* the tracks of mp4Movie
  samples,   \* per track: its samples
  durations, \* per track: sampleDurations
  opened,    \* mdat has its header (not mdat.first)
  mdatOffset, recFileSize,
  untimely   \* history: a stop() met a sample on its way, or a worker that had not begun

callVars == <<records, pauses, frames, errors>>
flagVars == <<bRecording, bPaused, needKey, aac>>
fileVars == <<tracks, samples, durations, opened, mdatOffset, recFileSize>>
vars == <<main, callVars, flagVars, sps, cache, wpc, capture, fileVars, untimely>>

Idle == [at |-> "idle"]
At(pc, frame) == [at |-> pc, frame |-> frame]

Empty == [t \in Track |-> <<>>]

Init ==
  /\ main = "idle" /\ records = 0 /\ pauses = 0 /\ frames = 0 /\ errors = 0
  /\ bRecording = FALSE /\ bPaused = FALSE /\ needKey = TRUE /\ aac = FALSE
  /\ sps = FALSE /\ cache = <<>> /\ wpc = "none" /\ capture = [t \in Track |-> Idle]
  /\ tracks = {} /\ samples = Empty /\ durations = Empty
  /\ opened = FALSE /\ mdatOffset = 0 /\ recFileSize = 0
  /\ untimely = FALSE

-----------------------------------------------------------------------------
(* The main thread.                                                        *)

\* record(): the file begins with its ftyp box, a track begins with the
\* duration of its last sample, and a worker is forked.
Record ==
  /\ main = "idle" /\ wpc = "none" /\ records < MaxRecords
  /\ records' = records + 1
  /\ tracks' = {"audio"} \cup (IF sps THEN {"video"} ELSE {})
  /\ samples' = Empty
  /\ durations' = [t \in Track |-> <<LastDuration>>]
  /\ opened' = FALSE /\ mdatOffset' = 0 /\ recFileSize' = recFileSize + FtypSize
  /\ wpc' = "start"
  /\ UNCHANGED <<main, pauses, frames, errors, flagVars, sps, cache, capture, untimely>>

Pause ==
  /\ main = "idle" /\ bRecording /\ pauses < MaxPauses
  /\ pauses' = pauses + 1 /\ bPaused' = TRUE
  /\ UNCHANGED <<main, records, frames, errors, bRecording, needKey, aac, sps, cache, wpc,
                 capture, fileVars, untimely>>

Resume ==
  /\ main = "idle" /\ bRecording /\ bPaused
  /\ bPaused' = FALSE /\ needKey' = TRUE
  /\ UNCHANGED <<main, callVars, bRecording, aac, sps, cache, wpc, capture, fileVars, untimely>>

\* Mutant: stop() keeps the flag.
KeepFlag == needKey

FlagAfterStop == TRUE

\* stop() begins: the flags.
Stop ==
  /\ main = "idle" /\ wpc # "none"
  /\ main' = "clear"
  /\ bRecording' = FALSE /\ bPaused' = FALSE /\ needKey' = FlagAfterStop /\ aac' = FALSE
  /\ untimely' = (untimely \/ wpc = "start" \/ \E t \in Track : capture[t] # Idle)
  /\ UNCHANGED <<callVars, sps, cache, wpc, capture, fileVars>>

\* Mutant: the worker writes what is left.
LeftInCache == cache

ClearedCache == <<>>

\* stop(): frameCache.clear().
StopClear ==
  /\ main = "clear" /\ main' = "join"
  /\ cache' = ClearedCache
  /\ UNCHANGED <<callVars, flagVars, sps, wpc, capture, fileVars, untimely>>

\* stop(): the worker is joined.
StopJoin ==
  /\ main = "join" /\ wpc = "dead"
  /\ main' = "finish" /\ wpc' = "none"
  /\ UNCHANGED <<callVars, flagVars, sps, cache, capture, fileVars, untimely>>

\* stop(): finishMovie(); an exception leaves what the next file inherits.
StopFinish ==
  /\ main = "finish" /\ main' = "idle"
  /\ \/ tracks' = {} /\ recFileSize' = 0 /\ UNCHANGED errors
     \/ errors < MaxErrors /\ errors' = errors + 1 /\ UNCHANGED <<tracks, recFileSize>>
  /\ UNCHANGED <<records, pauses, frames, flagVars, sps, cache, wpc, capture, samples,
                 durations, opened, mdatOffset, untimely>>

-----------------------------------------------------------------------------
(* The capture threads: writeSampleData().                                 *)

\* writeVideoSample() of parameter sets.
ParameterSets ==
  /\ ~sps /\ capture["video"] = Idle
  /\ sps' = TRUE
  /\ UNCHANGED <<main, callVars, flagVars, cache, wpc, capture, fileVars, untimely>>

\* A sample comes to writeFrameByte(), which looks at the flags; the first of
\* audio is the codec's configuration, and ignored.
Sample(f) ==
  /\ capture[f.track] = Idle /\ frames < MaxFrames
  /\ frames' = frames + 1
  /\ aac' = (aac \/ f.track = "audio")
  /\ capture' = IF bRecording /\ ~bPaused /\ (f.track = "audio" => aac)
                  THEN [capture EXCEPT ![f.track] = At("key", f)] ELSE capture
  /\ UNCHANGED <<main, records, pauses, errors, bRecording, bPaused, needKey, sps, cache, wpc,
                 fileVars, untimely>>

\* writeFrameByte(): while a key frame is needed, only a key frame passes.
FindKeyFrame(t) ==
  /\ capture[t].at = "key"
  /\ LET f == capture[t].frame
     IN  IF needKey /\ ~f.key THEN capture' = [capture EXCEPT ![t] = Idle] /\ UNCHANGED needKey
         ELSE capture' = [capture EXCEPT ![t] = At("add", f)] /\ needKey' = FALSE
  /\ UNCHANGED <<main, callVars, bRecording, bPaused, aac, sps, cache, wpc, fileVars, untimely>>

\* writeFrameByte(): the frame is cached, and a worker that waits is woken.
Add(t) ==
  /\ capture[t].at = "add"
  /\ cache' = Append(cache, capture[t].frame)
  /\ capture' = [capture EXCEPT ![t] = Idle]
  /\ wpc' = IF wpc = "wait" THEN "loop" ELSE wpc
  /\ UNCHANGED <<main, callVars, flagVars, sps, fileVars, untimely>>

Capture ==
  \/ ParameterSets
  \/ \E t \in Track, key \in BOOLEAN, pts \in 0..MaxPts, size \in Sizes :
       /\ t = "audio" => ~key
       /\ Sample([track |-> t, key |-> key, pts |-> pts, size |-> size, born |-> records])
  \/ \E t \in Track : FindKeyFrame(t) \/ Add(t)

-----------------------------------------------------------------------------
(* The worker.                                                             *)

\* The worker itself says that it records.
WorkerBegins ==
  /\ wpc = "start" /\ wpc' = "loop"
  /\ bRecording' = TRUE
  /\ UNCHANGED <<main, callVars, bPaused, needKey, aac, sps, cache, capture, fileVars, untimely>>

\* while (bRecording)
Loop ==
  /\ wpc = "loop"
  /\ wpc' = IF bRecording THEN "check" ELSE "dead"
  /\ UNCHANGED <<main, callVars, flagVars, sps, cache, capture, fileVars, untimely>>

\* Mutant: do { ... } while.
CacheUnseen == FALSE

CacheIsEmpty == cache = <<>>

\* while (!frameCache.isEmpty())
Check ==
  /\ wpc = "check"
  /\ wpc' = IF CacheIsEmpty THEN "wait" ELSE "poll"
  /\ UNCHANGED <<main, callVars, flagVars, sps, cache, capture, fileVars, untimely>>

\* frameCache.poll() is null, and is dereferenced.
PollNull ==
  /\ wpc = "poll" /\ cache = <<>>
  /\ wpc' = "crashed"
  /\ UNCHANGED <<main, callVars, flagVars, sps, cache, capture, fileVars, untimely>>

\* A duration in ticks of the track, rounded.
Ticks(time) == (time * TimeScale + TimeUnit \div 2) \div TimeUnit

LastPts(t) == IF samples[t] = <<>> THEN 0 ELSE samples[t][Len(samples[t])].pts

\* Mutant: durations are added at the end.
DurationAppended(ds, d) == Append(ds, d)

\* A duration goes before that of the last sample.
DurationAdded(ds, d) == InsertAt(ds, Len(ds), d)

\* Mutant: a sample goes into the tables at any time.
NeverOlder(f) == FALSE

Older(f) == f.pts < LastPts(f.track)

\* addSample(), at an offset of the file: a sample older than the last is not
\* in the tables.
AddSample(f, offset) ==
  IF Older(f) THEN UNCHANGED <<samples, durations>>
  ELSE /\ samples' = [samples EXCEPT ![f.track] =
                        Append(@, [offset |-> offset, size |-> f.size, pts |-> f.pts,
                                   key |-> f.key, born |-> f.born])]
       /\ durations' = [durations EXCEPT ![f.track] =
                          IF samples[f.track] = <<>> THEN @
                          ELSE DurationAdded(@, Ticks(f.pts - LastPts(f.track)))]

\* Mutant: the header does not count.
BehindNoHeader == recFileSize

\* Where the next sample goes: the first one comes behind the header of mdat.
NextOffset == IF opened THEN recFileSize ELSE recFileSize + HeaderSize

\* frameCache.poll() and writeSampleData(); an exception leaves the sample in
\* the tables, and its bytes are not counted.
WriteSample ==
  /\ wpc = "poll" /\ cache # <<>>
  /\ wpc' = "check" /\ cache' = Tail(cache)
  /\ LET f == Head(cache)
     IN  IF f.track \notin tracks THEN UNCHANGED <<errors, fileVars>>
         ELSE /\ opened' = TRUE
              /\ mdatOffset' = IF opened THEN mdatOffset ELSE recFileSize
              /\ AddSample(f, NextOffset)
              /\ \/ recFileSize' = NextOffset + f.size /\ UNCHANGED errors
                 \/ /\ errors < MaxErrors /\ errors' = errors + 1
                    /\ recFileSize' = NextOffset
              /\ UNCHANGED tracks
  /\ UNCHANGED <<main, records, pauses, frames, flagVars, sps, capture, untimely>>

\* Mutant: wait() without a time.
WaitHasNoEnd == FALSE

\* writeLock.wait(500) ends by time.
WaitEnds ==
  /\ wpc = "wait" /\ wpc' = "loop"
  /\ UNCHANGED <<main, callVars, flagVars, sps, cache, capture, fileVars, untimely>>

Worker == WorkerBegins \/ Loop \/ Check \/ PollNull \/ WriteSample \/ WaitEnds

-----------------------------------------------------------------------------
Stopping == StopClear \/ StopJoin \/ StopFinish

Next ==
  /\ wpc # "crashed"
  /\ Record \/ Pause \/ Resume \/ Stop \/ Stopping \/ Capture \/ Worker

Spec == Init /\ [][Next]_vars

\* The threads are scheduled, and a wait with a time ends.
FairSpec == Spec /\ WF_vars(wpc # "crashed" /\ Stopping) /\ WF_vars(Worker)

-----------------------------------------------------------------------------
(* Properties.                                                             *)

FlagsOK ==
  /\ bRecording \in BOOLEAN /\ bPaused \in BOOLEAN /\ needKey \in BOOLEAN /\ aac \in BOOLEAN
  /\ sps \in BOOLEAN /\ opened \in BOOLEAN /\ untimely \in BOOLEAN

CallsOK ==
  /\ main \in {"idle", "clear", "join", "finish"}
  /\ records \in Nat /\ pauses \in Nat /\ frames \in Nat /\ errors \in Nat
  /\ wpc \in {"none", "start", "loop", "check", "poll", "wait", "dead", "crashed"}

DataOK ==
  /\ cache \in Seq(Frame)
  /\ capture \in [Track -> {Idle} \cup [at : {"key", "add"}, frame : Frame]]
  /\ tracks \in SUBSET Track
  /\ samples \in [Track -> Seq([offset : Nat, size : Sizes, pts : 0..MaxPts,
                                key : BOOLEAN, born : Nat])]
  /\ durations \in [Track -> Seq(Nat)]
  /\ mdatOffset \in Nat /\ recFileSize \in Nat

\* Every variable has a value of its kind; no duration is negative.
TypeOK == FlagsOK /\ CallsOK /\ DataOK

\* The worker finds the cache empty between isEmpty() and poll(), and dies of
\* the null frame, only while stop() is emptying it.
CrashOnlyWhileStopping == wpc = "crashed" => main = "join"

\* A movie has only samples that were captured while it was recorded, and its
\* video begins with a key frame, however often the recording was paused; unless
\* stop() was untimely.
OwnSamples ==
  ~untimely =>
    /\ samples["video"] # <<>> => samples["video"][1].key
    /\ wpc # "none" =>
         \A t \in Track : \A i \in DOMAIN samples[t] : samples[t][i].born = records

Overlap(a, b) == a.offset < b.offset + b.size /\ b.offset < a.offset + a.size

\* As long as the file system reports nothing, the samples of a movie lie
\* behind the header of its mdat box and before the end of the file, and no
\* two of them share a byte, whatever samples are left out of the tables.
SamplesApart ==
  errors = 0 /\ main # "idle" =>
    \A t \in Track : \A i \in DOMAIN samples[t] :
      LET s == samples[t][i]
      IN  /\ s.offset >= mdatOffset + HeaderSize /\ s.offset + s.size <= recFileSize
          /\ \A u \in Track : \A j \in DOMAIN samples[u] :
               <<t, i>> # <<u, j>> => ~Overlap(s, samples[u][j])

\* The tables of the movie box lead a player to the samples, however the tracks
\* are interleaved, and wherever a sample was left out or failed.
TablesTrue == \A t \in tracks : TablesFind(samples[t])

\* The ticks that are told of the first durations.
Clock(ds) == LET clock[i \in 0..Len(ds)] == IF i = 0 THEN 0 ELSE clock[i - 1] + ds[i] IN clock

\* The durations of a track that has samples are one per sample, and add up to
\* their times with at most half a tick of error each.
TimesKept ==
  \A t \in tracks : samples[t] # <<>> =>
    /\ Len(durations[t]) = Len(samples[t])
    /\ \A i \in DOMAIN samples[t] :
         LET told == TimeUnit * Clock(durations[t])[i - 1]
             true == TimeScale * (samples[t][i].pts - samples[t][1].pts)
         IN  2 * (told - true) \in -(i - 1) * TimeUnit..(i - 1) * TimeUnit

\* stop() returns if the worker had begun.
StopReturnsOnceBegun ==
  main = "join" /\ wpc # "start" /\ ~bRecording ~> main = "idle" \/ wpc = "crashed"
=============================================================================
