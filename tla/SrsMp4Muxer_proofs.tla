------------------------- MODULE SrsMp4Muxer_proofs -------------------------
(* Theorems about SrsMp4Muxer, for every value of its constants.           *)
EXTENDS SrsMp4Muxer, Mp4Tables_proofs

-----------------------------------------------------------------------------
(* Types.                                                                  *)

LEMMA FlagsNext == FlagsOK /\ [Next]_vars => FlagsOK'
<1> SUFFICES ASSUME FlagsOK, [Next]_vars PROVE FlagsOK'
  OBVIOUS
<1> USE DEF FlagsOK, callVars, flagVars, fileVars
<1>1. CASE Record \/ Pause \/ Resume
  BY <1>1, Zenon DEF Record, Pause, Resume
<1>2. CASE Stop
  <2>1. untimely' \in BOOLEAN
    BY <1>2, Zenon DEF Stop
  <2> QED
    BY <1>2, <2>1, Zenon DEF Stop, FlagAfterStop
<1>3. CASE Stopping
  BY <1>3, Zenon DEF Stopping, StopClear, StopJoin, StopFinish
<1>4. CASE Capture
  <2>1. CASE ParameterSets
    BY <2>1, Zenon DEF ParameterSets
  <2>2. ASSUME NEW f, Sample(f) PROVE FlagsOK'
    BY <2>2, Zenon DEF Sample
  <2>3. ASSUME NEW t, FindKeyFrame(t) PROVE FlagsOK'
    BY <2>3, Zenon DEF FindKeyFrame
  <2>4. ASSUME NEW t, Add(t) PROVE FlagsOK'
    BY <2>4, Zenon DEF Add
  <2> QED
    BY <1>4, <2>1, <2>2, <2>3, <2>4, Zenon DEF Capture
<1>5. CASE Worker
  BY <1>5, Zenon DEF Worker, WorkerBegins, Loop, Check, PollNull, WriteSample, WaitEnds
<1>6. CASE UNCHANGED vars
  BY <1>6, Zenon DEF vars
<1> QED
  BY <1>1, <1>2, <1>3, <1>4, <1>5, <1>6, Zenon DEF Next

LEMMA CallsNext == CallsOK /\ [Next]_vars => CallsOK'
<1> SUFFICES ASSUME CallsOK, [Next]_vars PROVE CallsOK'
  OBVIOUS
<1> USE DEF CallsOK, callVars, flagVars, fileVars
<1>1. CASE Record \/ Pause \/ Resume \/ Stop
  BY <1>1 DEF Record, Pause, Resume, Stop
<1>2. CASE Stopping
  BY <1>2 DEF Stopping, StopClear, StopJoin, StopFinish
<1>3. CASE Capture
  <2>1. CASE ParameterSets
    BY <2>1 DEF ParameterSets
  <2>2. ASSUME NEW f, Sample(f) PROVE CallsOK'
    BY <2>2 DEF Sample
  <2>3. ASSUME NEW t, FindKeyFrame(t) PROVE CallsOK'
    BY <2>3 DEF FindKeyFrame
  <2>4. ASSUME NEW t, Add(t) PROVE CallsOK'
    BY <2>4 DEF Add
  <2> QED
    BY <1>3, <2>1, <2>2, <2>3, <2>4 DEF Capture
<1>4. CASE Worker
  BY <1>4 DEF Worker, WorkerBegins, Loop, Check, PollNull, WriteSample, WaitEnds
<1>5. CASE UNCHANGED vars
  BY <1>5 DEF vars
<1> QED
  BY <1>1, <1>2, <1>3, <1>4, <1>5 DEF Next

\* The samples of a track, as the tables have them.
Entry == [offset : Nat, size : Sizes, pts : 0..MaxPts, key : BOOLEAN, born : Nat]

LEMMA TicksInNat ==
  ASSUME RecorderConstants, NEW time \in Nat
  PROVE  Ticks(time) \in Nat
<1>1. time * TimeScale \in Nat /\ TimeUnit \div 2 \in Nat
  BY DEF RecorderConstants
<1>2. \A n \in Nat : n \div TimeUnit \in Nat
  BY DEF RecorderConstants
<1> QED
  BY <1>1, <1>2 DEF Ticks

LEMMA LastPtsTyped ==
  ASSUME RecorderConstants, DataOK, NEW t \in Track
  PROVE  LastPts(t) \in Nat
<1>1. samples[t] \in Seq(Entry)
  BY DEF DataOK, Entry
<1>2. CASE samples[t] # <<>>
  <2>1. samples[t][Len(samples[t])] \in Entry
    BY <1>1, <1>2
  <2> QED
    BY <1>2, <2>1 DEF LastPts, Entry
<1>3. CASE samples[t] = <<>>
  BY <1>3 DEF LastPts
<1> QED
  BY <1>2, <1>3

LEMMA Replaced ==
  ASSUME NEW S, NEW g \in [Track -> S], NEW t \in Track, NEW v \in S
  PROVE  [g EXCEPT ![t] = v] \in [Track -> S]
OBVIOUS

\* A track that is recorded has the duration of its last sample.
Lasting == wpc # "none" => \A t \in Track : durations[t] # <<>>

LEMMA DurationAddedTyped ==
  ASSUME NEW ds \in Seq(Nat), ds # <<>>, NEW d \in Nat
  PROVE  DurationAdded(ds, d) \in Seq(Nat) /\ DurationAdded(ds, d) # <<>>
<1> DEFINE front == SubSeq(ds, 1, Len(ds) - 1)
<1> DEFINE last == SubSeq(ds, Len(ds), Len(ds))
<1>1. Len(ds) \in Nat /\ Len(ds) >= 1
  OBVIOUS
<1>2. front \in Seq(Nat) /\ last \in Seq(Nat) /\ <<d>> \in Seq(Nat)
  BY <1>1, SubSeqProperties
<1>3. DurationAdded(ds, d) = (front \o <<d>>) \o last
  BY DEF DurationAdded, InsertAt
<1>4. front \o <<d>> \in Seq(Nat) /\ Len(front \o <<d>>) = Len(front) + 1
  BY <1>2, ConcatProperties
<1>5. (front \o <<d>>) \o last \in Seq(Nat) /\ Len((front \o <<d>>) \o last) > 0
  <2> HIDE DEF front, last
  <2>1. Len(front) \in Nat /\ Len(last) \in Nat
    BY <1>2
  <2> QED
    BY <1>2, <1>4, <2>1, ConcatProperties
<1> QED
  BY <1>3, <1>5

LEMMA AddSampleTyped ==
  ASSUME RecorderConstants, DataOK, \A t \in Track : durations[t] # <<>>,
         NEW f \in Frame, NEW offset \in Nat, AddSample(f, offset)
  PROVE  /\ samples' \in [Track -> Seq(Entry)] /\ durations' \in [Track -> Seq(Nat)]
         /\ \A t \in Track : durations'[t] # <<>>
<1>1. f.track \in Track /\ samples[f.track] \in Seq(Entry) /\ durations[f.track] \in Seq(Nat)
  BY DEF DataOK, Frame, Entry
<1>2. CASE Older(f)
  BY <1>2 DEF AddSample, DataOK, Entry
<1>3. CASE ~Older(f)
  <2>1. [offset |-> offset, size |-> f.size, pts |-> f.pts, key |-> f.key, born |-> f.born]
          \in Entry
    BY DEF Frame, Entry
  <2>2. samples' \in [Track -> Seq(Entry)]
    <3> DEFINE e == [offset |-> offset, size |-> f.size, pts |-> f.pts, key |-> f.key,
                     born |-> f.born]
    <3>1. samples' = [samples EXCEPT ![f.track] = Append(samples[f.track], e)]
      BY <1>3 DEF AddSample
    <3>2. Append(samples[f.track], e) \in Seq(Entry)
      BY <1>1, <2>1
    <3>3. samples \in [Track -> Seq(Entry)]
      BY DEF DataOK, Entry
    <3> QED
      BY <1>1, <3>1, <3>2, <3>3, Replaced
  <2>3. Ticks(f.pts - LastPts(f.track)) \in Nat
    <3>1. f.pts - LastPts(f.track) \in Nat
      BY <1>1, <1>3, LastPtsTyped DEF Older, Frame, RecorderConstants
    <3> QED
      BY <3>1, TicksInNat
  <2>5. durations' \in [Track -> Seq(Nat)] /\ \A t \in Track : durations'[t] # <<>>
    <3> DEFINE d == IF samples[f.track] = <<>> THEN durations[f.track]
                    ELSE DurationAdded(durations[f.track], Ticks(f.pts - LastPts(f.track)))
    <3>1. durations' = [durations EXCEPT ![f.track] = d]
      BY <1>3 DEF AddSample
    <3>2. d \in Seq(Nat) /\ d # <<>>
      BY <1>1, <2>3, DurationAddedTyped
    <3>3. durations \in [Track -> Seq(Nat)]
      BY DEF DataOK
    <3> HIDE DEF d
    <3>4. \A t \in Track : durations'[t] = (IF t = f.track THEN d ELSE durations[t])
      BY <3>1, <3>3
    <3> QED
      BY <1>1, <3>1, <3>2, <3>3, <3>4, Replaced
  <2> QED
    BY <2>2, <2>5
<1> QED
  BY <1>2, <1>3

\* A step that leaves the file alone.
LEMMA FileUntouched ==
  ASSUME DataOK, Lasting, UNCHANGED fileVars, wpc' # "none" => wpc # "none",
         cache' \in Seq(Frame),
         capture' \in [Track -> {Idle} \cup [at : {"key", "add"}, frame : Frame]]
  PROVE  DataOK' /\ Lasting'
BY DEF DataOK, Lasting, fileVars

\* What writeSampleData() does to a file, for a sample of a recorded track.
Written(f) ==
  /\ opened' = TRUE
  /\ mdatOffset' = IF opened THEN mdatOffset ELSE recFileSize
  /\ AddSample(f, NextOffset)
  /\ \/ recFileSize' = NextOffset + f.size /\ errors' = errors
     \/ recFileSize' = NextOffset /\ errors' = errors + 1
  /\ tracks' = tracks

LEMMA WriteSampleSplit ==
  ASSUME WriteSample
  PROVE  /\ wpc = "poll" /\ cache # <<>> /\ wpc' = "check" /\ cache' = Tail(cache)
         /\ UNCHANGED <<main, records, pauses, frames, flagVars, sps, capture, untimely>>
         /\ \/ Head(cache).track \notin tracks /\ UNCHANGED <<errors, fileVars>>
            \/ Head(cache).track \in tracks /\ Written(Head(cache))
BY DEF WriteSample, Written

LEMMA OffsetsTyped ==
  ASSUME RecorderConstants, DataOK
  PROVE  NextOffset \in Nat /\ \A f \in Frame : f.size \in Nat \ {0}
<1>1. NextOffset \in Nat
  BY DEF RecorderConstants, DataOK, NextOffset
<1>2. ASSUME NEW f \in Frame PROVE f.size \in Nat \ {0}
  <2>1. f.size \in Sizes /\ Sizes \subseteq Nat \ {0}
    BY DEF Frame, RecorderConstants
  <2> QED
    BY <2>1
<1> QED
  BY <1>1, <1>2

LEMMA DataNext ==
  RecorderConstants /\ DataOK /\ Lasting /\ CallsOK /\ [Next]_vars => DataOK' /\ Lasting'
<1> SUFFICES ASSUME RecorderConstants, DataOK, Lasting, CallsOK, [Next]_vars
             PROVE  DataOK' /\ Lasting'
  OBVIOUS
<1> USE DEF callVars, flagVars
<1>t. /\ cache \in Seq(Frame) /\ <<>> \in Seq(Frame)
      /\ capture \in [Track -> {Idle} \cup [at : {"key", "add"}, frame : Frame]]
  BY DEF DataOK
<1>1. CASE Record
  <2>1. Empty \in [Track -> Seq(Entry)]
    BY DEF Empty
  <2>2. <<LastDuration>> \in Seq(Nat) /\ <<LastDuration>> # <<>>
    BY DEF RecorderConstants
  <2>3. /\ durations' \in [Track -> Seq(Nat)] /\ \A t \in Track : durations'[t] # <<>>
    BY <1>1, <2>2 DEF Record
  <2>4. mdatOffset' \in Nat /\ recFileSize' \in Nat /\ tracks' \in SUBSET Track
    BY <1>1 DEF Record, Track, DataOK, RecorderConstants
  <2> QED
    BY <1>1, <2>1, <2>3, <2>4 DEF Record, DataOK, Lasting, Entry
<1>2. CASE Pause \/ Resume \/ Stop
  BY <1>2, <1>t, FileUntouched DEF Pause, Resume, Stop
<1>3. CASE StopClear \/ StopJoin
  <2>1. cache' \in Seq(Frame) /\ capture' = capture /\ (wpc' # "none" => wpc # "none")
    BY <1>3, <1>t DEF StopClear, ClearedCache, StopJoin
  <2>2. UNCHANGED fileVars
    BY <1>3, Zenon DEF StopClear, StopJoin
  <2> QED
    BY <1>t, <2>1, <2>2, FileUntouched
<1>4. CASE StopFinish
  <2>1. /\ UNCHANGED <<cache, wpc, capture, samples, durations, mdatOffset>>
        /\ tracks' = {} \/ tracks' = tracks
        /\ recFileSize' = 0 \/ recFileSize' = recFileSize
    BY <1>4 DEF StopFinish
  <2>2. tracks' \in SUBSET Track /\ recFileSize' \in Nat
    BY <2>1 DEF DataOK
  <2> QED
    BY <2>1, <2>2, Zenon DEF DataOK, Lasting
<1>5. CASE Capture
  <2>1. CASE ParameterSets
    BY <2>1, <1>t, FileUntouched DEF ParameterSets
  <2>2. ASSUME NEW f \in Frame, Sample(f) PROVE DataOK' /\ Lasting'
    <3>1. At("key", f) \in [at : {"key", "add"}, frame : Frame] /\ f.track \in Track
      BY DEF At, Frame
    <3>2. capture' \in [Track -> {Idle} \cup [at : {"key", "add"}, frame : Frame]]
      BY <1>t, <2>2, <3>1 DEF Sample
    <3> QED
      BY <1>t, <2>2, <3>2, FileUntouched DEF Sample
  <2>3. ASSUME NEW t \in Track, FindKeyFrame(t) PROVE DataOK' /\ Lasting'
    <3>1. capture[t].frame \in Frame
      BY <1>t, <2>3 DEF FindKeyFrame, Idle
    <3>2. At("add", capture[t].frame) \in [at : {"key", "add"}, frame : Frame]
      BY <3>1 DEF At
    <3>3. capture' \in [Track -> {Idle} \cup [at : {"key", "add"}, frame : Frame]]
      BY <1>t, <2>3, <3>2 DEF FindKeyFrame
    <3> QED
      BY <1>t, <2>3, <3>3, FileUntouched DEF FindKeyFrame
  <2>4. ASSUME NEW t \in Track, Add(t) PROVE DataOK' /\ Lasting'
    <3>1. capture[t].frame \in Frame
      BY <1>t, <2>4 DEF Add, Idle
    <3>2. cache' \in Seq(Frame)
      BY <1>t, <2>4, <3>1 DEF Add
    <3>3. capture' \in [Track -> {Idle} \cup [at : {"key", "add"}, frame : Frame]]
      BY <1>t, <2>4 DEF Add
    <3> QED
      BY <2>4, <3>2, <3>3, FileUntouched DEF Add
  <2>5. ASSUME NEW t \in Track, NEW key \in BOOLEAN, NEW pts \in 0..MaxPts, NEW size \in Sizes
        PROVE  [track |-> t, key |-> key, pts |-> pts, size |-> size, born |-> records] \in Frame
    BY DEF Frame, CallsOK
  <2> QED
    BY <1>5, <2>1, <2>2, <2>3, <2>4, <2>5 DEF Capture
<1>6. CASE Worker
  <2>1. CASE WorkerBegins \/ Loop \/ Check \/ PollNull \/ WaitEnds
    BY <2>1, <1>t, FileUntouched DEF WorkerBegins, Loop, Check, PollNull, WaitEnds
  <2>2. CASE WriteSample
    <3> DEFINE f == Head(cache)
    <3>1. f \in Frame /\ cache' \in Seq(Frame) /\ UNCHANGED capture
      BY <2>2, <1>t, WriteSampleSplit
    <3>2. CASE UNCHANGED fileVars
      BY <2>2, <1>t, <3>1, <3>2, FileUntouched, WriteSampleSplit
    <3>3. CASE Written(f)
      <4>1. \A t \in Track : durations[t] # <<>>
        BY <2>2, WriteSampleSplit DEF Lasting
      <4>2. NextOffset \in Nat /\ f.size \in Nat
        BY <3>1, OffsetsTyped
      <4>3. /\ samples' \in [Track -> Seq(Entry)] /\ durations' \in [Track -> Seq(Nat)]
            /\ \A t \in Track : durations'[t] # <<>>
        BY <3>1, <3>3, <4>1, <4>2, AddSampleTyped DEF Written
      <4>4. mdatOffset' \in Nat /\ recFileSize' \in Nat /\ tracks' \in SUBSET Track
        <5>1. recFileSize' = NextOffset + f.size \/ recFileSize' = NextOffset
          <6> HIDE DEF f
          <6> QED
            BY <3>3 DEF Written
        <5>2. mdatOffset' = mdatOffset \/ mdatOffset' = recFileSize
          BY <3>3 DEF Written
        <5>3. tracks' = tracks
          BY <3>3 DEF Written
        <5> QED
          BY <4>2, <5>1, <5>2, <5>3 DEF DataOK
      <4> QED
        BY <1>t, <3>1, <4>3, <4>4 DEF DataOK, Lasting, Entry
    <3> QED
      BY <2>2, <3>2, <3>3, WriteSampleSplit
  <2> QED
    BY <1>6, <2>1, <2>2 DEF Worker
<1>7. CASE UNCHANGED vars
  BY <1>7, <1>t, FileUntouched DEF vars, fileVars
<1> QED
  BY <1>1, <1>2, <1>3, <1>4, <1>5, <1>6, <1>7 DEF Next, Stopping

Typed == TypeOK /\ Lasting

LEMMA TypedHolds == Spec => []Typed
<1>1. Init => Typed
  <2> SUFFICES ASSUME Init PROVE Typed
    OBVIOUS
  <2>1. FlagsOK
    BY Zenon DEF Init, FlagsOK
  <2>2. CallsOK /\ Lasting
    BY DEF Init, CallsOK, Lasting
  <2>3. DataOK
    BY DEF Init, DataOK, Empty
  <2> QED
    BY <2>1, <2>2, <2>3 DEF Typed, TypeOK
<1>2. Typed /\ [Next]_vars => Typed'
  BY RecorderConstants, FlagsNext, CallsNext, DataNext DEF Typed, TypeOK
<1> QED
  BY <1>1, <1>2, PTL DEF Spec

\* TypeOK is an invariant; above all, no duration that addSample() of
\* SrsMp4Muxer.java puts into the tables is negative.
THEOREM TypeCorrect == Spec => []TypeOK
<1>1. Typed => TypeOK
  BY DEF Typed
<1> QED
  BY <1>1, TypedHolds, PTL

-----------------------------------------------------------------------------
(* The end of the worker.                                                  *)

NullOnlyWhileStopping ==
  /\ wpc = "poll" /\ cache = <<>> => main = "join"
  /\ CrashOnlyWhileStopping

LEMMA NullNext == DataOK /\ NullOnlyWhileStopping /\ [Next]_vars => NullOnlyWhileStopping'
<1> SUFFICES ASSUME DataOK, NullOnlyWhileStopping, [Next]_vars PROVE NullOnlyWhileStopping'
  OBVIOUS
<1> USE DEF NullOnlyWhileStopping, CrashOnlyWhileStopping, callVars, flagVars, fileVars
<1>1. CASE UNCHANGED vars
  BY <1>1 DEF vars
<1>2. CASE Next
  <2>0. wpc # "crashed"
    BY <1>2 DEF Next
  <2>1. CASE Record \/ Pause \/ Resume \/ Stop
    BY <2>0, <2>1 DEF Record, Pause, Resume, Stop
  <2>2. CASE Stopping
    BY <2>0, <2>2 DEF Stopping, StopClear, StopJoin, StopFinish
  <2>3. CASE ParameterSets
    BY <2>0, <2>3 DEF ParameterSets
  <2>4. ASSUME NEW f, Sample(f) PROVE NullOnlyWhileStopping'
    BY <2>0, <2>4 DEF Sample
  <2>5. ASSUME NEW t, FindKeyFrame(t) PROVE NullOnlyWhileStopping'
    BY <2>0, <2>5 DEF FindKeyFrame
  <2>6. ASSUME NEW t \in Track, Add(t) PROVE NullOnlyWhileStopping'
    <3>0. cache \in Seq(Frame) /\ capture[t].frame \in Frame
      BY <2>6 DEF Add, DataOK, Idle
    <3>1. cache' # <<>>
      BY <2>6, <3>0 DEF Add
    <3> QED
      BY <2>0, <2>6, <3>1 DEF Add
  <2>7. CASE WorkerBegins \/ Loop \/ WaitEnds
    BY <2>0, <2>7 DEF WorkerBegins, Loop, WaitEnds
  <2>8. CASE Check \/ PollNull
    BY <2>0, <2>8 DEF Check, CacheIsEmpty, PollNull
  <2>9. CASE WriteSample
    BY <2>9, WriteSampleSplit
  <2> QED
    BY <1>2, <2>1, <2>2, <2>3, <2>4, <2>5, <2>6, <2>7, <2>8, <2>9 DEF Next, Capture, Worker
<1> QED
  BY <1>1, <1>2

\* The worker dereferences the null of frameCache.poll() only while stop() is
\* emptying the cache, never in a race with the capture threads.
THEOREM CrashesOnlyInStop == Spec => []CrashOnlyWhileStopping
<1>1. Init => NullOnlyWhileStopping
  BY DEF Init, NullOnlyWhileStopping, CrashOnlyWhileStopping
<1>2. TypeOK /\ NullOnlyWhileStopping /\ [Next]_vars => NullOnlyWhileStopping'
  BY NullNext DEF TypeOK
<1>3. NullOnlyWhileStopping => CrashOnlyWhileStopping
  BY DEF NullOnlyWhileStopping
<1> QED
  BY <1>1, <1>2, <1>3, TypeCorrect, PTL DEF Spec

-----------------------------------------------------------------------------
(* Where the samples are.                                                  *)

\* A movie is being recorded, or finished.
InMovie == wpc # "none" \/ main # "idle"

Inside(s) == s.offset >= mdatOffset + HeaderSize /\ s.offset + s.size <= recFileSize

AllInside == \A t \in Track : \A i \in DOMAIN samples[t] : Inside(samples[t][i])

NoneOverlap ==
  \A t, u \in Track : \A i \in DOMAIN samples[t], j \in DOMAIN samples[u] :
    <<t, i>> # <<u, j>> => ~Overlap(samples[t][i], samples[u][j])

\* What the next sample finds: everything before recFileSize.
Laid ==
  /\ main = "finish" => wpc = "none"
  /\ ~opened => samples = Empty
  /\ errors = 0 /\ InMovie =>
       /\ opened => mdatOffset + HeaderSize <= recFileSize
       /\ AllInside /\ NoneOverlap

LEMMA LaidUntouched ==
  ASSUME Laid, UNCHANGED <<errors, fileVars>>, InMovie' => InMovie,
         main' = "finish" => wpc' = "none"
  PROVE  Laid'
<1>1. UNCHANGED <<errors, samples, opened, mdatOffset, recFileSize>>
  BY DEF fileVars
<1>2. (AllInside /\ NoneOverlap) => (AllInside' /\ NoneOverlap')
  BY <1>1 DEF AllInside, NoneOverlap, Inside
<1> QED
  BY <1>1, <1>2 DEF Laid

LEMMA Behind == RecorderConstants =>
  \A start, next, size, end \in Nat :
    start + HeaderSize <= next /\ next + size <= end => start + HeaderSize <= end
  BY DEF RecorderConstants

LEMMA LaidWritten ==
  ASSUME RecorderConstants, TypeOK, Laid, errors = 0, errors' = 0, InMovie,
         main' = "finish" => wpc' = "none", NEW f \in Frame, Written(f)
  PROVE  Laid'
<1>n. /\ NextOffset \in Nat /\ f.size \in Nat \ {0} /\ f.track \in Track
      /\ HeaderSize \in Nat /\ recFileSize \in Nat /\ mdatOffset \in Nat
      /\ samples \in [Track -> Seq(Entry)] /\ Sizes \subseteq Nat
  BY OffsetsTyped DEF TypeOK, DataOK, Frame, Entry, RecorderConstants
<1>1. recFileSize' = NextOffset + f.size
  BY DEF Written, TypeOK, CallsOK
<1>o. opened' = TRUE
  BY DEF Written
<1>2. mdatOffset' \in Nat /\ mdatOffset' + HeaderSize <= NextOffset
  <2>1. CASE opened
    BY <1>n, <2>1 DEF Written, NextOffset, Laid
  <2>2. CASE ~opened
    BY <1>n, <2>2 DEF Written, NextOffset
  <2> QED
    BY <2>1, <2>2
\* A sample of the table is an old one, or the one that was written.
<1>3. ASSUME NEW t \in Track, NEW i \in DOMAIN samples[t]
      PROVE  /\ samples[t][i].offset \in Nat /\ samples[t][i].size \in Nat
             /\ samples[t][i].offset >= mdatOffset' + HeaderSize
             /\ samples[t][i].offset + samples[t][i].size <= NextOffset
  <2>1. opened
    BY <1>3 DEF Laid, Empty
  <2>2. Inside(samples[t][i]) /\ mdatOffset' = mdatOffset /\ NextOffset = recFileSize
    BY <2>1 DEF Laid, AllInside, Written, NextOffset
  <2>3. samples[t][i] \in Entry
    BY <1>n
  <2> QED
    BY <1>n, <2>2, <2>3 DEF Inside, Entry
<1>4. \A t \in Track : \A i \in DOMAIN samples'[t] :
        \/ i \in DOMAIN samples[t] /\ samples'[t][i] = samples[t][i]
        \/ /\ t = f.track /\ i = Len(samples[t]) + 1
           /\ samples'[t][i].offset = NextOffset /\ samples'[t][i].size = f.size
  <2>1. CASE Older(f)
    BY <2>1 DEF Written, AddSample
  <2>2. CASE ~Older(f)
    <3> DEFINE e == [offset |-> NextOffset, size |-> f.size, pts |-> f.pts, key |-> f.key,
                     born |-> f.born]
    <3>1. samples' = [samples EXCEPT ![f.track] = Append(samples[f.track], e)]
      BY <2>2 DEF Written, AddSample
    <3>2. e.offset = NextOffset /\ e.size = f.size
      OBVIOUS
    <3> HIDE DEF e
    <3> QED
      BY <1>n, <3>1, <3>2
  <2> QED
    BY <2>1, <2>2
<1>s. f.size \in Nat /\ NextOffset \in Nat /\ HeaderSize \in Nat
  BY <1>n
<1>r. recFileSize' \in Nat /\ NextOffset + f.size <= recFileSize'
  <2>1. NextOffset + f.size \in Nat
    BY <1>s
  <2> QED
    BY <1>1, <2>1
<1>5. AllInside'
  <2> SUFFICES ASSUME NEW t \in Track, NEW i \in DOMAIN samples'[t]
               PROVE  Inside(samples[t][i])'
    BY DEF AllInside
  <2>1. CASE i \in DOMAIN samples[t] /\ samples'[t][i] = samples[t][i]
    BY <1>s, <1>r, <1>3, <2>1 DEF Inside
  <2>2. CASE samples'[t][i].offset = NextOffset /\ samples'[t][i].size = f.size
    BY <1>s, <1>r, <1>2, <2>2 DEF Inside
  <2> QED
    BY <1>4, <2>1, <2>2
<1>6. NoneOverlap'
  <2> SUFFICES ASSUME NEW t \in Track, NEW u \in Track,
                      NEW i \in DOMAIN samples'[t], NEW j \in DOMAIN samples'[u],
                      <<t, i>> # <<u, j>>
               PROVE  ~Overlap(samples'[t][i], samples'[u][j])
    BY DEF NoneOverlap
  <2>1. CASE i \in DOMAIN samples[t] /\ samples'[t][i] = samples[t][i]
    <3>1. CASE j \in DOMAIN samples[u] /\ samples'[u][j] = samples[u][j]
      BY <2>1, <3>1 DEF Laid, NoneOverlap
    <3>2. CASE samples'[u][j].offset = NextOffset /\ samples'[u][j].size = f.size
      BY <1>n, <1>3, <2>1, <3>2 DEF Overlap
    <3> QED
      BY <1>4, <3>1, <3>2
  <2>2. CASE /\ t = f.track /\ i = Len(samples[t]) + 1
             /\ samples'[t][i].offset = NextOffset /\ samples'[t][i].size = f.size
    <3>1. j \in DOMAIN samples[u] /\ samples'[u][j] = samples[u][j]
      BY <1>4, <2>2
    <3> QED
      BY <1>n, <1>3, <2>2, <3>1 DEF Overlap
  <2> QED
    BY <1>4, <2>1, <2>2
<1>7. mdatOffset' + HeaderSize <= recFileSize'
  BY <1>s, <1>r, <1>2, Behind, Zenon
<1> QED
  BY <1>o, <1>5, <1>6, <1>7 DEF Laid

LEMMA LaidNext == RecorderConstants /\ TypeOK /\ Laid /\ [Next]_vars => Laid'
<1> SUFFICES ASSUME RecorderConstants, TypeOK, Laid, [Next]_vars PROVE Laid'
  OBVIOUS
<1> USE DEF callVars, flagVars
<1>1. CASE Record
  <2>1. samples' = Empty /\ ~opened' /\ main' # "finish"
    BY <1>1 DEF Record
  <2>2. AllInside' /\ NoneOverlap'
    BY <2>1 DEF Empty, AllInside, NoneOverlap
  <2> QED
    BY <2>1, <2>2 DEF Laid
<1>2. CASE Pause \/ Resume \/ Stop
  BY <1>2, LaidUntouched DEF Pause, Resume, Stop, InMovie, Laid
<1>3. CASE StopClear \/ StopJoin
  <2>1. UNCHANGED <<errors, fileVars>> /\ InMovie /\ (main' = "finish" => wpc' = "none")
    BY <1>3 DEF StopClear, StopJoin, InMovie
  <2> QED
    BY <2>1, LaidUntouched
<1>4. CASE StopFinish
  <2>1. CASE errors' = 0
    <3>1. ~InMovie' /\ main' = "idle" /\ UNCHANGED <<opened, samples>>
      BY <1>4 DEF StopFinish, InMovie, Laid
    <3> QED
      BY <3>1 DEF Laid
  <2>2. CASE errors' # 0
    BY <1>4, <2>2 DEF StopFinish, Laid
  <2> QED
    BY <2>1, <2>2
<1>5. CASE Capture
  <2>1. UNCHANGED <<errors, fileVars, main>> /\ (wpc' # "none" <=> wpc # "none")
    <3>1. CASE ParameterSets
      BY <3>1 DEF ParameterSets
    <3>2. ASSUME NEW f, Sample(f) PROVE UNCHANGED <<errors, fileVars, main, wpc>>
      BY <3>2 DEF Sample
    <3>3. ASSUME NEW t, FindKeyFrame(t) PROVE UNCHANGED <<errors, fileVars, main, wpc>>
      BY <3>3 DEF FindKeyFrame
    <3>4. ASSUME NEW t, Add(t)
          PROVE  UNCHANGED <<errors, fileVars, main>> /\ (wpc' # "none" <=> wpc # "none")
      BY <3>4 DEF Add
    <3> QED
      BY <1>5, <3>1, <3>2, <3>3, <3>4 DEF Capture
  <2> QED
    BY <2>1, LaidUntouched DEF InMovie, Laid
<1>6. CASE Worker
  <2>1. CASE WorkerBegins \/ Loop \/ Check \/ PollNull \/ WaitEnds
    BY <2>1, LaidUntouched DEF WorkerBegins, Loop, Check, PollNull, WaitEnds, InMovie, Laid
  <2>2. CASE WriteSample
    <3> DEFINE f == Head(cache)
    <3>1. f \in Frame /\ InMovie
      BY <2>2, WriteSampleSplit DEF TypeOK, DataOK, InMovie
    <3>2. CASE UNCHANGED <<errors, fileVars>>
      BY <2>2, <3>1, <3>2, LaidUntouched, WriteSampleSplit DEF Laid, InMovie
    <3>3. CASE Written(f)
      <4> HIDE DEF f
      <4>0. main' = "finish" => wpc' = "none"
        BY <2>2, WriteSampleSplit DEF Laid
      <4>1. errors \in Nat /\ (errors' = errors \/ errors' = errors + 1) /\ opened' = TRUE
        BY <3>3 DEF Written, TypeOK, CallsOK
      <4>2. CASE errors' = 0
        BY <3>1, <3>3, <4>0, <4>1, <4>2, LaidWritten
      <4>3. CASE errors' # 0
        BY <4>0, <4>1, <4>3 DEF Laid
      <4> QED
        BY <4>2, <4>3
    <3> QED
      BY <2>2, <3>2, <3>3, WriteSampleSplit
  <2> QED
    BY <1>6, <2>1, <2>2 DEF Worker
<1>7. CASE UNCHANGED vars
  BY <1>7, LaidUntouched DEF vars, InMovie, Laid
<1> QED
  BY <1>1, <1>2, <1>3, <1>4, <1>5, <1>6, <1>7 DEF Next, Stopping

\* As long as the file system reports nothing, the samples of a movie of any
\* length lie between its header and its end, and share no byte: what
\* writeSampleData() of SrsMp4Muxer.java adds to recFileSize, for samples that
\* the tables leave out as well, is where the next one goes.
THEOREM SamplesLieApart == Spec => []SamplesApart
<1>1. Init => Laid
  BY DEF Init, Laid, InMovie
<1>2. TypeOK /\ Laid /\ [Next]_vars => Laid'
  BY RecorderConstants, LaidNext
<1>3. Laid => SamplesApart
  BY DEF Laid, InMovie, AllInside, NoneOverlap, Inside, SamplesApart
<1> QED
  BY <1>1, <1>2, <1>3, TypeCorrect, PTL DEF Spec

-----------------------------------------------------------------------------
(* Whose the samples are.                                                  *)

\* Nothing can be on its way to the cache.
Quiet == wpc = "none" \/ wpc = "start" \/ main # "idle"

\* While nobody records, no sample is on its way, and the next one must be a
\* key frame; and no movie begins or ends with samples in the cache.
Timely ==
  /\ ~bRecording => \A t \in Track : capture[t] = Idle
  /\ Quiet => ~bRecording /\ needKey
  /\ main # "idle" => wpc # "start"
  /\ main = "finish" => wpc = "none"
  /\ wpc = "none" \/ wpc = "start" \/ main = "join" => cache = <<>>

AllOwn ==
  /\ \A i \in DOMAIN cache : cache[i].born = records
  /\ \A t \in Track :
       capture[t] # Idle => capture[t].frame.born = records /\ capture[t].frame.track = t
  /\ capture["audio"] # Idle => ~capture["audio"].frame.key
  /\ wpc # "none" => \A t \in Track : \A i \in DOMAIN samples[t] : samples[t][i].born = records

FirstVideo(i) ==
  /\ i \in DOMAIN cache /\ cache[i].track = "video"
  /\ \A j \in 1..(i - 1) : cache[j].track # "video"

NoVideo == \A i \in DOMAIN cache : cache[i].track # "video"

\* Until a movie has video, the next video to come is a key frame.
KeyComes ==
  /\ \A i \in DOMAIN cache : FirstVideo(i) => cache[i].key
  /\ NoVideo => IF capture["video"].at = "add" THEN capture["video"].frame.key ELSE needKey

KeyFirst ==
  /\ samples["video"] # <<>> => samples["video"][1].key
  /\ wpc # "none" /\ "video" \in tracks /\ samples["video"] = <<>> => KeyComes

OwnInv == ~untimely => Timely /\ AllOwn /\ KeyFirst

LEMMA TimelyNext ==
  ASSUME FlagsOK, Timely, ~untimely', [Next]_vars
  PROVE  Timely'
<1> USE DEF Timely, Quiet, callVars, flagVars
<1>1. CASE Record \/ Pause \/ Resume
  BY <1>1 DEF Record, Pause, Resume, FlagsOK
<1>2. CASE Stop
  <2>1. wpc # "start" /\ \A t \in Track : capture[t] = Idle
    BY <1>2 DEF Stop
  <2> QED
    BY <1>2, <2>1 DEF Stop, FlagAfterStop
<1>3. CASE Stopping
  BY <1>3 DEF Stopping, StopClear, ClearedCache, StopJoin, StopFinish
<1>4. CASE Capture
  <2>1. CASE ParameterSets
    BY <2>1 DEF ParameterSets
  <2>2. ASSUME NEW f, Sample(f) PROVE Timely'
    BY <2>2 DEF Sample
  <2>3. ASSUME NEW t \in Track, FindKeyFrame(t) PROVE Timely'
    <3>1. bRecording
      BY <2>3 DEF FindKeyFrame, Idle
    <3> QED
      BY <2>3, <3>1 DEF FindKeyFrame
  <2>4. ASSUME NEW t \in Track, Add(t) PROVE Timely'
    <3>1. bRecording
      BY <2>4 DEF Add, Idle
    <3> QED
      BY <2>4, <3>1 DEF Add
  <2> QED
    BY <1>4, <2>1, <2>2, <2>3, <2>4 DEF Capture
<1>5. CASE Worker
  <2>1. CASE WorkerBegins
    BY <2>1 DEF WorkerBegins
  <2>2. CASE Loop \/ Check \/ PollNull \/ WaitEnds
    BY <2>2 DEF Loop, Check, PollNull, WaitEnds
  <2>3. CASE WriteSample
    BY <2>3, WriteSampleSplit
  <2> QED
    BY <1>5, <2>1, <2>2, <2>3 DEF Worker
<1>6. CASE UNCHANGED vars
  BY <1>6 DEF vars
<1> QED
  BY <1>1, <1>2, <1>3, <1>4, <1>5, <1>6 DEF Next

LEMMA SamplesUntouched ==
  ASSUME AllOwn, KeyFirst, UNCHANGED <<records, cache, capture, tracks, samples>>,
         needKey => needKey', wpc' # "none" => wpc # "none"
  PROVE  AllOwn' /\ KeyFirst'
<1>1. AllOwn'
  BY DEF AllOwn
<1>2. KeyComes => KeyComes'
  BY DEF KeyComes, FirstVideo, NoVideo
<1> QED
  BY <1>1, <1>2 DEF KeyFirst

\* What writeSampleData() adds to the tables of a track.
LEMMA SampleAdded ==
  ASSUME RecorderConstants, DataOK, NEW f \in Frame, AddSample(f, NextOffset)
  PROVE  /\ \A t \in Track : \A i \in DOMAIN samples'[t] :
              \/ i \in DOMAIN samples[t] /\ samples'[t][i] = samples[t][i]
              \/ /\ t = f.track /\ i = Len(samples[t]) + 1
                 /\ samples'[t][i].key = f.key /\ samples'[t][i].born = f.born
         /\ \A t \in Track : t # f.track => samples'[t] = samples[t]
         /\ samples[f.track] = <<>> => samples'[f.track] # <<>>
<1>0. f.track \in Track /\ f.pts \in Nat /\ samples \in [Track -> Seq(Entry)]
  <2>1. f.pts \in 0..MaxPts /\ f.track \in Track
    BY DEF Frame
  <2>2. samples \in [Track -> Seq(Entry)]
    BY DEF DataOK, Entry
  <2> QED
    BY <2>1, <2>2
<1>1. CASE Older(f)
  <2>1. LastPts(f.track) \in Nat /\ (samples[f.track] = <<>> => LastPts(f.track) = 0)
    BY <1>0, LastPtsTyped DEF LastPts
  <2>2. samples[f.track] # <<>>
    BY <1>0, <1>1, <2>1 DEF Older
  <2> QED
    BY <1>0, <1>1, <2>2 DEF AddSample
<1>2. CASE ~Older(f)
  <2> DEFINE e == [offset |-> NextOffset, size |-> f.size, pts |-> f.pts, key |-> f.key,
                   born |-> f.born]
  <2>1. samples' = [samples EXCEPT ![f.track] = Append(samples[f.track], e)]
    BY <1>2 DEF AddSample
  <2>2. e.key = f.key /\ e.born = f.born
    OBVIOUS
  <2> HIDE DEF e
  <2>3. /\ samples'[f.track] = Append(samples[f.track], e)
        /\ \A t \in Track : t # f.track => samples'[t] = samples[t]
    BY <1>0, <2>1
  <2>4. samples[f.track] \in Seq(Entry)
    BY <1>0
  <2>5. samples'[f.track] # <<>>
    BY <2>3, <2>4
  <2>6. \A i \in DOMAIN samples'[f.track] :
          \/ i \in DOMAIN samples[f.track] /\ samples'[f.track][i] = samples[f.track][i]
          \/ i = Len(samples[f.track]) + 1 /\ samples'[f.track][i] = e
    BY <2>3, <2>4
  <2> QED
    BY <2>2, <2>3, <2>5, <2>6
<1> QED
  BY <1>1, <1>2

LEMMA OwnNext ==
  ASSUME RecorderConstants, TypeOK, Timely, AllOwn, KeyFirst, ~untimely', [Next]_vars
  PROVE  AllOwn' /\ KeyFirst'
<1>t. /\ cache \in Seq(Frame) /\ needKey \in BOOLEAN
      /\ capture \in [Track -> {Idle} \cup [at : {"key", "add"}, frame : Frame]]
      /\ samples \in [Track -> Seq(Entry)] /\ {"video", "audio"} = Track
  BY DEF TypeOK, DataOK, FlagsOK, Entry, Track
<1>1. CASE Record
  <2>1. cache = <<>> /\ needKey /\ \A t \in Track : capture[t] = Idle
    BY <1>1 DEF Record, Timely, Quiet
  <2>2. cache' = <<>> /\ needKey' /\ capture' = capture /\ samples' = Empty
    BY <1>1, <2>1 DEF Record, flagVars
  <2>3. AllOwn'
    BY <1>t, <2>1, <2>2 DEF AllOwn, Empty
  <2>4. KeyFirst'
    <3>1. samples'["video"] = <<>> /\ capture'["video"].at # "add"
      BY <1>t, <2>1, <2>2 DEF Empty, Idle
    <3> QED
      BY <2>2, <3>1 DEF KeyFirst, KeyComes, FirstVideo, NoVideo
  <2> QED
    BY <2>3, <2>4
<1>2. CASE Pause \/ Resume \/ Stop \/ StopJoin
  <2>1. UNCHANGED <<records, cache, capture, tracks, samples>>
    BY <1>2, Zenon DEF Pause, Resume, Stop, StopJoin, callVars, fileVars
  <2>2. needKey => needKey'
    BY <1>2, Zenon DEF Pause, Resume, Stop, StopJoin, FlagAfterStop, flagVars
  <2>3. wpc' # "none" => wpc # "none"
    BY <1>2 DEF Pause, Resume, Stop, StopJoin
  <2> QED
    BY <2>1, <2>2, <2>3, SamplesUntouched, Zenon
<1>3. CASE StopClear
  <2>1. needKey /\ \A t \in Track : capture[t] = Idle
    BY <1>3 DEF StopClear, Timely, Quiet
  <2>2. /\ cache' = <<>> /\ UNCHANGED <<records, capture, tracks, samples>>
        /\ needKey' /\ wpc' = wpc
    BY <1>3, <2>1 DEF StopClear, ClearedCache, callVars, flagVars, fileVars
  <2>3. AllOwn'
    BY <2>2 DEF AllOwn
  <2>4. KeyComes'
    BY <1>t, <2>1, <2>2 DEF KeyComes, FirstVideo, NoVideo, Idle
  <2> QED
    BY <2>2, <2>3, <2>4 DEF KeyFirst
<1>4. CASE StopFinish
  <2>1. wpc = "none" /\ wpc' = "none" /\ UNCHANGED <<records, cache, capture, samples>>
    BY <1>4 DEF StopFinish, Timely
  <2> QED
    BY <2>1 DEF AllOwn, KeyFirst
<1>5. CASE Capture
  <2>1. CASE ParameterSets
    <3>1. UNCHANGED <<records, cache, capture, tracks, samples, needKey, wpc>>
      BY <2>1 DEF ParameterSets, callVars, flagVars, fileVars
    <3> QED
      BY <3>1, SamplesUntouched
  <2>2. ASSUME NEW f \in Frame, f.born = records, f.track = "audio" => ~f.key, Sample(f)
        PROVE  AllOwn' /\ KeyFirst'
    <3>1. /\ UNCHANGED <<records, cache, tracks, samples, needKey, wpc>>
          /\ capture[f.track] = Idle
          /\ capture' = capture \/ capture' = [capture EXCEPT ![f.track] = At("key", f)]
      BY <2>2 DEF Sample, fileVars
    <3>2. /\ f.track \in Track /\ At("key", f).frame = f /\ At("key", f).at = "key"
          /\ At("key", f) # Idle /\ Idle.at = "idle"
      BY DEF Frame, At, Idle
    <3>3. \A t \in Track : \/ capture'[t] = capture[t]
                           \/ t = f.track /\ capture'[t] = At("key", f)
      <4>1. CASE capture' = capture
        BY <4>1
      <4>2. CASE capture' = [capture EXCEPT ![f.track] = At("key", f)]
        BY <1>t, <3>2, <4>2, Zenon
      <4> QED
        BY <3>1, <4>1, <4>2
    <3>4. AllOwn'
      BY <1>t, <2>2, <3>1, <3>2, <3>3 DEF AllOwn
    <3>5. KeyComes => KeyComes'
      <4>1. NoVideo' <=> NoVideo
        BY <3>1 DEF NoVideo
      <4>2. \/ capture'["video"] = capture["video"]
            \/ capture["video"].at = "idle" /\ capture'["video"].at = "key"
        BY <1>t, <3>1, <3>2, <3>3
      <4> QED
        BY <3>1, <4>1, <4>2 DEF KeyComes, FirstVideo
    <3> QED
      BY <3>1, <3>4, <3>5 DEF KeyFirst
  <2>3. ASSUME NEW t \in Track, FindKeyFrame(t) PROVE AllOwn' /\ KeyFirst'
    <3> DEFINE f == capture[t].frame
    <3>1. capture[t] # Idle /\ f.born = records /\ f.track = t /\ (t = "audio" => ~f.key)
      BY <2>3 DEF FindKeyFrame, Idle, AllOwn
    <3>2. /\ UNCHANGED <<records, cache, tracks, samples, wpc>>
          /\ \/ capture' = [capture EXCEPT ![t] = Idle] /\ needKey' = needKey
             \/ /\ capture' = [capture EXCEPT ![t] = At("add", f)] /\ (needKey => f.key)
                /\ needKey' = FALSE
      BY <2>3 DEF FindKeyFrame, callVars, fileVars
    <3>3. /\ At("add", f).frame = f /\ At("add", f).at = "add" /\ At("add", f) # Idle
          /\ Idle.at = "idle"
      BY DEF At, Idle
    <3> HIDE DEF f
    <3>4. \A u \in Track : capture'[u] = (IF u = t THEN capture'[t] ELSE capture[u])
      BY <1>t, <3>2
    <3>5. \/ capture'[t] = Idle /\ needKey' = needKey
          \/ capture'[t] = At("add", f) /\ (needKey => f.key) /\ needKey' = FALSE
      <4>1. CASE capture' = [capture EXCEPT ![t] = Idle] /\ needKey' = needKey
        BY <1>t, <4>1, Zenon
      <4>2. CASE /\ capture' = [capture EXCEPT ![t] = At("add", f)] /\ (needKey => f.key)
                 /\ needKey' = FALSE
        BY <1>t, <4>2, Zenon
      <4> QED
        BY <3>2, <4>1, <4>2, Zenon
    <3>6. AllOwn'
      <4>1. \A u \in Track :
              capture'[u] # Idle => capture[u] # Idle /\ capture'[u].frame = capture[u].frame
        BY <3>1, <3>3, <3>4, <3>5, Zenon DEF f
      <4> QED
        BY <1>t, <3>2, <4>1 DEF AllOwn
    <3>7. KeyComes => KeyComes'
      <4>1. (NoVideo' <=> NoVideo) /\ \A i \in DOMAIN cache : FirstVideo(i)' <=> FirstVideo(i)
        BY <3>2 DEF NoVideo, FirstVideo
      <4>2. CASE t = "video"
        <5>1. capture["video"].at = "key"
          BY <2>3, <4>2 DEF FindKeyFrame
        <5>2. KeyComes /\ NoVideo => needKey
          BY <5>1 DEF KeyComes
        <5>3. KeyComes /\ NoVideo =>
                IF capture'["video"].at = "add" THEN capture'["video"].frame.key ELSE needKey'
          <6>1. CASE capture'[t] = Idle /\ needKey' = needKey
            BY <3>3, <4>2, <5>2, <6>1
          <6>2. CASE capture'[t] = At("add", f) /\ (needKey => f.key)
            BY <3>3, <4>2, <5>2, <6>2
          <6> QED
            BY <3>5, <6>1, <6>2
        <5> QED
          BY <3>2, <4>1, <5>3 DEF KeyComes
      <4>3. CASE t # "video"
        <5>1. capture'["video"] = capture["video"]
          BY <1>t, <3>4, <4>3
        <5>2. needKey => needKey'
          BY <1>t, <3>1, <3>5, <4>3
        <5> QED
          BY <3>2, <4>1, <5>1, <5>2 DEF KeyComes
      <4> QED
        BY <4>2, <4>3
    <3> QED
      BY <3>2, <3>6, <3>7 DEF KeyFirst
  <2>4. ASSUME NEW t \in Track, Add(t) PROVE AllOwn' /\ KeyFirst'
    <3> DEFINE f == capture[t].frame
    <3>1. /\ capture[t] # Idle /\ f \in Frame /\ f.born = records /\ f.track = t
      BY <1>t, <2>4 DEF Add, Idle, AllOwn
    <3>2. /\ UNCHANGED <<records, tracks, samples, needKey>> /\ (wpc' # "none" => wpc # "none")
          /\ cache' = Append(cache, f) /\ capture' = [capture EXCEPT ![t] = Idle]
      BY <2>4 DEF Add, callVars, flagVars, fileVars
    <3>3. capture[t].at = "add"
      BY <2>4 DEF Add
    <3> HIDE DEF f
    <3>4. \A u \in Track : capture'[u] = (IF u = t THEN Idle ELSE capture[u])
      BY <1>t, <3>2
    <3>5. /\ Len(cache') = Len(cache) + 1 /\ cache'[Len(cache) + 1] = f
          /\ \A i \in DOMAIN cache : i \in DOMAIN cache' /\ cache'[i] = cache[i]
          /\ \A i \in DOMAIN cache' : i \in DOMAIN cache \/ i = Len(cache) + 1
          /\ DOMAIN cache = 1..Len(cache) /\ Len(cache) \in Nat
      BY <1>t, <3>1, <3>2
    <3>6. AllOwn'
      BY <1>t, <3>1, <3>2, <3>4, <3>5 DEF AllOwn
    <3>7. KeyComes => KeyComes'
      <4> SUFFICES ASSUME KeyComes PROVE KeyComes'
        OBVIOUS
      <4>1. \A i \in DOMAIN cache : FirstVideo(i)' => FirstVideo(i)
        BY <3>5 DEF FirstVideo
      <4>2. NoVideo' => NoVideo /\ f.track # "video"
        BY <3>5 DEF NoVideo
      <4>3. ASSUME NEW i \in DOMAIN cache', i = Len(cache) + 1, FirstVideo(i)'
            PROVE  NoVideo /\ f.track = "video"
        BY <3>5, <4>3 DEF NoVideo, FirstVideo
      <4>4. NoVideo /\ f.track = "video" => f.key
        BY <3>1, <3>3 DEF KeyComes, f
      <4>5. \A i \in DOMAIN cache' : FirstVideo(i)' => cache'[i].key
        <5>1. ASSUME NEW i \in DOMAIN cache, FirstVideo(i)' PROVE cache'[i].key
          BY <3>5, <4>1, <5>1 DEF KeyComes
        <5>2. ASSUME NEW i \in DOMAIN cache', FirstVideo(i)' PROVE cache'[i].key
          <6>1. CASE i \in DOMAIN cache
            BY <5>1, <5>2, <6>1
          <6>2. CASE i = Len(cache) + 1
            BY <3>5, <4>3, <4>4, <5>2, <6>2
          <6> QED
            BY <3>5, <6>1, <6>2
        <5> QED
          BY <5>2
      <4>6. NoVideo' =>
              IF capture'["video"].at = "add" THEN capture'["video"].frame.key ELSE needKey'
        BY <1>t, <3>1, <3>2, <3>4, <4>2 DEF KeyComes
      <4> QED
        BY <4>5, <4>6 DEF KeyComes
    <3> QED
      BY <3>2, <3>6, <3>7 DEF KeyFirst
  <2>5. ASSUME NEW t \in Track, NEW key \in BOOLEAN, NEW pts \in 0..MaxPts, NEW size \in Sizes,
               t = "audio" => ~key
        PROVE  LET f == [track |-> t, key |-> key, pts |-> pts, size |-> size, born |-> records]
               IN  f \in Frame /\ f.born = records /\ (f.track = "audio" => ~f.key)
    BY <2>5 DEF Frame, TypeOK, CallsOK
  <2> QED
    BY <1>5, <2>1, <2>2, <2>3, <2>4, <2>5 DEF Capture
<1>6. CASE Worker
  <2>1. CASE WorkerBegins \/ Loop \/ Check \/ PollNull \/ WaitEnds
    <3>1. UNCHANGED <<records, cache, capture, tracks, samples>>
      BY <2>1, Zenon DEF WorkerBegins, Loop, Check, PollNull, WaitEnds, callVars, fileVars
    <3>2. needKey' = needKey
      BY <2>1, Zenon DEF WorkerBegins, Loop, Check, PollNull, WaitEnds, flagVars
    <3>3. wpc' # "none" => wpc # "none"
      BY <2>1 DEF WorkerBegins, Loop, Check, PollNull, WaitEnds
    <3> QED
      BY <3>1, <3>2, <3>3, SamplesUntouched, Zenon
  <2>2. CASE WriteSample
    <3> DEFINE f == Head(cache)
    <3>1. /\ wpc # "none" /\ cache # <<>> /\ f \in Frame /\ cache' = Tail(cache)
          /\ UNCHANGED <<records, needKey, capture>>
          /\ tracks' = tracks
      <4>1. f \in Frame
        BY <1>t, <2>2, WriteSampleSplit
      <4> HIDE DEF f
      <4>2. UNCHANGED <<records, needKey, capture>> /\ tracks' = tracks
        BY <2>2, Zenon DEF WriteSample, flagVars, fileVars
      <4>3. wpc # "none" /\ cache # <<>> /\ cache' = Tail(cache)
        BY <2>2, WriteSampleSplit
      <4> QED
        BY <4>1, <4>2, <4>3
    <3>2. \/ f.track \notin tracks /\ samples' = samples
          \/ f.track \in tracks /\ AddSample(f, NextOffset)
      BY <2>2, WriteSampleSplit DEF fileVars, Written
    <3>3. f = cache[1] /\ f.born = records
      BY <1>t, <3>1 DEF AllOwn
    <3> HIDE DEF f
    <3>4. /\ DOMAIN cache = 1..Len(cache) /\ DOMAIN cache' = 1..(Len(cache) - 1)
          /\ Len(cache) \in Nat /\ 1 \in DOMAIN cache
          /\ \A i \in DOMAIN cache' : i + 1 \in DOMAIN cache /\ cache'[i] = cache[i + 1]
      BY <1>t, <3>1
    <3>5. \A t \in Track : \A i \in DOMAIN samples'[t] :
            \/ i \in DOMAIN samples[t] /\ samples'[t][i] = samples[t][i]
            \/ /\ t = f.track /\ i = Len(samples[t]) + 1
               /\ samples'[t][i].key = f.key /\ samples'[t][i].born = f.born
      BY <3>1, <3>2, SampleAdded DEF TypeOK
    <3>6. AllOwn'
      <4>1. \A i \in DOMAIN cache' : cache'[i].born = records'
        BY <3>1, <3>4 DEF AllOwn
      <4>2. \A t \in Track : \A i \in DOMAIN samples'[t] : samples'[t][i].born = records'
        <5>1. ASSUME NEW t \in Track, NEW i \in DOMAIN samples'[t]
              PROVE  samples'[t][i].born = records
          <6>1. CASE i \in DOMAIN samples[t] /\ samples'[t][i] = samples[t][i]
            BY <3>1, <6>1 DEF AllOwn
          <6>2. CASE samples'[t][i].born = f.born
            BY <3>3, <6>2
          <6> QED
            BY <3>5, <6>1, <6>2
        <5> QED
          BY <3>1, <5>1
      <4> QED
        <5>1. UNCHANGED <<records, capture>>
          BY <3>1
        <5> QED
          BY <4>1, <4>2, <5>1 DEF AllOwn
    <3>7. CASE samples["video"] # <<>>
      <4>1. samples'["video"] # <<>> /\ samples'["video"][1] = samples["video"][1]
        <5>1. samples["video"] \in Seq(Entry) /\ 1 \in DOMAIN samples["video"]
          BY <1>t, <3>7
        <5>2. samples'["video"] = samples["video"] \/
              \E e : samples'["video"] = Append(samples["video"], e)
          <6>1. CASE samples' = samples
            BY <6>1
          <6>2. CASE AddSample(f, NextOffset) /\ samples' # samples
            <7> DEFINE e == [offset |-> NextOffset, size |-> f.size, pts |-> f.pts,
                             key |-> f.key, born |-> f.born]
            <7>1. samples' = [samples EXCEPT ![f.track] = Append(samples[f.track], e)]
              BY <6>2 DEF AddSample
            <7> HIDE DEF e
            <7> QED
              BY <1>t, <7>1
          <6> QED
            BY <3>2, <6>1, <6>2
        <5> QED
          BY <5>1, <5>2
      <4> QED
        BY <3>6, <3>7, <4>1 DEF KeyFirst
    <3>8. CASE samples["video"] = <<>> /\ "video" \notin tracks
      <4>1. samples'["video"] = <<>>
        BY <1>t, <3>1, <3>2, <3>8, SampleAdded DEF TypeOK
      <4> QED
        BY <3>1, <3>6, <3>8, <4>1 DEF KeyFirst
    <3>9. CASE samples["video"] = <<>> /\ "video" \in tracks
      <4>k. KeyComes
        BY <3>1, <3>9 DEF KeyFirst
      <4>1. CASE f.track = "video"
        <5>1. f.key
          BY <3>3, <3>4, <4>k, <4>1 DEF KeyComes, FirstVideo
        <5>2. samples'["video"] # <<>>
          BY <1>t, <3>1, <3>2, <3>9, <4>1, SampleAdded DEF TypeOK
        <5>3. samples'["video"][1].key
          <6>2. 1 \in DOMAIN samples'["video"]
            <7>1. \E e : samples'["video"] = Append(<<>>, e) \/ samples'["video"] = <<>>
              BY <1>t, <3>2, <3>9, <4>1 DEF AddSample
            <7> QED
              BY <5>2, <7>1
          <6>3. 1 \notin DOMAIN samples["video"]
            BY <3>9
          <6> QED
            BY <1>t, <3>5, <5>1, <6>2, <6>3
        <5> QED
          BY <3>6, <5>2, <5>3 DEF KeyFirst
      <4>2. CASE f.track # "video"
        <5>1. samples'["video"] = <<>>
          BY <1>t, <3>1, <3>2, <3>9, <4>2, SampleAdded DEF TypeOK
        <5>2. \A i \in DOMAIN cache' : FirstVideo(i)' => FirstVideo(i + 1)
          <6> SUFFICES ASSUME NEW i \in DOMAIN cache', FirstVideo(i)'
                       PROVE  FirstVideo(i + 1)
            OBVIOUS
          <6>1. i + 1 \in DOMAIN cache /\ cache[i + 1].track = "video"
            BY <3>4 DEF FirstVideo
          <6>2. ASSUME NEW j \in 1..((i + 1) - 1) PROVE cache[j].track # "video"
            <7>1. CASE j = 1
              BY <3>3, <4>2, <7>1
            <7>2. CASE j # 1
              <8>1. j - 1 \in 1..(i - 1) /\ j - 1 \in DOMAIN cache' /\ (j - 1) + 1 = j
                BY <3>4, <7>2
              <8> QED
                BY <3>4, <8>1 DEF FirstVideo
            <7> QED
              BY <7>1, <7>2
          <6> QED
            BY <6>1, <6>2 DEF FirstVideo
        <5>3. NoVideo' => NoVideo
          <6> SUFFICES ASSUME NoVideo', NEW j \in DOMAIN cache PROVE cache[j].track # "video"
            BY DEF NoVideo
          <6>1. CASE j = 1
            BY <3>3, <4>2, <6>1
          <6>2. CASE j # 1
            <7>1. j - 1 \in DOMAIN cache' /\ (j - 1) + 1 = j
              BY <3>4, <6>2
            <7> QED
              BY <3>4, <7>1 DEF NoVideo
          <6> QED
            BY <6>1, <6>2
        <5>4. \A i \in DOMAIN cache' : FirstVideo(i)' => cache'[i].key
          BY <3>4, <4>k, <5>2 DEF KeyComes
        <5>5. KeyComes'
          BY <3>1, <4>k, <5>3, <5>4 DEF KeyComes
        <5> QED
          BY <3>6, <5>1, <5>5 DEF KeyFirst
      <4> QED
        BY <4>1, <4>2
    <3> QED
      BY <3>7, <3>8, <3>9
  <2> QED
    BY <1>6, <2>1, <2>2 DEF Worker
<1>7. CASE UNCHANGED vars
  <2>1. UNCHANGED <<records, cache, capture, tracks, samples, needKey, wpc>>
    BY <1>7 DEF vars, callVars, flagVars, fileVars
  <2> QED
    BY <2>1, SamplesUntouched
<1> QED
  BY <1>1, <1>2, <1>3, <1>4, <1>5, <1>6, <1>7 DEF Next, Stopping

\* A movie has only samples that were captured while it was recorded, and its
\* video begins with a key frame, unless a stop() was untimely: what stop() of
\* SrsMp4Muxer.java resets, and in which order, is enough for the next record().
THEOREM OwnSamplesOnly == Spec => []OwnSamples
<1>1. Init => OwnInv
  BY DEF Init, OwnInv, Timely, Quiet, AllOwn, KeyFirst, Empty, Track
<1>2. TypeOK /\ OwnInv /\ [Next]_vars => OwnInv'
  <2> SUFFICES ASSUME TypeOK, OwnInv, [Next]_vars, ~untimely'
               PROVE  (Timely /\ AllOwn /\ KeyFirst)'
    BY DEF OwnInv
  <2>1. ~untimely
    <3>1. CASE Next
      <4>1. CASE Record \/ Pause \/ Resume \/ Stop \/ Stopping
        <5>1. CASE Record
          BY <5>1, Zenon DEF Record
        <5>2. CASE Pause \/ Resume \/ Stop
          BY <5>2, ZenonT(30) DEF Pause, Resume, Stop
        <5>3. CASE Stopping
          BY <5>3, ZenonT(30) DEF Stopping, StopClear, StopJoin, StopFinish
        <5> QED
          BY <4>1, <5>1, <5>2, <5>3, Zenon
      <4>2. CASE Capture
        <5>1. CASE ParameterSets \/ \E f : Sample(f)
          BY <5>1, Zenon DEF ParameterSets, Sample
        <5>2. ASSUME NEW t, FindKeyFrame(t) PROVE ~untimely
          BY <5>2, Zenon DEF FindKeyFrame
        <5>3. ASSUME NEW t, Add(t) PROVE ~untimely
          BY <5>3, Zenon DEF Add
        <5> QED
          BY <4>2, <5>1, <5>2, <5>3, Zenon DEF Capture
      <4>3. CASE Worker
        BY <4>3, Zenon DEF Worker, WorkerBegins, Loop, Check, PollNull, WriteSample, WaitEnds
      <4> QED
        BY <3>1, <4>1, <4>2, <4>3, Zenon DEF Next
    <3>2. CASE UNCHANGED vars
      BY <3>2, Zenon DEF vars
    <3> QED
      BY <3>1, <3>2
  <2>2. Timely /\ AllOwn /\ KeyFirst
    BY <2>1 DEF OwnInv
  <2> QED
    BY <2>2, RecorderConstants, TimelyNext, OwnNext DEF TypeOK
<1>3. OwnInv => OwnSamples
  BY DEF OwnInv, AllOwn, KeyFirst, OwnSamples
<1> QED
  BY <1>1, <1>2, <1>3, TypeCorrect, PTL DEF Spec


-----------------------------------------------------------------------------
(* The tables.                                                             *)

\* A player finds every sample of a movie by the tables, in every state of the
\* recorder: the samples in the tables are what createStsc() needs.
THEOREM TablesAreTrue == Spec => []TablesTrue
<1>1. TypeOK => TablesTrue
  <2> SUFFICES ASSUME TypeOK, NEW t \in tracks PROVE TablesFind(samples[t])
    BY DEF TablesTrue
  <2>1. samples[t] \in Seq(Entry)
    BY DEF TypeOK, DataOK, Entry
  <2>2. ASSUME NEW e \in Entry PROVE e.offset \in Int /\ e.size \in Int
    <3>1. e.offset \in Nat /\ e.size \in Sizes
      BY DEF Entry
    <3>2. Sizes \subseteq Nat \ {0}
      BY RecorderConstants DEF RecorderConstants
    <3>3. e.size \in Nat \ {0}
      BY <3>1, <3>2
    <3> QED
      BY <3>1, <3>3
  <2>3. Sampled(samples[t])
    BY <2>1, <2>2 DEF Sampled
  <2> QED
    BY <2>3, TablesFindAll
<1> QED
  BY <1>1, TypeCorrect, PTL

-----------------------------------------------------------------------------
(* The durations.                                                          *)

LEMMA ClockRuns ==
  ASSUME NEW ds, Len(ds) \in Nat
  PROVE  /\ Clock(ds)[0] = 0
         /\ \A i \in 1..Len(ds) : Clock(ds)[i] = Clock(ds)[i - 1] + ds[i]
<1> DEFINE Runs(f, n) == f = [i \in 0..n |-> IF i = 0 THEN 0 ELSE f[i - 1] + ds[i]]
           S == {n \in Nat : \E f : Runs(f, n)}
<1>1. 0 \in S
  <2>1. PICK f : f = [i \in 0..0 |-> 0]
    OBVIOUS
  <2>2. Runs(f, 0)
    BY <2>1
  <2> QED
    BY <2>2
<1>2. ASSUME NEW n \in S, n \in Nat PROVE n + 1 \in S
  <2>1. PICK f : Runs(f, n)
    BY <1>2
  <2>2. PICK g : g = [i \in 0..(n + 1) |-> IF i = 0 THEN 0 ELSE f[i - 1] + ds[i]]
    OBVIOUS
  <2>3. \A i \in 0..n : g[i] = f[i]
    <3>1. ASSUME NEW i \in 0..n PROVE g[i] = f[i]
      <4>1. i \in 0..(n + 1)
        BY <1>2
      <4> QED
        BY <2>1, <2>2, <4>1
    <3> QED
      BY <3>1
  <2>4. \A i \in 0..(n + 1) : i # 0 => g[i - 1] = f[i - 1]
    BY <1>2, <2>3
  <2>5. Runs(g, n + 1)
    BY <2>2, <2>4
  <2>6. n + 1 \in Nat
    BY <1>2
  <2> HIDE DEF Runs
  <2> QED
    BY <2>5, <2>6
<1> HIDE DEF S
<1>3. Len(ds) \in S
  BY <1>1, <1>2, Induction
<1>4. Runs(Clock(ds), Len(ds))
  <2>1. \E f : Runs(f, Len(ds))
    BY <1>3 DEF S
  <2> QED
    BY <2>1 DEF Clock
<1> QED
  BY <1>4

\* The clock of the first n durations is a number, and needs no more than them.
LEMMA ClockAgrees ==
  ASSUME NEW ds \in Seq(Nat), NEW es \in Seq(Nat), NEW n \in Nat, n <= Len(ds), n <= Len(es),
         \A i \in 1..n : es[i] = ds[i]
  PROVE  Clock(ds)[n] \in Nat /\ Clock(es)[n] = Clock(ds)[n]
<1> DEFINE C == Clock(ds)
           D == Clock(es)
           S == {m \in Nat : m <= n => C[m] \in Nat /\ D[m] = C[m]}
<1>0. Len(ds) \in Nat /\ Len(es) \in Nat
  OBVIOUS
<1>1. 0 \in S
  BY <1>0, ClockRuns
<1>2. ASSUME NEW m \in S, m \in Nat PROVE m + 1 \in S
  <2>1. ASSUME m + 1 <= n PROVE C[m + 1] \in Nat /\ D[m + 1] = C[m + 1]
    <3>i. PICK i : i = m + 1 /\ i - 1 = m
      BY <1>2
    <3>1. i \in 1..n /\ i \in 1..Len(ds) /\ i \in 1..Len(es)
      BY <1>0, <1>2, <2>1, <3>i
    <3>2. C[m] \in Nat /\ D[m] = C[m]
      BY <1>2, <2>1
    <3>3. C[i] = C[m] + ds[i] /\ D[i] = D[m] + es[i]
      BY <1>0, <3>1, <3>i, ClockRuns
    <3>4. ds[i] \in Nat /\ es[i] = ds[i]
      BY <3>1
    <3> HIDE DEF C, D
    <3> QED
      BY <3>2, <3>3, <3>4, <3>i
  <2> QED
    BY <1>2, <2>1
<1> HIDE DEF S
<1>3. n \in S
  BY <1>1, <1>2, Induction
<1> QED
  BY <1>3 DEF S

\* A duration goes before the last one.
LEMMA DurationAddedAt ==
  ASSUME NEW ds \in Seq(Nat), ds # <<>>, NEW d \in Nat
  PROVE  LET es == DurationAdded(ds, d)
         IN  /\ es \in Seq(Nat) /\ Len(es) = Len(ds) + 1 /\ es[Len(ds)] = d
             /\ \A i \in 1..(Len(ds) - 1) : es[i] = ds[i]
<1>e. PICK es : es = DurationAdded(ds, d)
  OBVIOUS
<1>n. PICK n : n = Len(ds)
  OBVIOUS
<1>f. PICK front : front = SubSeq(ds, 1, n - 1)
  OBVIOUS
<1>l. PICK last : last = SubSeq(ds, n, n)
  OBVIOUS
<1>0. n \in Nat /\ n >= 1
  BY <1>n
<1>1. /\ front \in Seq(Nat) /\ Len(front) = n - 1 /\ \A i \in 1..(n - 1) : front[i] = ds[i]
      /\ last \in Seq(Nat) /\ Len(last) = 1
  BY <1>0, <1>f, <1>l, <1>n
<1>2. es = (front \o <<d>>) \o last
  BY <1>e, <1>f, <1>l, <1>n DEF DurationAdded, InsertAt
<1>3. PICK h : h = front \o <<d>>
  OBVIOUS
<1>4. /\ h \in Seq(Nat) /\ Len(h) = n /\ h[n] = d /\ \A i \in 1..(n - 1) : h[i] = ds[i]
  <2>1. <<d>> \in Seq(Nat) /\ Len(<<d>>) = 1 /\ <<d>>[1] = d
    OBVIOUS
  <2>2. /\ h \in Seq(Nat) /\ Len(h) = Len(front) + Len(<<d>>)
        /\ \A i \in 1..(Len(front) + Len(<<d>>)) :
             h[i] = IF i <= Len(front) THEN front[i] ELSE <<d>>[i - Len(front)]
    BY <1>1, <1>3, <2>1, ConcatProperties, Zenon
  <2>3. h[n] = d
    BY <1>0, <1>1, <2>1, <2>2
  <2>4. \A i \in 1..(n - 1) : h[i] = front[i]
    BY <1>0, <1>1, <2>1, <2>2
  <2> QED
    BY <1>0, <1>1, <2>1, <2>2, <2>3, <2>4
<1>5. /\ es \in Seq(Nat) /\ Len(es) = n + 1 /\ \A i \in 1..n : es[i] = h[i]
  <2>0. es = h \o last
    BY <1>2, <1>3
  <2>1. /\ h \o last \in Seq(Nat) /\ Len(h \o last) = Len(h) + Len(last)
        /\ \A i \in 1..(Len(h) + Len(last)) :
             (h \o last)[i] = IF i <= Len(h) THEN h[i] ELSE last[i - Len(h)]
    BY <1>1, <1>4, ConcatProperties, Zenon
  <2>2. /\ h \o last \in Seq(Nat) /\ Len(h \o last) = n + 1
        /\ \A i \in 1..n : (h \o last)[i] = h[i]
    BY <1>0, <1>1, <1>4, <2>1
  <2> QED
    BY <2>0, <2>2, Zenon
<1>6. /\ es \in Seq(Nat) /\ Len(es) = Len(ds) + 1 /\ es[Len(ds)] = d
      /\ \A i \in 1..(Len(ds) - 1) : es[i] = ds[i]
  BY <1>0, <1>4, <1>5, <1>n
<1> QED
  BY <1>6, <1>e, Zenon

\* A duration is half a tick off at most.
LEMMA TicksClose ==
  ASSUME RecorderConstants, NEW time \in Nat
  PROVE  /\ Ticks(time) \in Nat
         /\ 2 * (TimeUnit * Ticks(time) - TimeScale * time) \in -TimeUnit..TimeUnit
<1>u. PICK u \in Nat : u = TimeUnit /\ u > 0
  BY DEF RecorderConstants
<1>x. PICK x \in Nat : x = TimeScale * time
  BY DEF RecorderConstants
<1>h. PICK h \in Nat : h = u \div 2 /\ 2 * h <= u /\ u <= 2 * h + 1
  BY <1>u
<1>d. PICK d : d = Ticks(time)
  OBVIOUS
<1>1. d = (x + h) \div u
  <2>1. time * TimeScale = x
    BY <1>x DEF RecorderConstants
  <2> QED
    BY <1>d, <1>h, <1>u, <2>1 DEF Ticks
<1>2. d \in Nat /\ u * d <= x + h /\ x + h < u * d + u
  <2>1. \A a \in Nat : /\ a \div u \in Nat /\ u * (a \div u) <= a
                       /\ a < u * (a \div u) + u
    BY <1>u
  <2> QED
    BY <1>1, <1>h, <2>1
<1>p. PICK p \in Int : p = u * d
  BY <1>2
<1>3. 2 * (p - x) \in -u..u
  BY <1>2, <1>h, <1>p, <1>u
<1> QED
  BY <1>2, <1>3, <1>d, <1>p, <1>u, <1>x

\* The error of the clock ds at sample i of s, in units of a tick's fraction.
Error(s, ds, i) == TimeUnit * Clock(ds)[i - 1] - TimeScale * (s[i].pts - s[1].pts)

KeptFor(s, ds) ==
  s # <<>> =>
    /\ Len(ds) = Len(s)
    /\ \A i \in DOMAIN s : 2 * Error(s, ds, i) \in -(i - 1) * TimeUnit..(i - 1) * TimeUnit

LEMMA KeptFirst ==
  ASSUME RecorderConstants, NEW e \in Entry, NEW ds \in Seq(Nat), Len(ds) = 1
  PROVE  KeptFor(Append(<<>>, e), ds)
<1>s. PICK s : s = Append(<<>>, e)
  OBVIOUS
<1>1. Len(s) = 1 /\ DOMAIN s = {1} /\ s[1] = e
  BY <1>s
<1>2. e.pts - e.pts = 0 /\ TimeScale \in Int /\ TimeUnit \in Int
  BY DEF Entry, RecorderConstants
<1>3. Clock(ds)[0] = 0
  BY ClockRuns
<1>4. Error(s, ds, 1) = 0
  BY <1>1, <1>2, <1>3 DEF Error
<1>5. 2 * Error(s, ds, 1) \in -(1 - 1) * TimeUnit..(1 - 1) * TimeUnit
  BY <1>2, <1>4
<1> QED
  BY <1>1, <1>5, <1>s, Zenon DEF KeptFor

LEMMA KeptMore ==
  ASSUME RecorderConstants, NEW s \in Seq(Entry), s # <<>>, NEW ds \in Seq(Nat),
         KeptFor(s, ds), NEW e \in Entry, e.pts >= s[Len(s)].pts
  PROVE  KeptFor(Append(s, e), DurationAdded(ds, Ticks(e.pts - s[Len(s)].pts)))
<1>z. s \in Seq(Entry) /\ s # <<>>
  OBVIOUS
<1>n. PICK n \in Nat : n = Len(s) /\ n >= 1
  BY <1>z, EmptySeq, LenProperties
<1>v. PICK v : v = Append(s, e)
  OBVIOUS
<1>1. /\ Len(v) = n + 1 /\ v[n + 1] = e /\ DOMAIN v = 1..(n + 1)
      /\ \A i \in 1..n : v[i] = s[i]
  <2>1. /\ Len(Append(s, e)) = Len(s) + 1 /\ Append(s, e)[Len(s) + 1] = e
        /\ \A i \in 1..Len(s) : Append(s, e)[i] = s[i]
        /\ Append(s, e) \in Seq(Entry)
    BY <1>z, AppendProperties
  <2>2. DOMAIN v = 1..Len(v)
    BY <1>v, <2>1, LenProperties
  <2> QED
    BY <1>n, <1>v, <2>1, <2>2
<1>2. \A i \in 1..n : s[i].pts \in Nat
  <2>1. ASSUME NEW i \in 1..n PROVE s[i].pts \in Nat
    <3>1. s[i] \in Entry
      BY <1>n, <1>z, ElementOfSeq
    <3> QED
      BY <3>1 DEF Entry, RecorderConstants
  <2> QED
    BY <2>1
<1>l. PICK time \in Nat : time = e.pts - s[n].pts
  <2>1. e.pts \in Nat /\ s[n].pts \in Nat
    BY <1>2, <1>n DEF Entry, RecorderConstants
  <2> QED
    BY <1>n, <2>1
<1>d. PICK d : d = Ticks(time)
  OBVIOUS
<1>3. d \in Nat /\ 2 * (TimeUnit * d - TimeScale * time) \in -TimeUnit..TimeUnit
  BY <1>d, TicksClose
<1>e. PICK es : es = DurationAdded(ds, d)
  OBVIOUS
<1>4. /\ Len(ds) = n /\ ds # <<>>
      /\ \A i \in 1..n : 2 * Error(s, ds, i) \in -(i - 1) * TimeUnit..(i - 1) * TimeUnit
  <2>1. DOMAIN s = 1..n
    BY <1>n, <1>z, LenProperties
  <2>2. KeptFor(s, ds)
    OBVIOUS
  <2>3. /\ Len(ds) = Len(s)
        /\ \A i \in DOMAIN s : 2 * Error(s, ds, i) \in -(i - 1) * TimeUnit..(i - 1) * TimeUnit
    BY <1>z, <2>2, Zenon DEF KeptFor
  <2>4. ds # <<>>
    <3>1. Len(ds) = n
      BY <1>n, <2>3, Zenon
    <3> QED
      BY <1>n, <3>1
  <2> QED
    BY <1>n, <2>1, <2>3, <2>4, Zenon
<1>5. es \in Seq(Nat) /\ Len(es) = n + 1 /\ es[n] = d /\ \A i \in 1..(n - 1) : es[i] = ds[i]
  <2>1. ds \in Seq(Nat) /\ ds # <<>> /\ d \in Nat
    BY <1>3, <1>4, Zenon
  <2>2. /\ es \in Seq(Nat) /\ Len(es) = Len(ds) + 1 /\ es[Len(ds)] = d
        /\ \A i \in 1..(Len(ds) - 1) : es[i] = ds[i]
    <3>1. ds \in Seq(Nat)
      OBVIOUS
    <3>2. ds # <<>>
      BY <2>1, Zenon
    <3>3. d \in Nat
      BY <2>1, Zenon
    <3> QED
      BY <1>e, <3>1, <3>2, <3>3, DurationAddedAt, Zenon
  <2> QED
    BY <1>4, <2>2, Zenon
<1>6. \A m \in 0..(n - 1) : Clock(ds)[m] \in Nat /\ Clock(es)[m] = Clock(ds)[m]
  <2>1. ASSUME NEW m \in 0..(n - 1)
        PROVE  Clock(ds)[m] \in Nat /\ Clock(es)[m] = Clock(ds)[m]
    <3>1. m \in Nat /\ m <= n /\ m <= n + 1 /\ \A i \in 1..m : i \in 1..(n - 1)
      BY <1>n
    <3>2. m \in Nat /\ m <= Len(ds) /\ m <= Len(es) /\ \A i \in 1..m : es[i] = ds[i]
      BY <1>4, <1>5, <3>1, Zenon
    <3> QED
      BY <1>5, <3>2, ClockAgrees, Zenon
  <2> QED
    BY <2>1
<1>7. \A i \in 1..n : Error(v, es, i) = Error(s, ds, i)
  <2>1. \A i \in 1..n : i - 1 \in 0..(n - 1) /\ 1 \in 1..n
    BY <1>n
  <2> QED
    BY <1>1, <1>6, <2>1 DEF Error
<1>8. 2 * Error(v, es, n + 1) \in -n * TimeUnit..n * TimeUnit
  <2>u. PICK u \in Nat : u = TimeUnit
    BY DEF RecorderConstants
  <2>k. PICK k \in Nat : k = TimeScale
    BY DEF RecorderConstants
  <2>c. PICK c \in Nat : c = Clock(ds)[n - 1]
    BY <1>6, <1>n
  <2>q. PICK q \in Int : q = s[n].pts - s[1].pts
    BY <1>2, <1>n
  <2>1. Clock(es)[n] = c + d
    <3>0. Len(es) = n + 1 /\ es[n] = d
      BY <1>5, Zenon
    <3>1. n \in 1..Len(es) /\ Len(es) \in Nat /\ n - 1 \in 0..(n - 1)
      BY <1>n, <3>0
    <3>2. Clock(es)[n] = Clock(es)[n - 1] + es[n]
      BY <3>1, ClockRuns, Zenon
    <3> QED
      BY <1>6, <2>c, <3>0, <3>1, <3>2, Zenon
  <2>2. v[n + 1].pts - v[1].pts = q + time
    <3>1. e.pts \in Nat /\ s[n].pts \in Nat /\ s[1].pts \in Nat
      BY <1>2, <1>n DEF Entry, RecorderConstants
    <3> QED
      BY <1>1, <1>l, <1>n, <2>q, <3>1, SMTT(30)
  <2>3. (n + 1) - 1 = n
    OBVIOUS
  <2>4. Error(v, es, n + 1) = u * (c + d) - k * (q + time)
    BY <2>1, <2>2, <2>3, <2>k, <2>u DEF Error
  <2>5. Error(s, ds, n) = u * c - k * q
    BY <2>c, <2>k, <2>q, <2>u DEF Error
  <2>6. 2 * (u * c - k * q) \in -(n - 1) * u..(n - 1) * u
    BY <1>4, <1>n, <2>5, <2>u
  <2>7. 2 * (u * d - k * time) \in -u..u
    BY <1>3, <2>k, <2>u
  <2>a. PICK a \in Int : a = u * c - k * q
    OBVIOUS
  <2>b. PICK b \in Int : b = u * d - k * time
    BY <1>3
  <2>w. PICK w \in Nat : w = (n - 1) * u
    BY <1>n
  <2>8. u * (c + d) - k * (q + time) = a + b
    BY <1>3, <2>a, <2>b
  <2>9. n * u = w + u /\ -n * u = -(w + u) /\ -(n - 1) * u = -w
    BY <2>w
  <2>10. 2 * a \in -w..w /\ 2 * b \in -u..u
    BY <2>6, <2>7, <2>9, <2>a, <2>b, <2>w
  <2>11. 2 * (a + b) \in -(w + u)..(w + u)
    BY <2>10
  <2> QED
    BY <2>4, <2>8, <2>9, <2>11, <2>u
<1>9. ASSUME NEW i \in 1..(n + 1)
      PROVE  2 * Error(v, es, i) \in -(i - 1) * TimeUnit..(i - 1) * TimeUnit
  <2>1. CASE i \in 1..n
    BY <1>4, <1>7, <2>1
  <2>2. CASE i = n + 1
    BY <1>8, <2>2
  <2> QED
    BY <2>1, <2>2
<1>10. KeptFor(v, es)
  BY <1>1, <1>5, <1>9, Zenon DEF KeptFor
<1> QED
  BY <1>10, <1>d, <1>e, <1>l, <1>n, <1>v

\* What a track's tables have of its times, in every state. A track begins with
\* the duration that its last sample will have.
Keeping ==
  \A t \in Track : /\ KeptFor(samples[t], durations[t])
                   /\ wpc # "none" /\ samples[t] = <<>> => Len(durations[t]) = 1

\* A sample keeps the times of its own track.
LEMMA KeptBySample ==
  ASSUME RecorderConstants, DataOK, Keeping, wpc # "none",
         NEW f \in Frame, NEW offset \in Nat, AddSample(f, offset)
  PROVE  \A t \in Track : /\ KeptFor(samples'[t], durations'[t])
                          /\ samples'[t] = <<>> => Len(durations'[t]) = 1
<1>1. CASE Older(f)
  <2>1. samples' = samples /\ durations' = durations
    BY <1>1, Zenon DEF AddSample
  <2> QED
    BY <2>1, Zenon DEF Keeping
<1>2. CASE ~Older(f)
  <2>k. PICK k : k = f.track
    OBVIOUS
  <2>s. PICK s : s = samples[k]
    OBVIOUS
  <2>d. PICK ds : ds = durations[k]
    OBVIOUS
  <2>e. PICK e : e = [offset |-> offset, size |-> f.size, pts |-> f.pts, key |-> f.key,
                      born |-> f.born]
    OBVIOUS
  <2>w. PICK es : es = IF samples[k] = <<>> THEN durations[k]
                       ELSE DurationAdded(durations[k], Ticks(f.pts - LastPts(k)))
    OBVIOUS
  <2>0. k \in Track /\ s \in Seq(Entry) /\ ds \in Seq(Nat) /\ e \in Entry /\ e.pts = f.pts
    BY <2>k, <2>s, <2>d, <2>e DEF DataOK, Frame, Entry
  <2>1. /\ samples' = [samples EXCEPT ![k] = Append(samples[k], e)]
        /\ durations' = [durations EXCEPT ![k] = es]
    BY <1>2, <2>k, <2>e, <2>w, Zenon DEF AddSample
  <2>2. /\ samples \in [Track -> Seq(Entry)] /\ durations \in [Track -> Seq(Nat)]
    BY DEF DataOK, Entry
  <2>3. /\ samples'[k] = Append(s, e) /\ durations'[k] = es
        /\ \A t \in Track : t # k => samples'[t] = samples[t] /\ durations'[t] = durations[t]
    BY <2>0, <2>1, <2>2, <2>s, Zenon
  <2>4. KeptFor(s, ds) /\ (s = <<>> => Len(ds) = 1)
    BY <2>0, <2>s, <2>d, Zenon DEF Keeping
  <2>5. KeptFor(Append(s, e), es) /\ Append(s, e) # <<>>
    <3>1. Append(s, e) # <<>>
      <4>1. s \in Seq(Entry) /\ e \in Entry
        BY <2>0, Zenon
      <4> QED
        BY <4>1, AppendProperties
    <3>2. CASE s = <<>>
      <4>1. es = ds /\ Len(ds) = 1
        BY <2>4, <2>d, <2>s, <2>w, <3>2
      <4>2. KeptFor(Append(<<>>, e), ds)
        BY <2>0, <4>1, KeptFirst, Zenon
      <4> QED
        BY <3>1, <3>2, <4>1, <4>2, Zenon
    <3>3. CASE s # <<>>
      <4>1. LastPts(k) = s[Len(s)].pts
        BY <2>s, <3>3, Zenon DEF LastPts
      <4>2. es = DurationAdded(ds, Ticks(e.pts - s[Len(s)].pts))
        BY <2>0, <2>d, <2>s, <2>w, <3>3, <4>1, Zenon
      <4>3. e.pts >= s[Len(s)].pts
        <5>1. ~(e.pts < s[Len(s)].pts)
          BY <1>2, <2>0, <2>k, <4>1, Zenon DEF Older
        <5>2. s[Len(s)] \in Entry
          BY <2>0, <3>3
        <5>3. e.pts \in Nat /\ s[Len(s)].pts \in Nat
          BY <2>0, <5>2 DEF Entry, RecorderConstants
        <5> QED
          BY <5>1, <5>3
      <4>4. KeptFor(Append(s, e), DurationAdded(ds, Ticks(e.pts - s[Len(s)].pts)))
        BY <2>0, <2>4, <3>3, <4>3, KeptMore, Zenon
      <4> QED
        BY <3>1, <4>2, <4>4, Zenon
    <3> QED
      BY <3>2, <3>3
  <2>6. ASSUME NEW t \in Track, t # k
        PROVE  /\ KeptFor(samples'[t], durations'[t])
               /\ samples'[t] = <<>> => Len(durations'[t]) = 1
    <3>1. samples'[t] = samples[t] /\ durations'[t] = durations[t]
      BY <2>3, <2>6, Zenon
    <3> QED
      BY <3>1, Zenon DEF Keeping
  <2> QED
    BY <2>3, <2>5, <2>6, Zenon
<1> QED
  BY <1>1, <1>2

\* A step that leaves the tables alone, and forks no worker.
LEMMA KeptUntouched ==
  ASSUME Keeping, samples' = samples, durations' = durations, wpc' # "none" => wpc # "none"
  PROVE  Keeping'
BY Zenon DEF Keeping

LEMMA KeepingNext ==
  ASSUME RecorderConstants, DataOK, Keeping, [Next]_vars
  PROVE  Keeping'
<1>1. CASE Record
  <2>1. ASSUME NEW t \in Track
        PROVE samples'[t] = <<>> /\ durations'[t] = <<LastDuration>>
    BY <1>1 DEF Record, Empty
  <2>2. Len(<<LastDuration>>) = 1
    OBVIOUS
  <2> QED
    BY <2>1, <2>2, Zenon DEF Keeping, KeptFor
<1>2. CASE WriteSample
  <2>1. wpc = "poll" /\ wpc' = "check" /\ cache # <<>>
    BY <1>2, WriteSampleSplit
  <2>f. PICK f : f = Head(cache)
    OBVIOUS
  <2>2. f \in Frame
    <3>1. cache \in Seq(Frame)
      BY DEF DataOK
    <3> QED
      BY <2>1, <2>f, <3>1
  <2>3. UNCHANGED <<errors, fileVars>> \/ Written(f)
    BY <1>2, <2>f, WriteSampleSplit, Zenon
  <2>4. CASE UNCHANGED <<errors, fileVars>>
    BY <2>1, <2>4, KeptUntouched DEF fileVars
  <2>5. CASE Written(f)
    <3>1. AddSample(f, NextOffset)
      BY <2>5, Zenon DEF Written
    <3>2. NextOffset \in Nat
      BY OffsetsTyped
    <3>3. wpc # "none"
      BY <2>1
    <3> QED
      BY <2>2, <3>1, <3>2, <3>3, KeptBySample, Zenon DEF Keeping
  <2> QED
    BY <2>3, <2>4, <2>5
<1>3. CASE Stop \/ StopJoin
  <2>1. samples' = samples /\ durations' = durations
    BY <1>3, Zenon DEF Stop, StopJoin, fileVars
  <2>2. wpc' # "none" => wpc # "none"
    BY <1>3 DEF Stop, StopJoin
  <2> QED
    BY <2>1, <2>2, KeptUntouched
<1>4. CASE Pause \/ Resume \/ StopClear \/ StopFinish
  <2>1. samples' = samples /\ durations' = durations /\ wpc' = wpc
    <3>1. CASE Pause \/ Resume
      BY <3>1, ZenonT(30) DEF Pause, Resume, fileVars
    <3>2. CASE StopClear
      BY <3>2, Zenon DEF StopClear, fileVars
    <3>3. CASE StopFinish
      BY <3>3, Zenon DEF StopFinish, fileVars
    <3> QED
      BY <1>4, <3>1, <3>2, <3>3, Zenon
  <2> QED
    BY <2>1, KeptUntouched
<1>5. CASE Capture
  <2>1. samples' = samples /\ durations' = durations
    <3>1. CASE ParameterSets \/ \E f : Sample(f)
      BY <3>1, Zenon DEF ParameterSets, Sample, fileVars
    <3>2. ASSUME NEW t, FindKeyFrame(t) PROVE samples' = samples /\ durations' = durations
      BY <3>2, Zenon DEF FindKeyFrame, fileVars
    <3>3. ASSUME NEW t, Add(t) PROVE samples' = samples /\ durations' = durations
      BY <3>3, Zenon DEF Add, fileVars
    <3> QED
      BY <1>5, <3>1, <3>2, <3>3, Zenon DEF Capture
  <2>2. wpc' # "none" => wpc # "none"
    <3>1. CASE ParameterSets \/ \E f : Sample(f)
      BY <3>1, Zenon DEF ParameterSets, Sample
    <3>2. ASSUME NEW t, FindKeyFrame(t) PROVE wpc' # "none" => wpc # "none"
      BY <3>2, Zenon DEF FindKeyFrame
    <3>3. ASSUME NEW t, Add(t) PROVE wpc' # "none" => wpc # "none"
      BY <3>3 DEF Add
    <3> QED
      BY <1>5, <3>1, <3>2, <3>3, Zenon DEF Capture
  <2> QED
    BY <2>1, <2>2, KeptUntouched
<1>6. CASE WorkerBegins \/ Loop \/ Check \/ PollNull \/ WaitEnds
  <2>1. samples' = samples /\ durations' = durations
    BY <1>6, Zenon DEF WorkerBegins, Loop, Check, PollNull, WaitEnds, fileVars
  <2>2. wpc # "none"
    BY <1>6 DEF WorkerBegins, Loop, Check, PollNull, WaitEnds
  <2> QED
    BY <2>1, <2>2, KeptUntouched
<1>7. CASE UNCHANGED vars
  <2>1. samples' = samples /\ durations' = durations /\ wpc' = wpc
    BY <1>7, Zenon DEF vars, fileVars
  <2> QED
    BY <2>1, KeptUntouched
<1> QED
  BY <1>1, <1>2, <1>3, <1>4, <1>5, <1>6, <1>7, Zenon DEF Next, Stopping, Worker

\* The durations of a movie add up to the times of its samples, with at most
\* half a tick of error for each, however long it is and whatever was left out.
THEOREM TimesAreKept == Spec => []TimesKept
<1>1. Init => Keeping
  <2> SUFFICES ASSUME Init, NEW t \in Track
               PROVE /\ KeptFor(samples[t], durations[t])
                     /\ wpc # "none" /\ samples[t] = <<>> => Len(durations[t]) = 1
    BY DEF Keeping
  <2>1. samples[t] = <<>> /\ wpc = "none"
    BY DEF Init, Empty
  <2> QED
    BY <2>1, Zenon DEF KeptFor
<1>2. TypeOK /\ Keeping /\ [Next]_vars => Keeping'
  BY RecorderConstants, KeepingNext DEF TypeOK
<1>3. TypeOK /\ Keeping => TimesKept
  <2> SUFFICES ASSUME TypeOK, Keeping, NEW t \in tracks PROVE
         samples[t] # <<>> =>
           /\ Len(durations[t]) = Len(samples[t])
           /\ \A i \in DOMAIN samples[t] :
                2 * Error(samples[t], durations[t], i) \in -(i - 1) * TimeUnit..(i - 1) * TimeUnit
    BY Zenon DEF TimesKept, Error
  <2>1. t \in Track
    BY DEF TypeOK, DataOK
  <2> QED
    BY <2>1, Zenon DEF Keeping, KeptFor
<1> QED
  BY <1>1, <1>2, <1>3, TypeCorrect, PTL DEF Spec
=============================================================================
