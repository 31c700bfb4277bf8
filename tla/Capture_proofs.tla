--------------------------- MODULE Capture_proofs ---------------------------
(* Theorems about Capture, for every value of its constants.               *)
EXTENDS Capture, FiniteSetTheorems, TLAPS

-----------------------------------------------------------------------------
(* The inductive invariant.                                                *)

\* Where the main thread is, what then runs, and that codecs are there for it.
Phases ==
  /\ isEncoding \/ InPause \/ worker # NoWorker \/ mic # "none" => codecs
  /\ codecs /\ main = "idle" => isEncoding \/ paused
  /\ paused => main = "idle" /\ ~isEncoding
  /\ main = "release" => ~pausing
  /\ main \in {"camClear", "camJoin", "release"} => ~isEncoding
  /\ main \notin {"idle", "micJoin"} => mic = "none"
  /\ main = "release" \/ (main = "idle" /\ ~isEncoding) => worker = NoWorker /\ mic = "none"

\* The worker in the field is one that its codecs have not been taken from.
Field == worker # NoWorker => cams[worker] \notin {"none", "stale", "crashed"}

\* The clock, and where it stood when the pause began.
Clock ==
  /\ isEncoding /\ ~InPause => now = presentTime + active
  /\ codecs /\ InPause => pauseTime = presentTime + active
  /\ presentTime <= now /\ pauseTime <= now

\* The queue from the clear() of disableEncoding() on.
Queue ==
  main \in {"camJoin", "release", "idle"} /\ ~isEncoding =>
    pictures + (IF gl = "add" THEN 1 ELSE 0) <= 1

\* Workers with a picture that has passed the throttle, and those that give the
\* muxer what is encoded.
Hands == {w \in Workers : cams[w] = "codec"}
Drainers == {w \in Workers : cams[w] = "drain"}

\* What has passed the throttle and may still be added to the cache.
Room ==
  /\ ~codecs => ins = 0 /\ outs = 0
  /\ Drainers = {} => ins + outs <= InSlots
  /\ cached + ins + outs + Cardinality(Hands)
       < VGOP + InSlots + OutSlots + Cardinality(Strays)

Inv == TypeOK /\ Phases /\ Field /\ Clock /\ Queue /\ Room

-----------------------------------------------------------------------------
(* Counting workers.                                                       *)

\* Who is in S or is a: one more than S at most.
LEMMA OneMore ==
  ASSUME NEW S, IsFiniteSet(S), NEW H, NEW a, H \subseteq S \cup {a}
  PROVE  /\ Cardinality(H) \in Nat /\ Cardinality(S) \in Nat
         /\ Cardinality(H) <= Cardinality(S) + 1
<1>1. /\ IsFiniteSet(S \cup {a})
      /\ Cardinality(S \cup {a}) = Cardinality(S)
           \/ Cardinality(S \cup {a}) = Cardinality(S) + 1
  BY FS_AddElement
<1>2. IsFiniteSet(H) /\ Cardinality(H) <= Cardinality(S \cup {a})
  BY <1>1, FS_Subset
<1>3. Cardinality(H) \in Nat /\ Cardinality(S) \in Nat
  BY <1>2, FS_CardinalityType
<1> QED
  BY <1>1, <1>2, <1>3

\* If one of them is missing, no more than S.
LEMMA NoMore ==
  ASSUME NEW S, IsFiniteSet(S), NEW H, NEW a, H \subseteq S \cup {a},
         NEW d \in S \cup {a}, d \notin H
  PROVE  Cardinality(H) <= Cardinality(S)
<1>1. CASE d \in S
  <2>1. /\ IsFiniteSet(S \ {d}) /\ Cardinality(S \ {d}) = Cardinality(S) - 1
    BY <1>1, FS_RemoveElement
  <2>2. H \subseteq (S \ {d}) \cup {a}
    OBVIOUS
  <2>3. Cardinality(H) \in Nat /\ Cardinality(H) <= Cardinality(S \ {d}) + 1
    BY <2>1, <2>2, OneMore
  <2>4. Cardinality(S) \in Nat
    BY FS_CardinalityType
  <2> QED
    BY <2>1, <2>3, <2>4
<1>2. CASE d \notin S
  <2>1. H \subseteq S
    BY <1>2
  <2> QED
    BY <2>1, FS_Subset
<1> QED
  BY <1>1, <1>2

\* The sets that Room counts.
LEMMA Counts ==
  /\ IsFiniteSet(Strays) /\ Cardinality(Strays) \in Nat
  /\ IsFiniteSet(Hands) /\ Cardinality(Hands) \in Nat
<1>1. IsFiniteSet(Strays) /\ IsFiniteSet(Hands)
  BY CaptureConstants, FS_Subset DEF CaptureConstants, Strays, Hands
<1> QED
  BY <1>1, FS_CardinalityType

-----------------------------------------------------------------------------
(* The invariant holds, part by part.                                      *)

LEMMA InvInit == Init => Inv
<1> SUFFICES ASSUME Init PROVE Inv
  OBVIOUS
<1>1. ~isEncoding /\ ~codecs /\ ~paused /\ ~pausing
  BY DEF Init
<1>2. FlagsOK
  BY Zenon DEF Init, FlagsOK
<1>3. DataOK
  BY CaptureConstants DEF CaptureConstants, Init, DataOK
<1>4. Phases /\ Field /\ Clock
  BY <1>1 DEF Init, Phases, Field, Clock, InPause
<1>5. Queue
  BY DEF Init, Queue
<1>6. Room
  <2>1. Hands = {} /\ Drainers = {}
    BY DEF Init, Hands, Drainers
  <2>2. Cardinality(Hands) = 0 /\ Cardinality(Strays) \in Nat
    BY <2>1, Counts, FS_EmptySet
  <2> QED
    BY <2>1, <2>2, CaptureConstants DEF CaptureConstants, Init, Room
<1> QED
  BY <1>2, <1>3, <1>4, <1>5, <1>6 DEF Inv, TypeOK

LEMMA FlagsNext == FlagsOK /\ [Next]_vars => FlagsOK'
<1> SUFFICES ASSUME FlagsOK, [Next]_vars PROVE FlagsOK'
  OBVIOUS
<1> USE DEF FlagsOK, mainVars, clockVars, camVars, micVars, glVars, codecVars, camRest
<1>1. CASE Start \/ StartFails \/ Resume
  BY <1>1, Zenon DEF Start, StartFails, Resume, StartAudio
<1>2. CASE Pause \/ Stop
  BY <1>2, Zenon DEF Pause, Stop
<1>3. CASE Stopping
  BY <1>3, Zenon DEF Stopping, MicJoin, CamOff, CamClear, CamJoin, Release
<1>4. CASE Draw \/ Add
  BY <1>4, Zenon DEF Draw, Add
<1>5. ASSUME NEW w \in Workers, Camera(w) \/ CamCrashes(w) PROVE FlagsOK'
  BY <1>5, Zenon
  DEF Camera, CamLoop, CamCheck, CamPoll, CamPicture, CamQueue, CamDrain, CamWait, CamCrashes
<1>6. CASE Microphone \/ CodecWorks \/ Publish \/ Tick
  BY <1>6, Zenon DEF Microphone, MicLoop, MicEncodes, CodecWorks, Publish, Tick
<1>7. CASE UNCHANGED vars
  BY <1>7, Zenon DEF vars
<1> QED
  BY <1>1, <1>2, <1>3, <1>4, <1>5, <1>6, <1>7, Zenon DEF Next

LEMMA DataNext == Inv /\ [Next]_vars => DataOK'
<1> SUFFICES ASSUME Inv, [Next]_vars PROVE DataOK'
  OBVIOUS
<1>t. DataOK
  BY DEF Inv, TypeOK
<1> USE <1>t, CaptureConstants
    DEF CaptureConstants, DataOK, mainVars, clockVars, camVars, micVars, glVars, codecVars,
        camRest
<1>1. CASE Start
  BY <1>1 DEF Start, StartAudio, Overtaken
<1>2. CASE StartFails
  BY <1>2 DEF StartFails
<1>3. CASE Resume
  <2>1. pauseTime <= now
    BY DEF Inv, Clock
  <2> QED
    BY <1>3, <2>1 DEF Resume, StartAudio, PauseLasted
<1>4. CASE Pause \/ Stop
  BY <1>4 DEF Pause, Stop
<1>5. CASE Stopping
  BY <1>5 DEF Stopping, MicJoin, CamOff, CamClear, AfterClear, ClearedQueue, CamJoin, Release
<1>6. CASE Draw \/ Add
  BY <1>6 DEF Draw, Add
<1>7. ASSUME NEW w \in Workers, Camera(w) \/ CamCrashes(w) PROVE DataOK'
  <2> USE DEF Goes
  <2>1. CASE CamLoop(w) \/ CamCheck(w)
    BY <2>1 DEF CamLoop, CamCheck
  <2>2. CASE CamPoll(w) \/ CamWait(w)
    BY <2>2 DEF CamPoll, CamWait
  <2>3. CASE CamPicture(w)
    <3>1. presentTime <= now
      BY DEF Inv, Clock
    <3> QED
      BY <2>3, <3>1 DEF CamPicture
  <2>4. CASE CamQueue(w)
    BY <2>4 DEF CamQueue
  <2>5. CASE CamDrain(w) \/ CamCrashes(w)
    BY <2>5 DEF CamDrain, CamCrashes
  <2> QED
    BY <1>7, <2>1, <2>2, <2>3, <2>4, <2>5 DEF Camera
<1>8. CASE Microphone
  BY <1>8 DEF Microphone, MicLoop, MicEncodes
<1>9. CASE CodecWorks \/ Publish \/ Tick
  BY <1>9 DEF CodecWorks, Publish, Tick
<1>10. CASE UNCHANGED vars
  BY <1>10 DEF vars
<1> QED
  BY <1>1, <1>2, <1>3, <1>4, <1>5, <1>6, <1>7, <1>8, <1>9, <1>10, Zenon DEF Next

LEMMA PhasesNext == Inv /\ [Next]_vars => Phases'
<1> SUFFICES ASSUME Inv, [Next]_vars PROVE Phases'
  OBVIOUS
<1>t. DataOK /\ Phases
  BY DEF Inv, TypeOK
<1> USE <1>t
    DEF DataOK, Phases, InPause, mainVars, clockVars, camVars, micVars, glVars, codecVars, camRest
<1>1. CASE Start \/ StartFails
  BY <1>1 DEF Start, StartFails, StartAudio
<1>2. CASE Resume
  BY <1>2 DEF Resume, StartAudio
<1>3. CASE Pause \/ Stop
  BY <1>3 DEF Pause, Stop
<1>4. CASE MicJoin \/ CamOff
  BY <1>4 DEF MicJoin, CamOff
<1>5. CASE CamClear \/ Release
  BY <1>5 DEF CamClear, AfterClear, Release
<1>6. CASE CamJoin
  BY <1>6 DEF CamJoin
<1>7. CASE Draw \/ Add
  BY <1>7 DEF Draw, Add
<1>8. ASSUME NEW w \in Workers, Camera(w) \/ CamCrashes(w) PROVE Phases'
  <2>1. UNCHANGED camRest /\ UNCHANGED codecs
    BY <1>8, Zenon
    DEF Camera, CamLoop, CamCheck, CamPoll, CamPicture, CamQueue, CamDrain, CamWait, CamCrashes
  <2> QED
    BY <2>1
<1>9. CASE Microphone \/ CodecWorks \/ Publish \/ Tick
  BY <1>9 DEF Microphone, MicLoop, MicEncodes, CodecWorks, Publish, Tick
<1>10. CASE UNCHANGED vars
  BY <1>10 DEF vars
<1> QED
  BY <1>1, <1>2, <1>3, <1>4, <1>5, <1>6, <1>7, <1>8, <1>9, <1>10, Zenon DEF Next, Stopping

LEMMA FieldNext == Inv /\ [Next]_vars => Field'
<1> SUFFICES ASSUME Inv, [Next]_vars PROVE Field'
  OBVIOUS
<1>t. DataOK /\ Phases /\ Field
  BY DEF Inv, TypeOK
<1> USE <1>t, CaptureConstants
    DEF CaptureConstants, DataOK, Field, mainVars, clockVars, camVars, micVars, glVars,
        codecVars, camRest
<1>1. CASE Start
  BY <1>1 DEF Start
<1>2. CASE StartFails \/ Pause \/ Stop
  BY <1>2 DEF StartFails, Pause, Stop
<1>3. CASE Resume
  BY <1>3 DEF Resume
<1>4. CASE MicJoin \/ CamOff \/ CamClear \/ Release
  BY <1>4 DEF MicJoin, CamOff, CamClear, Release
<1>5. CASE CamJoin
  BY <1>5 DEF CamJoin
<1>6. CASE Draw \/ Add
  BY <1>6 DEF Draw, Add
<1>7. ASSUME NEW w \in Workers, Camera(w) \/ CamCrashes(w) PROVE Field'
  <2> USE DEF Goes
  <2>1. CASE CamLoop(w) \/ CamCheck(w) \/ CamPoll(w) \/ CamWait(w)
    BY <2>1 DEF CamLoop, CamCheck, CamPoll, CamWait
  <2>2. CASE CamPicture(w) \/ CamQueue(w) \/ CamDrain(w)
    BY <2>2 DEF CamPicture, CamQueue, CamDrain
  <2>3. CASE CamCrashes(w)
    BY <2>3 DEF CamCrashes, Phases
  <2> QED
    BY <1>7, <2>1, <2>2, <2>3 DEF Camera
<1>8. CASE Microphone \/ CodecWorks \/ Publish \/ Tick
  BY <1>8 DEF Microphone, MicLoop, MicEncodes, CodecWorks, Publish, Tick
<1>9. CASE UNCHANGED vars
  BY <1>9 DEF vars
<1> QED
  BY <1>1, <1>2, <1>3, <1>4, <1>5, <1>6, <1>7, <1>8, <1>9, Zenon DEF Next, Stopping

LEMMA ClockNext == Inv /\ [Next]_vars => Clock'
<1> SUFFICES ASSUME Inv, [Next]_vars PROVE Clock'
  OBVIOUS
<1>t. DataOK /\ Phases /\ Clock
  BY DEF Inv, TypeOK
<1> USE <1>t
    DEF DataOK, Phases, Clock, InPause, mainVars, clockVars, camVars, micVars, glVars,
        codecVars, camRest
<1>1. CASE Start \/ StartFails
  BY <1>1 DEF Start, StartFails
<1>2. CASE Resume
  BY <1>2 DEF Resume, PauseLasted
<1>3. CASE Pause \/ Stop
  BY <1>3 DEF Pause, Stop
<1>4. CASE MicJoin \/ CamOff \/ CamClear
  BY <1>4 DEF MicJoin, CamOff, CamClear, AfterClear
<1>5. CASE CamJoin \/ Release
  BY <1>5 DEF CamJoin, Release
<1>6. CASE Tick
  BY <1>6 DEF Tick
<1>7. CASE Draw \/ Add \/ Microphone \/ CodecWorks \/ Publish
  BY <1>7 DEF Draw, Add, Microphone, MicLoop, MicEncodes, CodecWorks, Publish
<1>8. ASSUME NEW w \in Workers, Camera(w) \/ CamCrashes(w) PROVE Clock'
  <2>1. UNCHANGED camRest /\ UNCHANGED codecs
    BY <1>8, Zenon
    DEF Camera, CamLoop, CamCheck, CamPoll, CamPicture, CamQueue, CamDrain, CamWait, CamCrashes
  <2> QED
    BY <2>1
<1>9. CASE UNCHANGED vars
  BY <1>9 DEF vars
<1> QED
  BY <1>1, <1>2, <1>3, <1>4, <1>5, <1>6, <1>7, <1>8, <1>9, Zenon DEF Next, Stopping

LEMMA QueueNext == Inv /\ [Next]_vars => Queue'
<1> SUFFICES ASSUME Inv, [Next]_vars PROVE Queue'
  OBVIOUS
<1>t. DataOK /\ Phases /\ Queue
  BY DEF Inv, TypeOK
<1> USE <1>t
    DEF DataOK, Phases, Queue, mainVars, clockVars, camVars, micVars, glVars, codecVars, camRest
<1>1. CASE Start \/ StartFails \/ Resume \/ Pause \/ Stop
  BY <1>1 DEF Start, StartFails, Resume, Pause, Stop
<1>2. CASE MicJoin \/ CamOff \/ CamJoin \/ Release
  BY <1>2 DEF MicJoin, CamOff, CamJoin, Release
<1>3. CASE CamClear
  BY <1>3 DEF CamClear, ClearedQueue
<1>4. CASE Draw \/ Add
  BY <1>4 DEF Draw, Add
<1>5. ASSUME NEW w \in Workers, Camera(w) \/ CamCrashes(w) PROVE Queue'
  <2>1. UNCHANGED camRest
    BY <1>5, Zenon
    DEF Camera, CamLoop, CamCheck, CamPoll, CamPicture, CamQueue, CamDrain, CamWait, CamCrashes
  <2>2. pictures' = pictures \/ (pictures > 0 /\ pictures' = pictures - 1)
    BY <1>5
    DEF Camera, CamLoop, CamCheck, CamPoll, CamPicture, CamQueue, CamDrain, CamWait, CamCrashes
  <2> QED
    BY <2>1, <2>2
<1>6. CASE Microphone \/ CodecWorks \/ Publish \/ Tick
  BY <1>6 DEF Microphone, MicLoop, MicEncodes, CodecWorks, Publish, Tick
<1>7. CASE UNCHANGED vars
  BY <1>7 DEF vars
<1> QED
  BY <1>1, <1>2, <1>3, <1>4, <1>5, <1>6, <1>7, Zenon DEF Next, Stopping

\* A step of a worker that is not in the encoder, and stays out of it.
LEMMA Elsewhere ==
  ASSUME NEW w \in Workers, NEW at, cams' = [cams EXCEPT ![w] = at], UNCHANGED worker,
         DataOK, cams[w] \notin {"none", "codec"}, at \notin {"none", "codec"}
  PROVE  Hands' = Hands /\ Strays' = Strays
BY DEF DataOK, Hands, Strays

LEMMA RoomNext == Inv /\ [Next]_vars => Room'
<1> SUFFICES ASSUME Inv, [Next]_vars PROVE Room'
  OBVIOUS
<1>t. DataOK /\ Room
  BY DEF Inv, TypeOK
<1>c. /\ VGOP \in Nat \ {0} /\ InSlots \in Nat \ {0} /\ OutSlots \in Nat \ {0}
      /\ ins \in Nat /\ outs \in Nat /\ cached \in Nat
      /\ Cardinality(Hands) \in Nat /\ Cardinality(Strays) \in Nat
  BY <1>t, CaptureConstants, Counts DEF CaptureConstants, DataOK
<1> USE DEF mainVars, clockVars, camVars, micVars, glVars, codecVars, camRest
<1>same. ASSUME UNCHANGED <<cams, worker>>
         PROVE  Hands' = Hands /\ Strays' = Strays /\ Drainers' = Drainers
  BY <1>same DEF Hands, Strays, Drainers
<1>1. CASE Start
  <2>1. PICK w \in Workers, unlucky \in SUBSET Using :
          /\ cams[w] = "none" /\ worker' = w
          /\ cams' = [v \in Workers |-> IF v = w THEN "loop"
                                        ELSE IF v \in unlucky THEN "crashed"
                                        ELSE Overtaken(cams[v])]
    BY <1>1, Zenon DEF Start
  <2>2. Hands' = {}
    BY <2>1 DEF Hands, Overtaken
  <2>3. Strays \subseteq Strays'
    BY <2>1, <1>t DEF Strays, Overtaken, DataOK
  <2>4. IsFiniteSet(Strays')
    BY CaptureConstants, FS_Subset DEF CaptureConstants, Strays
  <2>5. /\ Cardinality(Hands') = 0 /\ Cardinality(Strays') \in Nat
        /\ Cardinality(Strays) <= Cardinality(Strays')
    BY <2>2, <2>3, <2>4, FS_EmptySet, FS_Subset, FS_CardinalityType
  <2>6. codecs' = TRUE /\ ins' = 0 /\ outs' = 0 /\ cached' = cached
    BY <1>1, Zenon DEF Start
  <2> QED
    BY <1>t, <1>c, <2>5, <2>6 DEF Room
<1>2. CASE StartFails \/ Pause \/ Stop
  BY <1>t, <1>2, <1>same, Zenon DEF StartFails, Pause, Stop, Room
<1>3. CASE Resume
  <2>1. worker = NoWorker /\ UNCHANGED codecVars
    BY <1>3 DEF Resume, Inv, Phases
  <2>2. Hands' = Hands /\ Strays' = Strays /\ Drainers' = Drainers
    BY <1>t, <1>3, <2>1, CaptureConstants
    DEF Resume, DataOK, CaptureConstants, Hands, Strays, Drainers
  <2> QED
    BY <1>t, <2>1, <2>2, Zenon DEF Room
<1>4. CASE MicJoin \/ CamOff \/ CamClear
  BY <1>t, <1>4, <1>same, Zenon DEF MicJoin, CamOff, CamClear, Room
<1>5. CASE CamJoin
  <2>1. Hands' = Hands /\ Strays' = Strays /\ Drainers' = Drainers
    BY <1>t, <1>5, CaptureConstants
    DEF CamJoin, DataOK, CaptureConstants, Hands, Strays, Drainers
  <2> QED
    BY <1>t, <1>5, <2>1, Zenon DEF CamJoin, Room
<1>6. CASE Release
  <2>1. Hands' = Hands /\ Strays' = Strays
    BY <1>6, <1>same DEF Release
  <2>2. ins' = 0 /\ outs' = 0 /\ cached' = 0
    BY <1>6 DEF Release
  <2> QED
    BY <1>t, <1>c, <2>1, <2>2 DEF Room
<1>7. CASE Draw \/ Microphone \/ Tick
  BY <1>t, <1>7, <1>same, Zenon DEF Draw, Microphone, MicLoop, MicEncodes, Tick, Room
<1>8. CASE Add
  <2>1. Hands' = Hands /\ Strays' = Strays /\ Drainers' = Drainers
    BY <1>t, <1>8 DEF Add, DataOK, Hands, Strays, Drainers
  <2> QED
    BY <1>t, <1>8, <2>1, Zenon DEF Add, Room
<1>9. ASSUME NEW w \in Workers, CamLoop(w) \/ CamCheck(w) \/ CamPoll(w) \/ CamWait(w)
      PROVE  Room'
  <2>1. PICK at \in {"loop", "check", "poll", "wait", "picture", "dead"} :
          cams' = [cams EXCEPT ![w] = at]
    BY <1>9 DEF CamLoop, CamCheck, CamPoll, CamWait, Goes
  <2>2. /\ UNCHANGED <<worker, codecVars>>
        /\ cams[w] \in {"loop", "check", "poll", "wait"}
    BY <1>9 DEF CamLoop, CamCheck, CamPoll, CamWait
  <2>3. Hands' = Hands /\ Strays' = Strays
    BY <1>t, <2>1, <2>2, Elsewhere
  <2>4. Drainers' = Drainers
    BY <1>t, <2>1, <2>2 DEF DataOK, Drainers
  <2> QED
    BY <1>t, <2>2, <2>3, <2>4, Zenon DEF Room
<1>10. ASSUME NEW w \in Workers, CamPicture(w) PROVE Room'
  <2>1. UNCHANGED codecVars /\ cams[w] = "picture" /\ UNCHANGED worker
    BY <1>10 DEF CamPicture
  <2>2. CASE NetworkKeepsUp
    <3>1. cams' = [cams EXCEPT ![w] = "codec"]
      BY <1>10, <2>2 DEF CamPicture, Goes
    <3>2. Strays' = Strays /\ Drainers' = Drainers
      BY <1>t, <2>1, <3>1 DEF DataOK, Strays, Drainers
    <3>3. Hands' = Hands \cup {w}
      BY <1>t, <2>1, <3>1 DEF DataOK, Hands
    <3>4. Hands' \subseteq Strays \cup {worker}
      BY <1>t, <2>1, <3>3 DEF DataOK, Hands, Strays
    <3>5. CASE Drainers = {}
      <4>1. Cardinality(Hands') \in Nat /\ Cardinality(Hands') <= Cardinality(Strays) + 1
        BY <3>4, Counts, OneMore
      <4>2. cached < VGOP /\ ins + outs <= InSlots
        BY <1>t, <2>2, <3>5 DEF NetworkKeepsUp, Room
      <4>3. cached + ins + outs + Cardinality(Hands')
              < VGOP + InSlots + OutSlots + Cardinality(Strays)
        BY <1>c, <4>1, <4>2
      <4> QED
        BY <1>t, <2>1, <3>2, <4>3, Zenon DEF Room
    <3>6. CASE Drainers # {}
      <4>1. PICK d \in Workers : cams[d] = "drain"
        BY <3>6 DEF Drainers
      <4>2. d \in Strays \cup {worker} /\ d \notin Hands'
        BY <2>1, <3>3, <4>1 DEF Strays, Hands
      <4>3. Cardinality(Hands') \in Nat /\ Cardinality(Hands') <= Cardinality(Strays)
        BY <3>4, <4>2, Counts, OneMore, NoMore
      <4>4. cached < VGOP /\ ins <= InSlots /\ outs <= OutSlots
        BY <1>t, <2>2 DEF NetworkKeepsUp, DataOK
      <4>5. cached + ins + outs + Cardinality(Hands')
              < VGOP + InSlots + OutSlots + Cardinality(Strays)
        BY <1>c, <4>3, <4>4
      <4> QED
        BY <1>t, <2>1, <3>2, <4>5, Zenon DEF Room
    <3> QED
      BY <3>5, <3>6
  <2>3. CASE ~NetworkKeepsUp
    <3>1. cams' = [cams EXCEPT ![w] = "check"]
      BY <1>10, <2>3 DEF CamPicture, Goes
    <3>2. Hands' = Hands /\ Strays' = Strays
      BY <1>t, <2>1, <3>1, Elsewhere
    <3>3. Drainers' = Drainers
      BY <1>t, <2>1, <3>1 DEF DataOK, Drainers
    <3> QED
      BY <1>t, <2>1, <3>2, <3>3, Zenon DEF Room
  <2> QED
    BY <2>2, <2>3
<1>11. ASSUME NEW w \in Workers, CamQueue(w) PROVE Room'
  <2>1. /\ cams' = [cams EXCEPT ![w] = "drain"] /\ cams[w] = "codec" /\ codecs
        /\ ins' = ins + 1 /\ UNCHANGED <<worker, codecs, outs, cached>>
    BY <1>11 DEF CamQueue, Goes
  <2>2. Strays' = Strays /\ w \in Drainers'
    BY <1>t, <2>1 DEF DataOK, Strays, Drainers
  <2>3. w \in Hands /\ Hands' = Hands \ {w}
    BY <1>t, <2>1 DEF DataOK, Hands
  <2>4. Cardinality(Hands') = Cardinality(Hands) - 1
    BY <2>3, Counts, FS_RemoveElement
  <2>5. cached' + ins' + outs' + Cardinality(Hands')
          < VGOP + InSlots + OutSlots + Cardinality(Strays')
    BY <1>t, <1>c, <2>1, <2>2, <2>4 DEF Room
  <2> QED
    BY <2>1, <2>2, <2>5 DEF Room
<1>12. ASSUME NEW w \in Workers, CamDrain(w) PROVE Room'
  <2>1. cams[w] = "drain" /\ codecs /\ UNCHANGED <<worker, codecs, ins>>
    BY <1>12 DEF CamDrain
  <2>2. CASE outs > 0
    <3>1. outs' = outs - 1 /\ cached' = cached + 1 /\ UNCHANGED cams
      BY <1>12, <2>2 DEF CamDrain
    <3>2. Hands' = Hands /\ Strays' = Strays /\ w \in Drainers'
      BY <2>1, <3>1, <1>same DEF Drainers
    <3>3. cached' + ins' + outs' + Cardinality(Hands')
            < VGOP + InSlots + OutSlots + Cardinality(Strays')
      BY <1>t, <1>c, <2>1, <3>1, <3>2 DEF Room
    <3> QED
      BY <2>1, <3>2, <3>3 DEF Room
  <2>3. CASE ~(outs > 0)
    <3>1. cams' = [cams EXCEPT ![w] = "check"] /\ UNCHANGED <<outs, cached>>
      BY <1>12, <2>3 DEF CamDrain, Goes
    <3>2. Hands' = Hands /\ Strays' = Strays
      BY <1>t, <2>1, <3>1, Elsewhere
    <3>3. outs = 0 /\ ins <= InSlots
      BY <1>t, <1>c, <2>3 DEF DataOK
    <3>4. ins + outs <= InSlots
      BY <1>c, <3>3
    <3>5. UNCHANGED <<ins, outs, cached, codecs>>
      BY <2>1, <3>1
    <3> QED
      BY <1>t, <3>2, <3>4, <3>5 DEF Room
  <2> QED
    BY <2>2, <2>3
<1>13. ASSUME NEW w \in Workers, CamCrashes(w) PROVE Room'
  <2>1. /\ cams' = [cams EXCEPT ![w] = "crashed"] /\ UNCHANGED <<worker, codecVars>>
        /\ cams[w] = "stale" \/ (cams[w] \in {"codec", "drain"} /\ ~codecs)
    BY <1>13 DEF CamCrashes, Goes
  <2>2. Strays' = Strays
    BY <1>t, <2>1 DEF DataOK, Strays
  <2>3. Hands' \subseteq Hands
    BY <1>t, <2>1 DEF DataOK, Hands
  <2>4. Cardinality(Hands') \in Nat /\ Cardinality(Hands') <= Cardinality(Hands)
    BY <2>3, Counts, FS_Subset, FS_CardinalityType
  <2>5. Drainers' = Drainers \/ (ins = 0 /\ outs = 0)
    BY <1>t, <2>1 DEF DataOK, Drainers, Room
  <2>6. ins + outs <= InSlots \/ Drainers' # {}
    BY <1>t, <1>c, <2>5 DEF Room
  <2>7. cached + ins + outs + Cardinality(Hands')
          < VGOP + InSlots + OutSlots + Cardinality(Strays)
    BY <1>t, <1>c, <2>4 DEF Room
  <2> QED
    BY <1>t, <2>1, <2>2, <2>6, <2>7 DEF Room
<1>14. CASE CodecWorks
  <2>1. /\ UNCHANGED <<cams, worker, codecs, cached>>
        /\ ins > 0 /\ ins' = ins - 1 /\ outs' = outs + 1
    BY <1>14 DEF CodecWorks
  <2>2. Hands' = Hands /\ Strays' = Strays /\ Drainers' = Drainers
    BY <1>same, <2>1
  <2>3. ins' + outs' = ins + outs /\ cached' + ins' + outs' = cached + ins + outs
    BY <1>c, <2>1
  <2>4. codecs
    BY <1>t, <1>c, <2>1 DEF Room
  <2> QED
    BY <1>t, <2>1, <2>2, <2>3, <2>4 DEF Room
<1>15. CASE Publish
  <2>1. UNCHANGED <<cams, worker, codecs, ins, outs>> /\ cached' = cached - 1
    BY <1>15 DEF Publish
  <2>2. Hands' = Hands /\ Strays' = Strays /\ Drainers' = Drainers
    BY <1>same, <2>1
  <2>3. cached' + ins + outs + Cardinality(Hands)
          < VGOP + InSlots + OutSlots + Cardinality(Strays)
    BY <1>t, <1>c, <2>1 DEF Room
  <2> QED
    BY <1>t, <2>1, <2>2, <2>3, Zenon DEF Room
<1>16. CASE UNCHANGED vars
  BY <1>t, <1>16, <1>same, Zenon DEF vars, Room
<1> QED
  BY <1>1, <1>2, <1>3, <1>4, <1>5, <1>6, <1>7, <1>8, <1>9, <1>10, <1>11, <1>12, <1>13, <1>14,
     <1>15, <1>16, Zenon
  DEF Next, Stopping, Camera

LEMMA InvHolds == Spec => []Inv
<1>1. Inv /\ [Next]_vars => Inv'
  BY FlagsNext, DataNext, PhasesNext, FieldNext, ClockNext, QueueNext, RoomNext DEF Inv, TypeOK
<1> QED
  BY InvInit, <1>1, PTL DEF Spec

-----------------------------------------------------------------------------
(* What follows from it.                                                   *)

\* TypeOK is an invariant; above all, no picture gets a negative time.
THEOREM TypeCorrect == Spec => []TypeOK
<1>1. Inv => TypeOK
  BY DEF Inv
<1> QED
  BY <1>1, InvHolds, PTL

\* No thread is in the encoder without codecs but a camera worker that a start has
\* overwritten: pausePublish() and stopPublish() have joined both threads that
\* the fields lead to before SrsEncoder.stop() releases the codecs.
THEOREM CodecsAreThere == Spec => []CodecAlive
<1>1. Inv => CodecAlive
  BY CaptureConstants DEF CaptureConstants, Inv, TypeOK, DataOK, Phases, Field, CodecAlive
<1> QED
  BY <1>1, InvHolds, PTL

\* Of the pictures of one session the next one gets one at most, however long
\* the queue was when disableEncoding() cleared it.
THEOREM OldPictures == Spec => []OneOldPicture
<1>1. Inv => OneOldPicture
  BY DEF Inv, Queue, OneOldPicture
<1> QED
  BY <1>1, InvHolds, PTL

\* Any number of pauses is taken out of the clock exactly: what pause() and
\* resume() of SrsEncoder.java note and add.
THEOREM ClockIsExact == Spec => []ClockWithoutPauses
<1>1. Inv => ClockWithoutPauses
  BY DEF Inv, TypeOK, DataOK, Clock, ClockWithoutPauses
<1> QED
  BY <1>1, InvHolds, PTL

\* The throttle bounds the cache for every VGOP and every number of buffers of
\* the codec, although the frames that pass it are counted later, by as many
\* workers as starts have left running.
THEOREM CacheIsBounded == Spec => []CacheBounded
<1>1. Inv => CacheBounded
  <2> SUFFICES ASSUME Inv PROVE CacheBounded
    OBVIOUS
  <2>1. /\ VGOP \in Nat /\ InSlots \in Nat /\ OutSlots \in Nat
        /\ ins \in Nat /\ outs \in Nat /\ cached \in Nat
    BY CaptureConstants DEF CaptureConstants, Inv, TypeOK, DataOK
  <2> QED
    BY <2>1, Counts DEF Inv, Room, CacheBounded
<1> QED
  BY <1>1, InvHolds, PTL

=============================================================================
