\* Two sessions, the second perhaps over a capture that runs, and two pauses.
CONSTANTS
  Workers = {w1, w2}
  NoWorker = NoWorker
  MaxStarts = 2
  MaxPauses = 2
  MaxPictures = 3
  MaxTime = 2
  VGOP = 1
  InSlots = 1
  OutSlots = 1
SPECIFICATION FairSpec
INVARIANTS
  TypeOK
  CodecAlive
  OneOldPicture
  ClockWithoutPauses
  CacheBounded
PROPERTY
  StopReturns
\* The caller runs out of starts.
CHECK_DEADLOCK FALSE
