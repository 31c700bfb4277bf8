\* Two sessions, the second perhaps over what the first left, with the threads scheduled fairly.
CONSTANTS
  MaxStarts = 2
  MaxStops = 2
  MaxSamples <- TwoAndNone
  MaxDts = 1
  s1 = s1
  s2 = s2
  p1 = p1
  p2 = p2
  Nil = Nil
  Zeroed = Zeroed
  Sps <- OneSet
  Pps <- OnePps
  Overlap <- Overlapped
SPECIFICATION FairSpec
INVARIANTS
  HeaderFirst
  DtsMonotone
PROPERTIES
  FramesDrain
  StopReturnsOnceStreaming
\* The caller runs out of starts and stops.
CHECK_DEADLOCK FALSE
