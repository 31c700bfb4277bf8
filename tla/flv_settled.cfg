\* Sessions that start when everything of the one before has ended.
CONSTANTS
  MaxStarts = 2
  MaxStops = 2
  MaxSamples <- TwoAndTwo
  MaxDts = 1
  s1 = s1
  s2 = s2
  p1 = p1
  p2 = p2
  Nil = Nil
  Zeroed = Zeroed
  Sps <- OneSet
  Pps <- TwoPps
  Overlap <- Clean
SPECIFICATION Spec
INVARIANTS
  TypeOK
  CounterExact
  FreshFrames
  CrashOnlyWhileStopping
  StoppedIsClean
  HeaderCurrent
\* The caller runs out of starts and stops.
CHECK_DEADLOCK FALSE
