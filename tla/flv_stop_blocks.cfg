\* stop() while the worker waits for the server.
CONSTANTS
  MaxStarts = 1
  MaxStops = 1
  MaxSamples <- OneAndNone
  MaxDts = 1
  s1 = s1
  s2 = s2
  p1 = p1
  p2 = p2
  Nil = Nil
  Zeroed = Zeroed
  Sps <- OneSet
  Pps <- OnePps
  Overlap <- Clean
SPECIFICATION FairSpec
PROPERTY
  StopReturns
\* The caller runs out of starts and stops.
CHECK_DEADLOCK FALSE
