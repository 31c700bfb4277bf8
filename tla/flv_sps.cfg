\* Only the SPS changes.
CONSTANTS
  MaxStarts = 1
  MaxStops = 0
  MaxSamples <- TwoAndNone
  MaxDts = 1
  s1 = s1
  s2 = s2
  p1 = p1
  p2 = p2
  Nil = Nil
  Zeroed = Zeroed
  Sps <- TwoSps
  Pps <- OnePps
  Overlap <- Clean
SPECIFICATION Spec
INVARIANT
  HeaderCurrent
\* The caller runs out of starts and stops.
CHECK_DEADLOCK FALSE
