\* Two recordings, with a pause.
CONSTANTS
  MaxRecords = 2
  MaxFrames = 3
  MaxPauses = 1
  MaxErrors = 1
  MaxPts = 1
  Sizes = {1, 2}
  FtypSize = 2
  HeaderSize = 1
  TimeScale = 3
  TimeUnit = 2
  LastDuration = 5
SPECIFICATION FairSpec
INVARIANTS
  TypeOK
  CrashOnlyWhileStopping
  OwnSamples
  SamplesApart
  TablesTrue
  TimesKept
PROPERTY
  StopReturnsOnceBegun
\* The caller runs out of recordings.
CHECK_DEADLOCK FALSE
