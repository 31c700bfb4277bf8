\* Three sessions, with failures and two exceptions, and three stops.
CONSTANTS
  MaxStarts = 3
  MaxStops = 3
  MaxErrors = 2
SPECIFICATION FairSpec
INVARIANTS
  TypeOK
  QuietIsStopped
  OneWorker
  CameraHasEncoder
PROPERTIES
  PushingInSession
  EndIsTold
\* The caller runs out of starts and stops.
CHECK_DEADLOCK FALSE
