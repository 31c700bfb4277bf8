\* Two sessions, one request of the server, one frame.
CONSTANTS
  MaxSessions = 2
  MaxPings = 1
  MaxFrames = 1
SPECIFICATION FairSpec
INVARIANTS
  TypeOK
  NothingLeft
PROPERTIES
  Implements
  
\* The client runs out of sessions.
CHECK_DEADLOCK FALSE
