\* One session is enough for an answer that is not registered.
CONSTANTS
  MaxSessions = 1
  MaxPings = 1
  MaxFrames = 1
SPECIFICATION Spec
INVARIANT
  ReceiverSurvives
\* The client runs out of sessions.
CHECK_DEADLOCK FALSE
