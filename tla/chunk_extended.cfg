\* One message of two chunks, with an extended time.
CONSTANTS
  Cids = {1}
  MaxMessages = 1
  MaxResizes = 0
  MaxAborts = 0
  MaxWire = 2
  MaxLen = 2
  Times = {0, 2}
  Full = 2
  LongExtended = TRUE
  Sizes = {1}
  Default = 1
SPECIFICATION Spec
INVARIANT
  ReaderInStep
\* The peer runs out of messages.
CHECK_DEADLOCK FALSE
