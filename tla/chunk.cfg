\* Three messages on two chunk streams, of one to three chunks.
CONSTANTS
  Cids = {1, 2}
  MaxMessages = 3
  MaxResizes = 1
  MaxAborts = 1
  MaxWire = 3
  MaxLen = 3
  Times = {0, 1, 2}
  Full = 2
  LongExtended = FALSE
  Sizes = {1, 2}
  Default = 1
SPECIFICATION FairSpec
INVARIANTS
  TypeOK
  ReaderInStep
PROPERTIES
  Implements
  AllArrive
\* The peer runs out of messages.
CHECK_DEADLOCK FALSE
