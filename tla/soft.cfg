\* Three sessions in both orientations, with pictures of four sizes.
CONSTANTS
  Pictures <- FourSizes
  Portrait <- HighOutput
  MaxStarts = 3
  MaxFrames = 4
SPECIFICATION Spec
INVARIANTS
  BuffersFit
  EncoderReadsFrame
  HeaderLeads
