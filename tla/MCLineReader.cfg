SPECIFICATION Spec
CONSTANTS
  Sizes <- MCSizes
  Streams <- MCStreams
  InitBuf = 4
  MaxBuf = 9
  MaxEmpty = 1
INVARIANTS
  TypeOK
  LinesSurvive
  ModestFramesSurvive
  RefusedOnlyTooLong
