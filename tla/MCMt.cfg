SPECIFICATION MCSpec
CONSTANTS
  Lda = 16
  DataSize = 1000
  CoreCounts <- MCCoreCounts
  Kernels <- SizedKernels
INVARIANTS
  TypeOK
  NoRace
  InBounds
  ScratchFilled
  VerifyPasses
PROPERTIES
  ImplementsRendezvous
  Terminates
