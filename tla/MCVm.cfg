SPECIFICATION FairSpec
CONSTANTS
  LfsrBits = 2
  MAX_TEST_PAGES = 3
  Values = {0, 1}
INVARIANTS
  TypeOK
  OneOwner
  AssertionsHold
  HostHears
PROPERTIES
  ImplementsFlatMemory
  AccessEnds
