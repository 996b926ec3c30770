SPECIFICATION Spec
CONSTANTS
  WordDigits = 2
  ByteDigits = 1
  BUFFER_LEN = 4
  Values <- MCValues
INVARIANTS
  TypeOK
  ScreenShowsToken
PROPERTIES
  ImplementsMonitor
