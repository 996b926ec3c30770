SPECIFICATION Spec
CONSTANTS
  SYMBOL_EDGE_TIME = 8
  DataBits = 2
INVARIANTS
  TypeOK
PROPERTIES
  ReceivedAsSent
  Arrives
  Resyncs
