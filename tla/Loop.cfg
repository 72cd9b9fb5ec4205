SPECIFICATION Spec
CONSTANTS
  Clients = {c1, c2, c3}
  Calls <- MCCalls
INVARIANTS TypeOK NoRequestLost ReportsEffect
PROPERTIES CallsReturn ShutdownFrees
CHECK_DEADLOCK FALSE
