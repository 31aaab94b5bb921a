SPECIFICATION Spec
CONSTANT
  SniLengths <- MCSniLengths
CHECK_DEADLOCK FALSE
INVARIANTS
  CompleteClientHello
