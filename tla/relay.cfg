SPECIFICATION FairSpec
CONSTANTS
  BufLen = 2
  Window = 2
  MaxBytes = 3
INVARIANTS
  TypeOK
  NothingAdded
  FinIsTheEnd
PROPERTIES
  FinIsFinal
  HandlerEnds
