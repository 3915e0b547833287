SPECIFICATION Spec
CONSTANTS
  Window = 1
  Threshold = 2
  Keep = 6
  MinDays = 1
  MaxMessages = 7
  MaxTime = 4
PROPERTIES
  IsolationRestsOnRejections
CHECK_DEADLOCK FALSE
