SPECIFICATION Spec
CONSTANTS
  Others = {t1}
  OtherCalls = {}
  Messages = {1}
  Chunks = 1
  HighWaterMark = 1
  MaxPending = 1
CHECK_DEADLOCK FALSE
INVARIANT RemovedIdle
