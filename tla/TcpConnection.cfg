SPECIFICATION FairSpec
CONSTANTS
  Others = {t1}
  OtherCalls = {"send", "shutdown", "forceClose", "startRead", "stopRead"}
  Messages = {1, 2}
  Chunks = 2
  HighWaterMark = 3
  MaxPending = 1
CHECK_DEADLOCK FALSE
INVARIANTS
  OutputInOrder
  OutputWatched
  ShutdownAfterOutput
  AssertsHold
  GoneInOrder
PROPERTIES
  ClosingEnds
  ImplementsConnLife
