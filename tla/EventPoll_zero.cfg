SPECIFICATION FairSpec
CONSTANTS
  Files = {f1}
  Events = {in}
  Always = {}
  Modes = {"LT", "ET"}
  WaitThreads = {t1}
  MaxEvents = 1
  Timeouts = {"forever"}
  Signals = FALSE
  Faults = FALSE
  Ctl = FALSE
PROPERTY EmptyScanReturnsZero
