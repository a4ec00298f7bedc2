SPECIFICATION FairSpec
CONSTANTS
  Files = {f1, f2}
  Events = {in}
  Always = {}
  Modes = {"LT", "ET"}
  WaitThreads = {t1, t2}
  MaxEvents = 1
  Timeouts = {"forever"}
  Signals = FALSE
  Faults = FALSE
  Ctl = FALSE
PROPERTY EventsReachScan
INVARIANTS
  TypeOK
  NoLostEvent
  NoStrandedWaiter
