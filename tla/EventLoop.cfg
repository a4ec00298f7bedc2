SPECIFICATION FairSpec
CONSTANTS
  IO = io
  Others = {t1, t2}
  Functors = {f1, f2, f3}
  Channels = {c1}
  EventfdMax = 2
  OutsideCalls = FALSE
INVARIANTS
  NoLostWakeup
  NoLostQuit
PROPERTIES
  FunctorsRun
  QuitStopsLoop
  ImplementsFunctorQueue
