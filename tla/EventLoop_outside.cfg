SPECIFICATION Spec
CONSTANTS
  IO = io
  Others = {t1}
  Functors = {f1, f2}
  Channels = {c1}
  EventfdMax = 2
  OutsideCalls = TRUE
INVARIANT NoLostWakeup
