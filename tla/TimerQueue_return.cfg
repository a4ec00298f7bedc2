SPECIFICATION Spec
CONSTANTS
  IO = io
  Others = {t1}
  Addrs = {1, 2}
  Times = {0, 2}
  Intervals = {0, 1}
  Horizon = 2
  MaxTimers = 2
  MaxPending = 1
  ClockSteps = 0
INVARIANT TimerOutlivesAddTimer
