SPECIFICATION FairSpec
CONSTANTS
  IO = io
  Others = {t1}
  Addrs = {1, 2}
  Times = {0, 3}
  Intervals = {0, 1}
  Horizon = 3
  MaxTimers = 2
  MaxPending = 1
  ClockSteps = 1
PROPERTY TimersFire
PROPERTY OnlyDueOrCancelled
INVARIANTS
  OneOwner
  AlarmPending
  AlarmInTime
  CancelSticks
