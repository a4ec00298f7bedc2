SPECIFICATION Spec
CONSTANTS
  Files = {f1}
  Events = {in, hup}
  Always = {hup}
  Modes = {"LT", "ET", "ONESHOT"}
  WaitThreads = {t1, t2}
  MaxEvents = 1
  Timeouts = {"zero", "finite", "forever"}
  Signals = TRUE
  Faults = TRUE
  Ctl = TRUE
SYMMETRY Symmetry
INVARIANTS
  NoLostEvent
  NoStrandedWaiter
  ListsSound
  OneShot
