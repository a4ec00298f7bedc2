SPECIFICATION FairSpec
CONSTANTS
  Fds = {1, 2, 3}
  MaxArrivals = 3
  MaxTaken = 1
  Pools <- SomeThreads
  Starters = {"base", t1, t2}
CHECK_DEADLOCK FALSE
INVARIANTS
  TypeOK
  IdleReserved
  FdsOwned
  AssertsHold
PROPERTIES
  BacklogDrains
  EndClosesAll
  ConnectionsLive
