SPECIFICATION FairSpec
CONSTANTS
  Settings <- SmallSettings
  Fds = {1, 2}
  CmdLen = 2
  MaxArrivals <- SmallArrivals
  Chunk = 7
  MaxBytes <- SmallBytes
  MaxFlips = 1
  MaxFaults = 1
CHECK_DEADLOCK FALSE
INVARIANTS
  TypeOK
  OneHolder
  ItemsNotified
  ReportedIn
PROPERTIES
  ConnectionsTaken
  CommandsServed
  RegistrationEnds
