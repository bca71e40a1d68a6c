CONSTANTS
  p1 = p1
  p2 = p2
  NoPid = NoPid
  Pids <- TwoPids
  Faults <- AnyFault
  Scripts <- AllScripts
  Interrupted <- SomeInterrupted
  OutputBaseFlag = TRUE
SPECIFICATION FairSpec
CHECK_DEADLOCK FALSE
INVARIANTS
  PidsSound
  SignalReachesAll
PROPERTIES
  KilledMeansCleaned
  ShutdownIsOrderly
  WaitReturns
