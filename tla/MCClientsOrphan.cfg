CONSTANTS
  p1 = p1
  p2 = p2
  NoPid = NoPid
  Pids <- TwoPids
  Faults <- NoFault
  Scripts <- OneBuild
  Interrupted <- SomeInterrupted
  OutputBaseFlag = TRUE
SPECIFICATION Spec
CHECK_DEADLOCK FALSE
INVARIANTS
  NoOrphan
