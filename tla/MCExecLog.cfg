\* Two file sinks that may fail, on a ring smaller than the log.
CONSTANTS
  Sinks = {s1, s2}
  Iterations = {"none", "drained", "held"}
  Cap = 2
  MaxEntries = 3
  Faults = {"create", "write", "tee"}
SPECIFICATION FairSpec
CHECK_DEADLOCK FALSE
INVARIANTS
  SinksSound
  SendErrorIsSinks
PROPERTIES
  WaitReturns
