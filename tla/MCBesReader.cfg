\* Three attempts, and one kind of failure of the sinks or none; the client or the
\* server may die.
CONSTANTS
  MaxAttempts = 3
  FifoCap = 2
  Faults = {"none", "open", "reopen", "write", "flush"}
  MayDie = TRUE
SPECIFICATION FairSpec
CHECK_DEADLOCK FALSE
INVARIANTS
  StreamIsWhole
  EndsAgree
  FileMirrorsStream
PROPERTIES
  TaskReturns
