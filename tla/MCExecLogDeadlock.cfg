\* A file sink beside an iterator drained before wait(), as the docs combine them.
CONSTANTS
  Sinks = {s1}
  Iterations = {"drained"}
  Cap = 2
  MaxEntries = 3
  Faults = {}
SPECIFICATION FairSpec
CHECK_DEADLOCK FALSE
PROPERTY
  DrainedWaitReturns
