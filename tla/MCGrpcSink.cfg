\* Five events, one larger than the budget of three bytes.
CONSTANTS
  Size <- MixedSizes
  Upto <- MixedUpto
  CapBytes = 3
  LastAt <- FifthIsLast
  Retries = {0, 1, 2}
  ChanCap = 2
  HasTimeout = TRUE
SPECIFICATION FairSpec
CHECK_DEADLOCK FALSE
INVARIANTS
  BufferSound
  WireInOrder
  OkMeansConfirmed
  LossIsKnown
PROPERTIES
  RetriesAreBudgeted
  SinkReturns
  ImplementsUpload
