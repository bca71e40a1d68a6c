SPECIFICATION SessionSpec
CONSTANTS
    Std <- MCStd
    Programs <- MCPrograms
    BufferCap = 2
    StreamCap = 1
    Uploads = 2
    PipeCap = 1
    Chunks = 2
INVARIANTS
  LoadsAreSound
  ConfiguredAsWritten
  TaskIsCarriedThrough
  HelpersSound
PROPERTIES
  Ends
