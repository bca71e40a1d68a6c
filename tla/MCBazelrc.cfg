CONSTANTS
    Worlds <- MCWorlds
    Commands <- MCCommands
SPECIFICATION Spec
INVARIANTS
  ReadAsWritten
  ArgumentsArrive
CHECK_DEADLOCK FALSE
