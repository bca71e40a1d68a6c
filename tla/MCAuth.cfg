CONSTANTS
  Names = {"aspect", "a", "b"}
  Hosts = {"ha", "hb", "xa"}
  Under <- MCUnder
  Issuers = {"idp", "ia", "ib"}
  SeedIssuer = "idp"
  MaxSessions = 3
  MaxTokens = 2
  Procs = {"p", "q"}
  Worlds <- MCWorlds
  Discovered <- MCDiscovered
SPECIFICATION Spec
INVARIANTS
  LoginsKept
  DefaultIsOne
  TokensFit
PROPERTIES
  StepsKeepTheRest
  CommandsEnd
