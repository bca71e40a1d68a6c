CONSTANTS
  Procs = {"p", "q"}
  Callers = {"p", "q"}
  MaxProbe = 2
  NameWorlds <- MCNameWorlds
  Commands = {"p", "q"}
  Tags = {1, 2}
  NoDebug = {2}
  LaunchWorlds <- MCWorlds
  Deps = {"m", "n"}
  Versions = {"src", "v1", "v2", "bad"}
  Broken = {"bad"}
  StoreWorlds <- MCStoreWorlds
  Extractors = {"p", "q"}
  ExtractWorlds <- MCExtractWorlds
SPECIFICATION MCSpec
INVARIANTS MarkerSpeaksTrue
