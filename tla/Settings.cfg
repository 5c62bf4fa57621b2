SPECIFICATION FairSpec
CONSTANTS
  Apps = {"admin", "worker"}
  Keys = {"host", "token"}
  Values = {1, 2}
  UsedBy <- MCUsedBy
  Secrets = {"token"}
  HasEnv = {"host", "token"}
  Base <- MCBase
  Default <- MCDefault
  Sealed <- MCSealed
  Savers = {"s1", "s2"}
  MaxSaves = 2
  Asks <- MCAsks
  MaxMishaps = 1
INVARIANT
  UsesOneSave
PROPERTIES
  NothingIsLeftOut
  SavesReachEverybody
CHECK_DEADLOCK FALSE
