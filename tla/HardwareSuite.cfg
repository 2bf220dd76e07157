SPECIFICATION FairSpec
CONSTANTS
  Plan <- MCPlan
  Sets <- MCSets
  InitialPassword = "initial"
  PostReset = "factory"
  Passwords = {"initial", "factory", "factory ", "p1", "p2", "p2 "}
  Trimmed <- MCTrimmed
INVARIANTS TypeOK SnapshotsFaithful NotLockedOut StatusHonest
PROPERTIES CancelStopsWrites SuiteEnds
CHECK_DEADLOCK FALSE
