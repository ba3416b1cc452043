SPECIFICATION MigrationSpec
CONSTANTS
  c1 = c1
  c2 = c2
  c3 = c3
  k1 = k1
  None = None
  Cases = {c1, c2, c3}
  Corpora = {k1}
  Campaigns = {"m1"}
  Values = {"v0", "v1", "v2", "v3"}
  Groups = {c1, c2, c3}
  Tips = {"t1"}
  FinalCohort = 2
  MinCohort = 1
  FinalExecutions = 3
  InstrumentCap = 2
  FamilyCap = 2
  Runs = {1, 2}
  Time = {0, 1}
  MigratedAt = 1
  MaxEvents = 8
  MaxCommits = 3
  MaxAttempts = 2
  Anchors <- MCAnchors
  PrivateRegistries <- MCPrivateRegistries
  Genesis <- MCGenesis
  Requests <- MCRequests
INVARIANT
  AnchorsStayBound
PROPERTIES
  MigrationImplementsRegistry
  GenesisCommittedOnce
\* Nothing is left to do once every run has used its attempts.
CHECK_DEADLOCK FALSE
