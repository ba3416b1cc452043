SPECIFICATION Spec
CONSTANTS
  c1 = c1
  c2 = c2
  k1 = k1
  None = None
  Cases = {c1, c2}
  Corpora = {k1}
  Campaigns = {"m1"}
  Values = {"v0", "v1", "v2", "v3"}
  Groups = {"g"}
  Tips = {"t1"}
  FinalCohort = 2
  MinCohort = 1
  FinalExecutions = 3
  InstrumentCap = 2
  FamilyCap = 2
  Runs = {1, 2}
  Time = {0, 1}
  MigratedAt = 1
  MaxEvents = 8
  MaxCommits = 3
  MaxAttempts = 2
  Genesis <- MCGenesis
  Requests <- MCRequests
INVARIANTS
  TypeOK
  AnswersItsPrefix
  SuccessMeansCommitted
  CommitsAreReceipted
  VerifiedMeansCommitted
  PublicIndexValid
  RejectionsStand
PROPERTY
  ImplementsRegistry
\* Nothing is left to do once every run has used its attempts.
CHECK_DEADLOCK FALSE
