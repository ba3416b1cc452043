SPECIFICATION Spec
CONSTANTS
  c1 = c1
  c2 = c2
  c3 = c3
  c4 = c4
  k1 = k1
  k2 = k2
  None = None
  Cases = {c1, c2, c3, c4}
  Corpora = {k1, k2}
  Campaigns = {"final", "raw-fail-safe"}
  Values = {"v0", "v1", "v2", "v3", "v4"}
  Groups = {"g", "h"}
  Tips = {"t1"}
  FinalCohort = 1
  MinCohort = 1
  FinalExecutions = 3
  InstrumentCap = 3
  FamilyCap = 3
  Time = {0}
  Genesis <- MCGenesis
  Requests <- OutgrowOrSeal
  Inputs <- Mistaken
  Runs = {1}
  MaxMain = 3
  MaxAttempts = 2
  MaxPolls = 1
INVARIANTS
  TruthBehindSeal
  UnveiledTrialsComplete
  EvidenceWithoutPayloads
\* Nothing is left to do once every run has used its attempts.
CHECK_DEADLOCK FALSE
