SPECIFICATION Spec
CONSTANTS
  c1 = c1
  c2 = c2
  c3 = c3
  k1 = k1
  k2 = k2
  k3 = k3
  None = None
  Cases = {c1, c2, c3}
  Corpora = {k1, k2, k3}
  Campaigns = {"m1", "m2"}
  Values = {"v0", "v1", "v2", "v3"}
  Groups = {"g", "h"}
  Tips = {"t1", "t2"}
  FinalCohort = 2
  MinCohort = 1
  FinalExecutions = 3
  InstrumentCap = 3
  FamilyCap = 3
  Time = {0, 1}
  MaxEvents = 11
  Imports <- MCImports
  Requests <- MCRequests
INVARIANTS
  TypeOK
  TimeOrdered
  TruthPrecedesExecution
  FinalCaseExecutedOnce
  ReleasedToExecutedTip
  RefusalReviewedFirst
  ReviewedPropertyOnce
  JudgementChain
\* The registry stops at MaxEvents, or when no request is acceptable.
CHECK_DEADLOCK FALSE
