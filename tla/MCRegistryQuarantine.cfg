SPECIFICATION Spec
CONSTANTS
  c1 = c1
  c2 = c2
  c3 = c3
  k1 = k1
  k2 = k2
  None = None
  Cases = {c1, c2, c3}
  Corpora = {k1, k2}
  Campaigns = {"m1", "m2"}
  Values = {"v0", "v1", "v2", "v3"}
  Groups = {"g"}
  Tips = {"t1", "t2"}
  FinalCohort = 2
  MinCohort = 1
  FinalExecutions = 3
  InstrumentCap = 2
  FamilyCap = 2
  Time = {0}
  MaxEvents = 4
  Imports <- MCImports
  Requests <- MCRequests
INVARIANT
  AssignedSourcesUntouched
\* The registry stops at MaxEvents, or when no request is acceptable.
CHECK_DEADLOCK FALSE
