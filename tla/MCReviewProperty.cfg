SPECIFICATION Spec
CONSTANTS
  c1 = c1
  c2 = c2
  k1 = k1
  None = None
  Cases = {c1, c2}
  Corpora = {k1}
  Campaigns = {"final"}
  Values <- MCValues
  Groups = {"g"}
  Tips = {"t1"}
  FinalCohort = 1
  MinCohort = 1
  FinalExecutions = 3
  InstrumentCap = 3
  FamilyCap = 3
  NumberWord <- NoWord
  TensWord <- NoWord
  Roman <- MCRoman
  RomanDigits = {}
  Digits <- MCDigits
  AfterLabel <- NoWord
  Runs = {1, 2}
  Inputs <- EachCase
  Readings <- Spelled
  Returned <- MCReturned
  Time = {0}
  Genesis <- MCGenesis
  MaxMain = 1
  MaxAttempts = 1
  MaxCalls = 1
  MaxCases = 2
INVARIANTS
  SealedReviewsAgreed
  SharedGroupsRefused
\* Nothing is left to do once every run has ended and its reviews are sealed.
CHECK_DEADLOCK FALSE
