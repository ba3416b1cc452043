SPECIFICATION FairSpec
CONSTANTS
  c1 = c1
  c2 = c2
  k1 = k1
  None = None
  Cases = {c1, c2}
  Corpora = {k1}
  Campaigns = {"final"}
  Values <- MCValues
  Groups = {"g"}
  Tips = {"t1"}
  FinalCohort = 1
  MinCohort = 1
  FinalExecutions = 3
  InstrumentCap = 3
  FamilyCap = 3
  NumberWord <- NoWord
  TensWord <- NoWord
  Roman <- MCRoman
  RomanDigits = {}
  Digits <- MCDigits
  AfterLabel <- NoWord
  Runs = {1}
  Inputs <- AnyTogether
  Readings <- Few
  Returned <- MCReturned
  Time = {0}
  Genesis <- MCGenesis
  MaxMain = 2
  MaxAttempts = 2
  MaxCalls = 2
  MaxCases = 2
INVARIANTS
  TypeOK
  NoEvidenceBehindSeal
PROPERTY
  EveryReviewEnds
\* Nothing is left to do once every run has ended and its reviews are sealed.
CHECK_DEADLOCK FALSE
