SPECIFICATION FairSpec
CONSTANTS
  a = a
  b = b
  bad = bad
  None = None
  Calls = {a, b, bad}
  Malformed <- MCMalformed
  Paths = {"p", "q"}
  MaxAttempts = 2
INVARIANTS
  TypeOK
  ReceiptsNumberedApart
  UsedAnswersAreLogged
  FilesOfOneCall
PROPERTY
  EveryRequestEnds
\* Nothing is left to do once every call has ended and the broker is stopped.
CHECK_DEADLOCK FALSE
