SPECIFICATION Spec
CONSTANTS
  NumberWord <- MCNumberWord
  TensWord <- MCTensWord
  Roman <- MCRoman
  RomanDigits = {"C"}
  Digits <- MCDigits
  AfterLabel <- NoWord
  Fields = {"county", "subdivision", "lot", "parcel"}
  Numbers = {0, 20, 22}
  Names = {"C", "ONE", "LAKE"}
  MaxWords = 4
INVARIANTS
  ReadsAsMeant
  ReadsTheSameAgain
\* A text of MaxWords words is finished.
CHECK_DEADLOCK FALSE
