SPECIFICATION Spec
CONSTANTS
  NumberWord <- MCNumberWord
  TensWord <- MCTensWord
  Roman <- MCRoman
  RomanDigits = {"C"}
  Digits <- MCDigits
  AfterLabel <- NorthAndLotus
  Fields = {"lot"}
  Numbers = {2, 20, 22}
  Names = {"C", "NORTH", "LOTUS"}
  MaxWords = 2
INVARIANTS
  LabelsImmaterial
\* A text of MaxWords words is finished.
CHECK_DEADLOCK FALSE
