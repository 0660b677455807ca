SPECIFICATION Spec
CONSTANTS
  Element <- MCElement
  Root = "r"
  Children <- MCChildren
  Name <- MCName
  Kind <- MCKind
  Sheets <- MCSheets
  InitialNames <- MCInitialNames
  MayChange <- MCMayChange
  MayHint <- MCMayHint
  ChangeMax = 2
  InvalidationsMax = 1
CHECK_DEADLOCK FALSE
INVARIANTS
  RulesFound
  StyledAsMatched
  NoRepeats
