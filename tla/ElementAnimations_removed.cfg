CONSTANTS
  Scenarios <- RemovedScenarios
  Keyframes <- SomeKeyframes
  NotANumber = NotANumber
  NoStyle = NoStyle
  NoValue = NoValue
  ChangeMax = 4
SPECIFICATION Spec
CHECK_DEADLOCK FALSE
INVARIANT ComputedUpToDate
