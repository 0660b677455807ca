CONSTANTS
  Scenarios <- SomeScenarios
  Keyframes <- SomeKeyframes
  NotANumber = NotANumber
  NoStyle = NoStyle
  NoValue = NoValue
  ChangeMax = 4
SPECIFICATION Spec
CHECK_DEADLOCK FALSE
INVARIANTS AnimationsSound ComputedUpToDate
PROPERTIES NoJump Settles
