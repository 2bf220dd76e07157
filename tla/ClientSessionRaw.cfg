SPECIFICATION Spec
CONSTANTS
  MaxCalls = 2
  Ops <- RawOps
  SwitchPorts = 5
INVARIANTS RawAnswersAreData
