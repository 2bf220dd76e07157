SPECIFICATION Spec
CONSTANTS
  Lines <- MCLines
  MaxLines = 6
  Abbreviations <- MCAbbreviations
  PortsOf <- MCPortsOf
  NumberOf <- MCNumberOf
INVARIANTS TypeOK ScriptOnTarget
PROPERTIES RefusedLeavesPlace DoKeepsPlace ImplementsCliContext
CHECK_DEADLOCK FALSE
