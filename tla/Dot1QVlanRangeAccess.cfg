SPECIFICATION Spec
CONSTANTS
  CLIs = {cli1}
  Ports = {1, 2, 3}
  Vids = {1, 2}
  Requests <- RangeAccess
  MaxCommands = 1
INVARIANTS AccessVlanSet
CHECK_DEADLOCK FALSE
