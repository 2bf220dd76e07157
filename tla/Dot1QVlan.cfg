SPECIFICATION Spec
CONSTANTS
  CLIs = {cli1, cli2}
  Ports = {1, 2, 3, 9}
  Vids = {1, 2, 3}
  Requests <- Mixed
  MaxCommands = 3
SYMMETRY Either
INVARIANTS TypeOK NeverBridged SwitchportDone MembersDisjoint
PROPERTY OtherPortsKept
CHECK_DEADLOCK FALSE
