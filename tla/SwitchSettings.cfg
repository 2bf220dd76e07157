SPECIFICATION Spec
CONSTANTS
  CLIs = {cli1, cli2}
  Ports = {1, 2, 3}
  DefaultPorts = {1, 2, 3, 4}
  Rates = {0, 512}
  Addresses = {10, 20}
  HostNames = {"sw1", "sw2"}
  Vids = {1, 2}
  Menus <- AllMenus
  MaxCommands = 3
SYMMETRY Either
INVARIANTS TypeOK DoneAsPromised
PROPERTIES OthersKept WithinSelection RefusedWhole
CHECK_DEADLOCK FALSE
