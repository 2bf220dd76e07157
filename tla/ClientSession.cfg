SPECIFICATION FairSpec
CONSTANTS
  MaxCalls = 2
  Ops <- AllOps
  SwitchPorts = 5
INVARIANTS TypeOK SessionBacked
PROPERTIES NoEffectAfterAnswer ImplementsWriteCall CallReturns
