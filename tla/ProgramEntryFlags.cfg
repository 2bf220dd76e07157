SPECIFICATION Spec
CONSTANTS
  CommandLines <- SplitLines
  Ranges <- MCRanges
  Libraries <- MCLibraries
  Known <- MCKnown
  Files <- MCFiles
  Pairs <- MCPairs
  Width = 4
INVARIANTS FlagsHonoured
CHECK_DEADLOCK FALSE
