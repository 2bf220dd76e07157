SPECIFICATION Spec
CONSTANTS
  CommandLines <- MCCommandLines
  Ranges <- MCRanges
  Libraries <- MCLibraries
  Known <- MCKnown
  Files <- MCFiles
  Pairs <- MCPairs
  Width = 4
INVARIANTS TypeOK OneModeOnly LoggedOutOnSuccess HostsProbed StructureAccounted DiffFaithful
CHECK_DEADLOCK FALSE
