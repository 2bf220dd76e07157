SPECIFICATION FairSpec
CONSTANTS
  NumHosts = 3
  Workers = 2
  FingerprintOnly = FALSE
INVARIANTS TypeOK ResultsReceptive SessionsClosed
PROPERTIES ImplementsScanReport
CHECK_DEADLOCK FALSE
