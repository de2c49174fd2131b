CONSTANTS
  NumEvals = 2
  MaxReads = 2
  RetryLimit = 2
  MaxFailures = 3
  MaxCrashes = 2
  Settings <- AllSettings
SPECIFICATION FairSpec
INVARIANTS
  KeepsRecords
  RecordsGenuine
  RecordedNotRerun
PROPERTY Settles
CHECK_DEADLOCK FALSE
