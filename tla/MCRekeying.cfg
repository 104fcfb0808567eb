SPECIFICATION Spec
CONSTANTS
  MaxKeys = 3
  MaxFaults = 1
  MaxRecords = 2
  BatchSize = 1
INVARIANTS
  EverythingReadable
  VerifiedMeansDone
  VerifiedEnvelopeIsPure
  Reopens
PROPERTY EachCallAdvances
CHECK_DEADLOCK FALSE
