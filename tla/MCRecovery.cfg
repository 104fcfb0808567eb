SPECIFICATION Spec
CONSTANTS
  MaxKeys = 2
  MaxFaults = 1
  MaxProcs = 2
  MaxArchives = 2
  MaxArtifacts = 2
  MaxHosts = 1
INVARIANTS
  CustodyResumable
  OlderBackupRefused
  ReadyMeansRestorable
PROPERTY FreshProcessRetires
CHECK_DEADLOCK FALSE
