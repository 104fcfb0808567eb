SPECIFICATION MigrationSpec
CONSTANTS
  MaxSource = 3
  MaxAdopted = 1
  MaxTarget = 3
  MaxEff = 1
  MaxNow = 1
  LiveTicks = 1
  MaxEdits = 1
  MaxFailures = 1
INVARIANTS
  UpgradeResumes
  RaisedLeavesNothing
  MigratedVerifies
  VerifiedIsFaithful
