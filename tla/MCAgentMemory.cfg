SPECIFICATION Spec
CONSTANTS
  MaxIds = 3
  MaxNow = 1
  LiveTicks = 1
  MaxEffective = 1
  MaxFaults = 1
INVARIANTS TypeOK CommittedIsManaged RememberedSurvives ChainsSound
  NoHalfRemembered NoOrphanLogic
