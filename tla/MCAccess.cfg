SPECIFICATION Spec
CONSTANTS
  Threshold = 2
  MaxOutages = 1
  MaxEvidence = 2
  Slots = {1, 2}
  Queries = {1, 2}
  Sessions = {1, 2, 3}
  Models = {1, 2}
  MaxReplay = 1
  MaxReady = 1
  MaxPending = 2
  MaxChanges = 1
  Keys <- MCKeys
PROPERTIES GuardedProviderCall OutageEnds
CHECK_DEADLOCK FALSE
