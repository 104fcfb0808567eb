SPECIFICATION HistorySpec
CONSTANTS
  plain = plain
  shielded = shielded
  Ids = {plain, shielded}
  Shielded = {shielded}
  Scores = {41, 42}
  Capacity = 1
  TwilightCycles = 2
  TwilightTicks = 2
  MaxLocks = 1
  MaxCrests = 2
  CallerCycles = {0, 2}
  MaxNow = 3
  MaxCycles = 4
INVARIANTS TypeOK LockedIsLive CompressedIffFaded
PROPERTIES CapacityHeld EvictionEarned CapacityTakesLowest ImplementsLifecycle
