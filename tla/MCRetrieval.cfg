SPECIFICATION RetrievalSpec
CONSTANTS
  MaxStored = 4
  MaxLinked = 5
INVARIANT RivalsTogether
INVARIANT ContextComplete
CHECK_DEADLOCK FALSE
