SPECIFICATION FairSpec
CONSTANTS
  a1 = a1
  a2 = a2
  b1 = b1
  a = a
  b = b
  Clients = {a1, a2, b1}
  Callers = {a, b}
  CallerOf <- MCCallerOf
  Depth = 2
  Quota = 2
  Impatient = {b1}
INVARIANT AnswerIsTruthful
PROPERTIES NoOvertaking EveryRequestAnswered
