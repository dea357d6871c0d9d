SPECIFICATION FairSpec
CONSTANTS
  k1 = k1
  k2 = k2
  run1 = run1
  unit1 = unit1
  Requests <- RacingRequests
  Keys = {k1, k2}
  Aggregates = {run1, unit1}
  MaxFaults = 1
  MaxLives = 3
INVARIANTS
  AtMostOnce
  NoLateEvent
  RecoveryNeverRefuses
PROPERTIES
  AnswersAgree
  ImplementsCommandLog
  EveryRequestAnswered
