\* Up to three safeguards of two keys and of none change and grow old; statements of many spellings.
CONSTANTS
  Never = Never
  Scale = 10
  Precision = 1000
  Second = 2
  Day = 2
  Lower <- Spelling
  Keys = {0, 1, 2}
  Effectivenesses = {3, 5}
  Intervals = {1}
  Scenarios <- AllScenarios
  Ahead = 1
  MaxRows = 3
  MaxTime = 4
SPECIFICATION MCSpec
INVARIANTS EvaluationAsDefined OrderIrrelevant EffectiveCounts LayersNeverHurt WaitingNeverHelps PathsComplete
CHECK_DEADLOCK FALSE
