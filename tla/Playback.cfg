SPECIFICATION Spec
CONSTANTS
  Recs = {r1, r2}
  None = none
  Configs <- MCConfigs
  MaxRuns = 3
  MaxHeard = 1
  Length = 1
INVARIANTS
    HeardIsCurrent
    PlaysWereHeard
    TransportIsTrue
CHECK_DEADLOCK FALSE
