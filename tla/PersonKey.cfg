SPECIFICATION KeySpec
CONSTANTS
  t1 = t1
  t2 = t2
  Tabs = {t1, t2}
  MaxKeys = 3
  MaxOpens = 3
  MaxFaults = 1
  MaxMoves = 1
INVARIANTS
    ShownIsStored
    MarksAreTrue
PROPERTIES
    TasksEnd
CHECK_DEADLOCK FALSE
