SPECIFICATION ServerSpec
CONSTANTS
  g1 = g1
  Guest = {g1}
  MaxCalls = 2
  MaxSockets = 2
  MaxChallenges = 1
  MaxEvents = 2
  MaxFaults = 2
  MaxLooks = 1
  Patient = TRUE
INVARIANTS
    
    PanelIsRight
PROPERTIES
    GuestsReturn
CHECK_DEADLOCK FALSE
