SPECIFICATION Spec
CONSTANTS
  Claims = {c1}
  MayFail = TRUE
  Sids = {s1, s2}
  NoSid = none
  Conns = {k1}
  Proven = {k1}
  MaxWaiting = 2
  MaxOutages = 1
INVARIANTS
    OpenIsPublished
    InTimeIsNamed
    
PROPERTIES
    StripLearns
CHECK_DEADLOCK FALSE
