SPECIFICATION Spec
CONSTANTS
  r1 = r1
  r2 = r2
  claim = claim
  vouch = vouch
  session = session
  Recs = {r1, r2}
  Statements = {claim, vouch, session}
  Listed <- MCListed
  Kind <- MCKind
  Clients = {"web", "electron"}
  MaxPresses = 4
  CopyPresses = 1
  MaxFailures = 1
  MaxReloads = 1
INVARIANTS
    
    CopiedInOrder

    
CHECK_DEADLOCK FALSE
