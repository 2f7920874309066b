SPECIFICATION Spec
CONSTANTS
  u1 = u1
  u2 = u2
  u3 = u3
  c1 = c1
  Uploads = {u1, u2, u3}
  Claims = {c1}
  ClaimOf <- MCClaimOf
  BodyOf <- MCBodyOf
  MaxReceipts = 2
  MaxMishaps = 1
  ViaVouch = TRUE
INVARIANTS
    
    HonestPasses
    
CHECK_DEADLOCK FALSE
