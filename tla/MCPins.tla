-------------------------------- MODULE MCPins --------------------------------
EXTENDS Pins, TLC
CONSTANTS r1, r2, claim, vouch, session
\* One recording lists its own claim and its vouch, both list the session record.
MCListed == (r1 :> {claim, vouch, session}) @@ (r2 :> {session})
MCKind == (claim :> "claim") @@ (vouch :> "link") @@ (session :> "record")
=============================================================================
