---------------------------- MODULE MCProvenance ----------------------------
EXTENDS Provenance
CONSTANTS u1, u2, u3, c1
MCClaimOf == [u \in Uploads |-> c1]
MCBodyOf == [u \in Uploads |-> IF u = u3 THEN "revocation" ELSE "audio"]
=============================================================================
