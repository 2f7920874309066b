SPECIFICATION Spec
CONSTANTS
    Hashes = {h1}
    Recordings = {d1}
    Roots = {r1}
    Announced = {r1}
    Uploads = {u1, u2}
    Releases = {x1}
    Collector = Collector
    Free = Free
    Grace = 1
    MaxTime = 1
    Hazards = {}
SYMMETRY Symmetry
INVARIANTS
    DurableCopy
    OwnersRecorded
    LockHasWorker
