SPECIFICATION Spec
CONSTANTS
    Tabs = {t1, t2}
    Hosts = {remote}
    LocalHost = local
    Cap = 2
    MaxPlays = 3
    MayRefuse = TRUE
SYMMETRY TabSymmetry
INVARIANTS
    PlaysAccountedFor
    QueueInOrder
    NoStrandedPlay
