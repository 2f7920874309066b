SPECIFICATION Spec
CONSTANTS
    Events = {e1, e2}
    Instances = {i1, i2}
    NoInstance = NoInstance
    MaxDay = 4
    Retention = 1
    ResendWindow = 1
    MaxCopies = 2
    Faults = {"torn", "partialError", "overlap", "noAggregates", "noBaseline", "noSegment"}
    MaxFaults = 1
SYMMETRY Symmetry
INVARIANTS
    AtMostOnce
    
    RollupMatchesDisk
    IndexCoversLog
PROPERTIES
    PlaysNeverDecrease
    
