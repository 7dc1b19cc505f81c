CONSTANTS
    a = a
    b = b
    ra = ra
    rb = rb
    Object <- OneObject
    Resource <- MCResource
    Manifest <- OneManifest
    Refs <- RefsToOther
    Existing <- OtherResource
    Policies <- AnyPolicy
    MaxUID = 3
    MaxFaults = 2
SPECIFICATION Spec
INVARIANTS NoOrphanedResource NoOrphanedReferenceFinalizer
PROPERTY LiveResourceSpared
CHECK_DEADLOCK FALSE
