CONSTANTS
    a = a
    b = b
    ra = ra
    rb = rb
    Object <- TwoObjects
    Resource <- MCResource
    Manifest <- OwnManifests
    Refs <- RefsToBoth
    Existing <- NoResource
    Policies <- AOrphans
    MaxUID = 1
    MaxFaults = 1
SPECIFICATION Spec
INVARIANTS TypeOK NoOrphanedResource NoOrphanedReferenceFinalizer PromisesKept
PROPERTY KeepsContract
CHECK_DEADLOCK FALSE
