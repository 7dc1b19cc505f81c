CONSTANTS
    a = a
    b = b
    ra = ra
    rb = rb
    Object <- TwoObjects
    Resource <- MCResource
    Manifest <- OwnManifests
    Refs <- RefsToBoth
    Existing <- NoResource
    Policies <- AllFull
    MaxUID = 1
    MaxFaults = 1
SPECIFICATION Spec
INVARIANT ReferencesProtected
CHECK_DEADLOCK FALSE
