CONSTANTS
    a = a
    b = b
    ra = ra
    rb = rb
    Object <- TwoObjects
    Resource <- MCResource
    Manifest <- OwnManifests
    Refs <- RefsCross
    Existing <- NoResource
    Policies <- AllFull
    MaxUID = 1
    MaxFaults = 1
SPECIFICATION FairSpec
PROPERTIES DeletionCompletes TeardownCompletes Converges
CHECK_DEADLOCK FALSE
