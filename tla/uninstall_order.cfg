CONSTANTS
    a = a
    b = b
    ra = ra
    rb = rb
    Object <- TwoObjects
    Resource <- MCResource
    Manifest <- OwnManifests
    Refs <- RefsToObject
    Existing <- NoResource
    Policies <- AllFull
    MaxUID = 1
    MaxFaults = 0
SPECIFICATION Spec
PROPERTY UninstallOrder
CHECK_DEADLOCK FALSE
