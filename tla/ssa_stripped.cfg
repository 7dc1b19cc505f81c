CONSTANTS
    f = f
    g = g
    wide = wide
    narrow = narrow
    Field <- MCField
    Manifest <- MCManifest
    Sets <- MCSets
    RemoveManagedFields = TRUE
    MaxFaults = 1
SPECIFICATION FairSpec
PROPERTY SwitchCompletes
CHECK_DEADLOCK FALSE
