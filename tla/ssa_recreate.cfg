CONSTANTS
    f = f
    g = g
    wide = wide
    narrow = narrow
    Field <- MCField
    Manifest <- MCManifest
    Sets <- MCSets
    RemoveManagedFields = FALSE
    MaxFaults = 2
SPECIFICATION FairSpec
PROPERTY ComesBack
CHECK_DEADLOCK FALSE
