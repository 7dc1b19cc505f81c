CONSTANTS
    f = f
    g = g
    wide = wide
    narrow = narrow
    Field <- MCField
    Manifest <- MCManifest
    Sets <- MCSets
    RemoveManagedFields = FALSE
    MaxFaults = 4
SPECIFICATION FairSpec
INVARIANTS TypeOK UpToDateIsTrue
PROPERTIES OthersKeepOwnership SwitchCompletes ConvergesWhilePresent
CHECK_DEADLOCK FALSE
