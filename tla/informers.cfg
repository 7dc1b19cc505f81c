CONSTANTS
    a = a
    b = b
    res = res
    ref = ref
    kres = kres
    kref = kref
    i1 = i1
    i2 = i2
    None = None
    Object <- MCObject
    Kind <- MCKind
    Resource <- MCResource
    KindOf <- MCKindOf
    Target <- MCTarget
    References <- MCReferences
    Watching <- MCObject
    Informer <- MCInformer
    MaxFaults = 1
SPECIFICATION FairSpec
INVARIANTS TypeOK NoLeakedInformer 
PROPERTIES KindsServed UnusedStop
CHECK_DEADLOCK FALSE
