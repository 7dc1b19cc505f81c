CONSTANTS
    here = here
    there = there
    other = other
    web = web
    sidecar = sidecar
    replicas = replicas
    image = image
    label = label
    Object <- MCObject
    NameOf <- MCNameOf
    FieldsOf <- MCFieldsOf
    Legacy = Legacy
    LegacyFields = {}
SPECIFICATION Spec
PROPERTIES FieldsKept
CHECK_DEADLOCK FALSE
