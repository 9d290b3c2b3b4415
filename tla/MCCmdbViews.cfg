SPECIFICATION Spec
CONSTANTS
    SystemFacts <- MCSystemFacts
    MaxRows = 2
INVARIANTS
    InterfacesAudited
    LoopbackAloneHidden
    MissingIsNull
    PrefixKept
PROPERTIES
    HealedByPurgeOnly
