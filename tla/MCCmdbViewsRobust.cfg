SPECIFICATION Spec
CONSTANTS
    SystemFacts <- MCSystemFacts
    MaxRows = 2
INVARIANTS
    AddressViewsRobust
