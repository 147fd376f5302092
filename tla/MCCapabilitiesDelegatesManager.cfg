SPECIFICATION Spec
CONSTANTS
    Capability <- MCCapability
    DelegateVectors <- MCVectors
    DefaultCapability <- MCDefault
    Key = {low, upp}
    Param = {p, q}
    IdMod = 3
    MaxGrants = 2
INVARIANTS
    TypeOK
    HeldEntryExists
    BoundAsPassed
    OfferedIdIsFree
PROPERTY
    ImplementsRegistry
