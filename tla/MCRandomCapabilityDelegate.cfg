SPECIFICATION RandSpec
CONSTANTS
    Capability <- MCCapability
    DelegateVectors <- MCVectors
    DefaultCapability <- MCDefault
    Key = {"low_bound", "upp_bound"}
    Param <- MCParam
    NaN <- MCNaN
    NotFloat <- MCNotFloat
    TwoPi = 2
    IdMod = 2
    MaxGrants = 3
INVARIANTS
    RandTypeOK
    OwnedHaveEngine
    ShownRangeIsUsed
PROPERTY
    DrawnAsShown
