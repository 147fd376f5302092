SPECIFICATION RuneSpec
CONSTANTS
    IdMod = 6
    CacheSizeLimit = 2
    MaxSaves = 4
    MaxCalls = 4
INVARIANTS
    RuneTypeOK
    CacheBounded
    NextIdIsFree
    CachedIdsAreRecent
    OneOwner
    LastSavedIsNewest
    DeliveredInOrder
    StaleOnlyAfterTraps
PROPERTIES
    PendingLostOnlyByReset
    ReturnsOwnLastSave
    ImplementsMailbox
CHECK_DEADLOCK FALSE
