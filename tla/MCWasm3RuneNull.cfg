SPECIFICATION RuneSpec
CONSTANTS
    IdMod = 4
    CacheSizeLimit = 1
    MaxSaves = 2
    MaxCalls = 2
INVARIANT
    CallYieldsResult
CHECK_DEADLOCK FALSE
