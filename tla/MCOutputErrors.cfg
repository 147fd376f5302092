SPECIFICATION ErrorSpec
CONSTANTS
    IdMod = 6
    CacheSizeLimit = 2
    MaxSaves = 4
PROPERTY
    CleanedOnlyInError
