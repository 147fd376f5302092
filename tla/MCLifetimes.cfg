SPECIFICATION Spec
CONSTANTS
    Delegate = {d1}
    MaxRuntimes = 1
    MaxLoads = 2
    Lacking <- MCLacking
    Storable <- MCStorable
INVARIANTS
    LifetimesTypeOK
    
    OneModuleOwner
    CompleteRunesHaveTheirBytes
    OnlyLoopsLeak
PROPERTY
    EverythingIsReleased
CHECK_DEADLOCK FALSE
