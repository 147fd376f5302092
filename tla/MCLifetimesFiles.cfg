SPECIFICATION Spec
CONSTANTS
    Delegate = {d1}
    MaxRuntimes = 1
    MaxLoads = 2
    Lacking <- MCLacking
    Storable <- MCStorable
INVARIANT
    FilesStayMapped
CHECK_DEADLOCK FALSE
