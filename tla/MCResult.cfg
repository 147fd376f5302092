SPECIFICATION Spec
CONSTANTS
    MaxResults = 3
    MaxElements = 4
INVARIANT
    WrittenWhole
CHECK_DEADLOCK FALSE
