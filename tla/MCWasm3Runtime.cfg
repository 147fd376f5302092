SPECIFICATION Spec
CONSTANTS
    Blob = {"sine", "noCall", "noManifest"}
    Exports <- MCExports
    IdMod = 3
    MaxLoads = 4
INVARIANTS
    TypeOK
    IdsInOrder
    OwnCode
CHECK_DEADLOCK FALSE
