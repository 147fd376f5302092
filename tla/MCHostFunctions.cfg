SPECIFICATION HostSpec
CONSTANTS
    Imports <- MCImports
    Passed <- MCPassed
    BlobAt <- MCBlobAt
    StringsAt <- MCStringsAt
    IntMod = 256
    SizeMod = 65536
    Blob = {"sine", "garbage"}
    TensorSizes <- MCTensorSizes
    Descriptions <- MCDescriptions
    ViewSize = {0, 1, 4}
    Capability <- MCCapability
    DelegateVectors <- MCVectors
    DefaultCapability <- MCDefault
    Key <- MCKey
    Param <- MCParam
    IdMod = 5
    MaxGrants = 2
    MaxLoads = 2
    MaxRuns = 1
    CacheSizeLimit = 1
    MaxSaves = 1
    MaxOutputs = 2
INVARIANTS
    HostTypeOK
    ReadsWhatIsPassed
    WasmKnowsItsCapabilities
    WasmKnowsItsIds
CHECK_DEADLOCK FALSE
