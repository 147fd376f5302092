SPECIFICATION Spec
CONSTANTS
    IntMod = 256
    SizeMod = 65536
    Blob = {"sine", "gesture", "garbage"}
    TensorSizes <- MCTensorSizes
    Descriptions <- MCDescriptions
    ViewSize = {0, 1, 4}
    IdMod = 4
    MaxLoads = 3
    MaxRuns = 2
INVARIANTS
    TypeOK
    IdsAreDense
    FreshOutputs
    OnlyTrueDescriptionsRun
PROPERTY
    ModelsAreStable
