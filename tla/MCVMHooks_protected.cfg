SPECIFICATION Spec
CHECK_DEADLOCK FALSE
CONSTANTS
    MaxUint = 15
    Base = 4
    PageSize = 3
    MaxPages = 2
    Self <- MCSelf
    Other <- MCOther
    BalanceLen = 2
    Arguments <- MCArguments
    Contracts <- MCContracts
    WellFormedNames = {"main", "finish"}
    BuiltInFunctions = {}
    ESDTEnabled = TRUE
    Env <- MCEnv
    ApiCost = 1
    DataCopyPerByte = 0
    PersistPerByte = 0
    StorePerByte = 1
    GasGiven = 1
    Offsets <- MCOffsets
    Slots <- MCSlots
    TokenSlots <- MCTokenSlots
    Handles <- MCHandles
    Words <- MCWords
    Ids <- MCIds
    Bits <- MCBits
    ProtectedValues <- MCProtectedValues
    MaxDepth = 1
INVARIANTS ProtectedKeysComeFromTheNode
