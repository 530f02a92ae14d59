CONSTANTS
    Tasks <- AllTasks
    Pictures <- MCPictures
    Maps <- MCMaps
    Desired = 8
    Width = 3
    MaxPasses = 2
    ALIGN_SIZE = 4
    MAX_ALLOC_CHUNK = 64
    MIN_SLOP = 5
    first_pool_slop <- FirstSlop
    extra_pool_slop <- ExtraSlop
    HeaderSize = 3
    ControlSize = 10
    ArrayControl = 9
    PointerSize = 2
    BlockSize = 8
    SystemMemory = 112
    Misalignments = {1, 2}
    Limits = {60}
    Objects <- MCObjects
    Arrays <- MCArrays
    VirtualArrays <- MCVirtualArrays
SPECIFICATION Spec
INVARIANTS
    TransformsHold
    ColorsConverted
    PlanesFilled
    DataReturn
    ColorsShown
    SamePassSameOutput
    ObjectsInPlace
    MemoryAccounted
CHECK_DEADLOCK FALSE
