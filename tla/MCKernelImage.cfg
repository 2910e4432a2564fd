SPECIFICATION Spec
CONSTANTS
    WordBits = 12
    PageBits = 2
    NumColourBits = 1
    NumLevels = 4
    TranslationBits = 11
    LevelIndexBits <- MCLevelIndexBits
    LevelSizeBits <- MCLevelSizeBits
    KI_WINDOW_START = 3072
    KI_WINDOW_END = 4095
    KI_PPTR_START = 3072
    KI_PPTR_END = 3584
    KI_DEVICE_START = 3840
    KI_DEVICE_END = 4095
    KI_MAP_PPTR_DEPTH = 1
    KI_MAP_DEVICE_DEPTH = 1
    ElfLayouts <- MCElfLayouts
    PT_INDEX_BITS = 3
    CONFIG_PT_LEVELS = 3
    PPTR_BASE_OFFSET = 3072
    KERNEL_ELF_BASE_OFFSET = 3584
    Images <- MCImages
    MaxFrame = 39
    MemoryPool <- MCMemoryPool
    DeviceFrame = 64
    VSpaceRoot <- MCVSpaceRoot
    StackWordSize = 2
    StackValues = {7}
    MaxStackWords = 3
INVARIANTS
    TypeOK
    CloneAndSwitchAssertsHold
    RunnableImagesComplete
    HartFollowsCurrentImage
PROPERTIES
    BoundVSpaceStaysCurrent
    CloneFidelity
    Isolation
    FirstSwitchKeepsLiveStack
    SwitchResumesSavedStack
    ImplementsLifecycle
