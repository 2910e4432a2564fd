SPECIFICATION Spec
CONSTANTS
    WordBits = 12
    PageBits = 2
    NumColourBits = 1
    NumLevels = 4
    TranslationBits = 11
    LevelIndexBits <- MCLevelIndexBits
    LevelSizeBits <- MCLevelSizeBits
    KI_WINDOW_START = 3072
    KI_WINDOW_END = 4095
    KI_PPTR_START = 3072
    KI_PPTR_END = 3584
    KI_DEVICE_START = 3840
    KI_DEVICE_END = 4095
    KI_MAP_PPTR_DEPTH = 1
    KI_MAP_DEVICE_DEPTH = 1
    ElfLayouts <- MCOneLayout
    PT_INDEX_BITS = 3
    CONFIG_PT_LEVELS = 3
    PPTR_BASE_OFFSET = 3072
    KERNEL_ELF_BASE_OFFSET = 3584
    Images <- MCThreeImages
    MaxFrame = 39
    MemoryPool <- MCThreePools
    DeviceFrame = 64
    VSpaceRoot <- MCNoVSpace
    StackWordSize = 1
    StackValues = {7}
    MaxStackWords = 2
INVARIANTS
    CloneAndSwitchAssertsHold
    RunnableImagesComplete
PROPERTIES
    Isolation
