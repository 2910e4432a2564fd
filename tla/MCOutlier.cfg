SPECIFICATION ToolsSpec
CONSTANTS
    min = 1
    max = 2
    ULONG_MAX = 255
    Denominator <- MCParts
INVARIANT
    TukeyRangeTest
