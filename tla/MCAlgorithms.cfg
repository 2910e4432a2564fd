SPECIFICATION AlgorithmsSpec
CONSTANTS
    WordBits = 6
    PageBits = 2
    NumColourBits = 1
    min = 1
    max = 2
    ULONG_MAX = 255
    Denominator <- MCParts
INVARIANTS
    SpanCountsBlocksTouched
    NextPageOfColourNeverSkips
    InPageOfColourMeansWholeRegion
    OddRowsFilteredByTukey
    PlotAccountsForEveryEntry
    PlotLabelsLieInTheirBins
    RowSpreadIsAroundTheMean
