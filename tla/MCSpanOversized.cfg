SPECIFICATION Spec
CONSTANTS
    WordBits = 6
    PageBits = 2
    NumColourBits = 1
INVARIANT SpanOversizedIsPartialOnly
