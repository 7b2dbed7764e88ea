SPECIFICATION Spec
CONSTANTS
    Size = 8
    WordSize = 32
    Rec = 3
    Total = 18
    InFlight = 18
INVARIANT NeverTruncated
