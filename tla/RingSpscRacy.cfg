SPECIFICATION Spec
CONSTANTS
    Size = 6
    WordSize = 24
    Rec = 2
    Total = 18
    InFlight = 20
INVARIANTS RaceInv NeverTruncated
PROPERTIES Terminates
