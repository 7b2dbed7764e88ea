SPECIFICATION Spec
CONSTANTS
    Size = 6
    WordSize = 24
    Rec = 2
    Total = 20
    InFlight = 20
INVARIANT SeqnumInOrder
