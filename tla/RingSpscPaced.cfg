SPECIFICATION Spec
CONSTANTS
    Size = 8
    WordSize = 32
    Rec = 2
    Total = 40
    InFlight = 6
INVARIANTS PacedInv NeverStray SeqnumInOrder CopiesDisjoint
PROPERTIES ImplementsByteFifo BothDone
