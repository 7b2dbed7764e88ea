SPECIFICATION Spec
CONSTANTS
    Size = 3
    WordSize = 16
    Byte = {0, 1}
    MaxAmount = 4
INVARIANTS TypeOK IndexBounds ShortCountMeansLimit
PROPERTY ImplementsByteFifo
