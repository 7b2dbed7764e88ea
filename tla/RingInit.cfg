SPECIFICATION Spec
CONSTANTS
    Size = 3
    WordSize = 16
    MaxFiles = 3
INVARIANTS SetUpInv NoLeak DoubleMapped OrphansAccounted
PROPERTY FreshRing
