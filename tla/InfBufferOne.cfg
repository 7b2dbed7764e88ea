SPECIFICATION Spec
CONSTANTS
    Writers = {w1}
    Readers = {r1, r2}
    Items = 5
    PerWriter = 5
    Null = Null
INVARIANTS NeverNull NothingSkipped
PROPERTY EveryoneReturns
