SPECIFICATION Spec
CONSTANTS
    Writers = {w1, w2}
    Readers = {r1, r2}
    Items = 6
    PerWriter = 3
    Null = Null
INVARIANTS InfInv SeqnoRises HandedOnce
PROPERTY EveryoneReturns
