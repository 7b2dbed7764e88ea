SPECIFICATION Spec
CONSTANTS
    Writers = {w1, w2}
    Readers = {r1}
    Items = 4
    PerWriter = 2
    Null = Null
INVARIANT NeverNull
