CONSTANTS
    Request = {r1, r2, r3}
    Worker = {w1, w2}
    Limit = 1
    Window = 3
    Delay = 1
    MaxTime = 5
SPECIFICATION Spec
SYMMETRY Symmetry
INVARIANTS RedisKeepsTheLimit MemoryKeepsTwiceTheLimit RefusedForCause
