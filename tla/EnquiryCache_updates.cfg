SPECIFICATION Spec
CONSTANTS
    r1 = r1
    x1 = x1
    x2 = x2
    w1 = w1
    NoLock = NoLock
    MaxVersion = 2
    Reader = {r1}
    Writer = {x1, x2}
    Worker = {w1}
CONSTRAINT FirstIsX1
INVARIANTS CoherentUnlessExposed NoOldAnswer
PROPERTIES EveryReaderServed EntryCatchesUp
