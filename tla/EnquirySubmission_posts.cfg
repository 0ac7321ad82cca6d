SPECIFICATION Spec
CONSTANTS
    r1 = r1
    r2 = r2
    w1 = w1
    w2 = w2
    k1 = k1
    p1 = p1
    p2 = p2
    confirmation = confirmation
    NoKey = NoKey
    NoEnquiry = NoEnquiry
    Request = {r1, r2}
    Worker = {w1, w2}
    Key = {k1}
    Pair = {p1}
    Mail = {confirmation}
    DupWindow = 2
    IdemTtl = 2
    FallbackTtl = 1
    MaxTime = 2
CONSTRAINT Canonical
INVARIANTS NoSequentialDuplicate OneEnquiryPerKey
PROPERTIES KeepsPromise EveryRequestAnswered
