SPECIFICATION TabSpec
CONSTANTS
    i1 = i1
    i2 = i2
    f1 = f1
    f2 = f2
    f3 = f3
    d1 = d1
    d2 = d2
    m1 = m1
    m2 = m2
    a1 = a1
    a2 = a2
    Item = {i1, i2}
    Flush = {f1, f2, f3}
    MaxRows = 2
    Draft = {d1, d2}
    Mutation = {m1, m2}
    Attempt = {a1, a2}
    MaxRetries = 3
    Pages = 4
    MaxShown = 5
SYMMETRY Symmetry
CONSTRAINT OneUsed
INVARIANTS LostOnlyByOverlap AssuredIsStored OneRowUnlessCrowded PagesInOrder
PROPERTIES ReconnectFlushes WipedIsStored
