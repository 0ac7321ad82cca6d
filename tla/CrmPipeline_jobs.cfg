SPECIFICATION Spec
CONSTANTS
    e1 = e1
    d1 = d1
    d2 = d2
    a1 = a1
    Original = Original
    Event = {e1}
    Post = {d1, d2}
    Admin = {a1}
    MaxAttempts = 2
    MaxStalled = 1
INVARIANTS ProcessedAfterDelivery NothingIsForgotten
PROPERTIES QueuedJobSettles
