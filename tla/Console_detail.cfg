SPECIFICATION Spec
CONSTANTS
    m1 = m1
    Mutation = {m1}
    MaxTries = 1
    MaxElsewhere = 0
INVARIANT StatusChangeShown
