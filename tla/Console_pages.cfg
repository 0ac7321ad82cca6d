SPECIFICATION Spec
CONSTANTS
    m1 = m1
    Mutation = {m1}
    MaxTries = 2
    MaxElsewhere = 1
INVARIANTS OwnChangeShown
PROPERTIES AnswersGetNewer PagesCatchUp
