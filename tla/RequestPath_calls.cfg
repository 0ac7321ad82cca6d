SPECIFICATION PathSpec
CONSTANTS
    Token <- Tokens
    Text <- Texts
    Lag = {0, 99, 100, 200, 201}
    MaxTries = 2
    MaxCalls = 2
INVARIANTS PathTypeOK RefusedIsNotApplied CopiedTextFinds
PROPERTIES EveryCallEnds
