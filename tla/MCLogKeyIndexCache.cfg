CONSTANTS
    Size = 7
    Keys <- MCKeys
    insertEveryNth = 3
    cacheIfDistanceAbove = 1
    Duplicates = FALSE
SPECIFICATION Spec
INVARIANTS
    Inv
    AnswerExact
    CacheSparse
