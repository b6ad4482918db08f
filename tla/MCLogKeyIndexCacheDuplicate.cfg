CONSTANTS
    Size = 4
    Keys <- MCKeys
    insertEveryNth = 3
    cacheIfDistanceAbove = 0
    Duplicates = TRUE
SPECIFICATION Spec
INVARIANT IndexBelowSize
