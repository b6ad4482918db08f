CONSTANTS
    Keys <- MCKeys
    Present <- MCPresent
    Matching <- MCMatching
    Threads = {t1, t2, t3}
    chunkSize = 2
SPECIFICATION ScreenSpec
INVARIANTS
    Inv
    ResultIsNext
    ProgressReasonable
PROPERTY SearchEnds
