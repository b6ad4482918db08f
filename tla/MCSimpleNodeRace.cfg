CONSTANTS
    a = a
    b = b
    Keys <- FewKeys
    Accepted <- FewKeys
    Nodes = {a, b}
    Matches <- TwoMatch
    Inserters = {t1}
    chunkSize = 2
SPECIFICATION Spec
INVARIANT NoCrash
