CONSTANTS
    a = a
    b = b
    Keys <- MCKeys
    Accepted <- MCKeys
    Nodes = {a}
    Matches <- MCMatches
    Inserters = {t1, t2}
    chunkSize = 2
SPECIFICATION Spec
INVARIANTS TypeOK Inv NoLostLog CompleteWhenQuiet
PROPERTIES ImplementsFilteredView FillsViews
