CONSTANTS
    c1 = c1
    Clients = {c1}
    Stream <- MCStream
    Refused = {"refused"}
    Broken = {"broken"}
    NonObjects = {"array"}
    Workers = {w1}
    Pumps = {p1, p2}
    g_jsonChunkSize = 2
    g_maxElementsInQueue = 1
    MaxLag = 0
    MaxBatches = 1
SPECIFICATION Spec
INVARIANTS Inv ItemsConserved StreamsAreCutRight
PROPERTIES ItemsDelivered ProgramStops
CHECK_DEADLOCK FALSE
