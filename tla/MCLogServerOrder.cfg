CONSTANTS
    c1 = c1
    Clients = {c1}
    Stream <- TwoLogs
    Refused = {"refused"}
    Broken = {"broken"}
    NonObjects = {"array"}
    Workers = {w1, w2}
    Pumps = {p1}
    g_jsonChunkSize = 2
    g_maxElementsInQueue = 1
    MaxLag = 0
    MaxBatches = 1
SPECIFICATION Spec
INVARIANT ArrivalOrder
CHECK_DEADLOCK FALSE
