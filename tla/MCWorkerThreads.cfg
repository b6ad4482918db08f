CONSTANTS
    w1 = w1  w2 = w2
    u1 = u1  f1 = f1  f2 = f2  g1 = g1
    f = f  g = g
    Workers <- MCWorkers
    Tasks <- MCTasks
    ClassOf <- MCClassOf
    Spawns <- MCSpawns
    MaxCalls = 1
SPECIFICATION Spec
INVARIANTS
    TypeOK
    WaitForAllAssertion
    NoOvertaking
    FilterBoundedBypass
    AtMostOneLateTask
    EveryTaskOnce
PROPERTIES
    WaitForAllWaits
    PoolDrains
    WaitForAllReturns
    ShutdownCompletes
