-------------------------- MODULE MCWorkerThreads ---------------------------
(* An instance of WorkerThreads: two threads; two tasks of filter f and one   *)
(* of filter g, which a task of the user interface enqueues when it runs; the *)
(* blockers of waitForAll() are the batch tasks.                              *)
EXTENDS WorkerThreads

CONSTANTS w1, w2, u1, f1, f2, g1, f, g

MCWorkers == {w1, w2}
MCTasks   == {u1, f1, f2, g1}
MCClassOf == (u1 :> UiClass) @@ (f1 :> f) @@ (f2 :> f) @@ (g1 :> g)
MCSpawns  == [t \in MCTasks |-> IF t = u1 THEN <<g1>> ELSE <<>>]
=============================================================================
