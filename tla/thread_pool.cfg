SPECIFICATION PoolFairSpec
CONSTANTS
    t1 = t1
    t2 = t2
    t3 = t3
    t4 = t4
    t5 = t5
    p1 = p1
    p2 = p2
    NoTask = NoTask
    Task = {t1, t2, t3, t4, t5}
    Worker = {w1, w2}
    Producer = {p1, p2}
    Requests <- Requesting
    Spawns <- NestedSpawns
    MaxQueueSize = 2
INVARIANTS WorkConserved NoSleepBesideWork
PROPERTY QueuedIsRun
