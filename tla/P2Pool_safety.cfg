\* P2Pool jobs of two difficulties, shares on either side of them, one
\* reconnection, a P2Pool that may refuse and a link that may break.
SPECIFICATION Spec
CONSTANTS
    PoolDiffs = {1, 2}
    ShareDiffs = {1, 3}
    MaxJobs = 4
    MaxConnects = 2
    MaxShares = 2
    NET_FAILS = TRUE
    P2POOL_DOWN = TRUE
INVARIANTS
    TypeOK
    MinerJobsInOrder
\* Goroutines end and a panic stops the process: a state with no step is
\* not a deadlock of the model.
CHECK_DEADLOCK FALSE
