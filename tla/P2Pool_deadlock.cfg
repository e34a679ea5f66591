\* A reliable P2Pool; the miner submits one P2Pool share while P2Pool keeps
\* sending jobs.
SPECIFICATION Spec
CONSTANTS
    PoolDiffs = {1}
    ShareDiffs = {3}
    MaxJobs = 4
    MaxConnects = 0
    MaxShares = 1
    NET_FAILS = FALSE
    P2POOL_DOWN = FALSE
PROPERTY
    SubmitAnswered
CHECK_DEADLOCK FALSE
