\* One plain miner whose every share solves a block (the network difficulty
\* equals the job's), submitting three times while the SIGUSR1 handler is
\* slow to take CurInfo's mutex.
SPECIFICATION Spec
CONSTANTS
    c1 = c1
    c2 = c2
    n1 = n1
    Conns <- MCOneConn
    NicehashConns <- MCNoConns
    Nonces <- MCNonces
    Forgers <- MCNoConns
    Diffs = {1}
    NetDiffs = {1}
    TRUST_SCORE = 0
    BYTE_MAX = 2
    MaxHeight = 1
    MaxTemplates = 1
    MaxJobs = 1
    MaxTasks = 1
    MaxShares = 3
    RPC_FAILS = FALSE
INVARIANTS SignalNeverStuck
CHECK_DEADLOCK FALSE
