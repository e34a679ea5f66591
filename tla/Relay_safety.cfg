CONSTANTS
    w1 = w1
    w2 = w2
    Wallets <- MCWallets
    WorkerCounts = {1}
    MaxConns = 2
    MaxSubmits = 2
    MaxStats = 2
    NET_FAILS = TRUE
    STATS_SENDER = TRUE
SPECIFICATION Spec
INVARIANTS TypeOK NoShareInvented
\* A nil write kills the slave process (a runtime panic), after which
\* nothing more happens: such a final state is not a deadlock of the code.
CHECK_DEADLOCK FALSE
