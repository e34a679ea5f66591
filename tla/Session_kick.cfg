\* Two connections, one NiceHash, with template RPC failures, kicks, a new
\* block and template-timeout refreshes.
SPECIFICATION Spec
CONSTANTS
    c1 = c1
    c2 = c2
    n1 = n1
    Conns <- MCConns
    NicehashConns <- MCNicehashConns
    Nonces <- MCNonces
    Forgers <- MCNoConns
    NetDiffs = {3}
    TRUST_SCORE = 0
    Diffs = {1, 2}
    BYTE_MAX = 1
    MaxHeight = 2
    MaxTemplates = 2
    MaxJobs = 3
    MaxTasks = 1
    MaxShares = 2
    RPC_FAILS = FALSE
INVARIANTS LiveListed
\* The bounds on templates and heights stop the slave from doing more; a
\* state where they do is not a deadlock of the code.
CHECK_DEADLOCK FALSE
