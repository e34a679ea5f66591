\* Two connections, one NiceHash, with template RPC failures, kicks, a new
\* block and template-timeout refreshes; trusted and untrusted submits of
\* genuine and forged hashes, one of which may solve a block.
SPECIFICATION Spec
CONSTANTS
    c1 = c1
    c2 = c2
    n1 = n1
    Conns <- MCConns
    NicehashConns <- MCNicehashConns
    Nonces <- MCNonces
    Forgers <- MCForgers
    Diffs = {1}
    NetDiffs = {2}
    TRUST_SCORE = 0
    BYTE_MAX = 2
    MaxHeight = 2
    MaxTemplates = 2
    MaxJobs = 3
    MaxTasks = 1
    MaxShares = 1
    RPC_FAILS = TRUE
INVARIANTS
    TypeOK
    NicehashByteUnique
    
    
\* The bounds on templates and heights stop the slave from doing more; a
\* state where they do is not a deadlock of the code.
CHECK_DEADLOCK FALSE
