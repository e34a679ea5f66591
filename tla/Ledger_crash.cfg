\* The master crashes once; no reorgs, no RPC failures.
SPECIFICATION Spec
CONSTANTS
    m1 = m1
    m2 = m2
    fee = fee
    bad = bad
    Miners <- MCMiners
    FeeAddress <- fee
    InvalidAddress <- bad
    AddrOrder <- MCAddrOrder
    Spawned = Spawned
    NoWithdraw = NoWithdraw
    Amounts = {100}
    Diffs = {1}
    FEE_PERCENT = 10
    MIN_CONFS = 0
    LOOKBACK = 2
    PPLNS_WINDOW = 0
    MIN_WITHDRAWAL = 5
    WITHDRAWAL_FEE = 2
    TxFeesPerDest = {1}
    MAX_WITHDRAW_DESTINATIONS = 2
    MaxHeight = 5
    MaxCoinbase = 2
    MaxShares = 1
    MaxTime = 0
    MaxTasks = 1
    WALLET_LEAD = 1
    CAN_ORPHAN = FALSE
    RPC_FAILS = FALSE
    MaxRestarts = 1
INVARIANTS
    Solvent
