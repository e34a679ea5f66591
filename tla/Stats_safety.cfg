\* Chart timeline and found-block history across restarts, with StatsServer
\* loading stats.json before the slaves report.  One tick is one chart
\* interval (15 minutes); a day of chart points is two intervals.
SPECIFICATION Spec
CONSTANTS
    w1 = w1
    w2 = w2
    None = None
    Corrupt = Corrupt
    Wallets <- MCWallets
    Diffs = {1}
    WorkerCounts = {1}
    INTERVAL = 1
    SHARE_WINDOW = 1
    HR_DIV = 1
    NUM_CHART_DATA = 2
    ADDR_TTL = 2
    RESET_INTERVALS = 2
    KEEP = 2
    START = 3
    MaxTime = 6
    MaxEvents = 3
    MaxRestarts = 1
    STARTUP_RACE = FALSE
    TORN_WRITES = FALSE
SYMMETRY MCSymmetry
INVARIANTS
    TypeOK
    ChartTimeline
    
\* The clock and the number of reports are bounded: a behaviour ends when
\* both are used up, which is not a stop of the master.
CHECK_DEADLOCK FALSE
