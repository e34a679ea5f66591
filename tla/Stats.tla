------------------------------- MODULE Stats -------------------------------
(***************************************************************************)
(* The master's statistics aggregator (cmd/master/stats.go) and the       *)
(* handlers that feed it: OnShareFound (master.go), OnBlockFound and       *)
(* OnP2PoolShareFound (blockfound.go), the withdrawal record               *)
(* (withdraw.go) and the workers count (handler.go).  The whole            *)
(* Statistics struct is one record `st`; Cleanup marshals it into          *)
(* stats.json (`file`), which StatsServer reads back when the master       *)
(* starts.  Time is counted in ticks; every duration of the code is a      *)
(* constant in ticks.                                                      *)
(***************************************************************************)
EXTENDS Naturals, Sequences, SequencesExt, Functions, FiniteSets, TLC

CONSTANTS
    Wallets,          \* miners' addresses (model values)
    Diffs,            \* share difficulties, in units of HR_DIV/ticks
    WorkerCounts,     \* values Stats.Workers can be given by a stats packet
    INTERVAL,         \* STATS_INTERVAL*60: the chart interval
    SHARE_WINDOW,     \* 15*60: shares older than this are outdated
    HR_DIV,           \* the divisor of Get15mHashrate and PoolHashrate
    NUM_CHART_DATA,   \* points kept per chart (one day of intervals)
    ADDR_TTL,         \* 3600*24: a known address expires after this
    RESET_INTERVALS,  \* 10: StatsServer resets LastUpdate this far behind
    KEEP,             \* 40: blocks and withdrawals kept by Cleanup
    START,            \* the clock when the master first starts
    MaxTime,          \* bound on the clock
    MaxEvents,        \* bound on shares, blocks and withdrawals reported
    MaxRestarts,      \* bound on master restarts
    STARTUP_RACE,     \* slaves may report before StatsServer loaded the file
    TORN_WRITES,      \* a crash may interrupt os.WriteFile
    None,             \* stats.json does not exist (model value)
    Corrupt           \* stats.json is not valid JSON (model value)

\* One day of chart points spans exactly the address TTL, as in the code.
ASSUME ADDR_TTL = NUM_CHART_DATA * INTERVAL
ASSUME START > INTERVAL * RESET_INTERVALS

VARIABLES
    now,        \* util.Time()
    st,         \* the Stats record
    file,       \* stats.json: None, Corrupt, or a marshalled Stats record
    phase,      \* "down", or StatsServer "load" before ReadFile, "apply" before Unmarshal, "run"
    buf,        \* the bytes ReadFile returned
    useP2Pool,  \* config.Cfg.UseP2Pool
    events,     \* shares, blocks and withdrawals reported so far
    found,      \* blocks (or P2Pool shares) found so far, over all restarts
    restarts

vars == <<now, st, file, phase, buf, useP2Pool, events, found, restarts>>

Hr == [t : Nat, h : Nat]
Share == [w : Wallets, d : Diffs, t : Nat]

\* The zero Statistics value of a freshly started master.
ZeroStats ==
    [lastUpdate |-> 0, poolHr |-> 0, poolChart |-> <<>>, charts |-> <<>>,
     shares |-> <<>>, blocks |-> <<>>, numFound |-> 0, known |-> <<>>,
     withdrawals |-> <<>>, workers |-> 0, workersChart |-> <<>>,
     addrChart |-> <<>>]

\* A chart: at most NUM_CHART_DATA points of set S.
IsChart(x, S) == x \in Seq(S) /\ Len(x) <= NUM_CHART_DATA

TypeOK ==
    /\ now \in START..MaxTime
    /\ st.lastUpdate \in 0..MaxTime
    /\ IsChart(st.poolChart, Hr)
    /\ IsChart(st.workersChart, WorkerCounts \cup {0})
    /\ IsChart(st.addrChart, 0..Cardinality(Wallets))
    /\ DOMAIN st.charts \subseteq Wallets
    /\ \A w \in DOMAIN st.charts : IsChart(st.charts[w], Hr)
    /\ DOMAIN st.known \subseteq Wallets
    /\ st.shares \in Seq(Share)
    /\ phase \in {"load", "apply", "run", "down"}
    /\ useP2Pool \in BOOLEAN
    /\ events \in 0..MaxEvents
    /\ restarts \in 0..MaxRestarts

Init ==
    /\ now = START
    /\ st = ZeroStats
    /\ file = None
    /\ phase = "load"
    /\ buf = None
    /\ useP2Pool \in BOOLEAN
    /\ events = 0
    /\ found = 0
    /\ restarts = 0

-----------------------------------------------------------------------------
(* Helpers of Cleanup and the StatsServer loop.                            *)

\* math.Round(x / HR_DIV) for a natural x: halves round up.
Round(x) == (2 * x + HR_DIV) \div (2 * HR_DIV)

\* The difficulty summed over the shares of x by a wallet of W stamped
\* no earlier than t0.
RECURSIVE DiffSum(_, _, _)
DiffSum(x, W, t0) ==
    IF x = <<>> THEN 0
    ELSE (IF Head(x).w \in W /\ Head(x).t >= t0 THEN Head(x).d ELSE 0)
         + DiffSum(Tail(x), W, t0)

\* Get15mHashrate: the rounded hashrate of w's shares within the window
\* (`util.Time() - v.Time <= 15*60`).
Hashrate(s, w) == Round(DiffSum(s.shares, {w}, now - SHARE_WINDOW))

\* Mutant: the charts are never trimmed.
TrimChartNone(x) == x

\* `for len(x) > NUM_CHART_DATA { x = x[1:] }`
TrimChart(x) ==
    IF Len(x) > NUM_CHART_DATA THEN SubSeq(x, Len(x) - NUM_CHART_DATA + 1, Len(x)) ELSE x

\* Mutant: the trim drops the newest entries (the head of the list).
RECURSIVE TrimKeepOldest(_)
TrimKeepOldest(x) == IF Len(x) > KEEP THEN TrimKeepOldest(SubSeq(x, 3, Len(x))) ELSE x

\* `for len(x) > 40 { x = x[:len(x)-2] }`
RECURSIVE TrimKeep(_)
TrimKeep(x) == IF Len(x) > KEEP THEN TrimKeep(SubSeq(x, 1, Len(x) - 2)) ELSE x

\* Cleanup up to json.Marshal: drop outdated shares, stamp every share's
\* wallet (outdated ones included) as known, expire addresses, and set
\* PoolHashrate.  This is the value written to stats.json.
Marshalled(s) ==
    LET stamped == {s.shares[i].w : i \in 1..Len(s.shares)}
        LastSeen(w) == s.shares[SelectLastInSeq(s.shares, LAMBDA v : v.w = w)].t
        known1 == [w \in DOMAIN s.known \cup stamped |->
                      IF w \in stamped THEN LastSeen(w) ELSE s.known[w]]
        kept == SelectSeq(s.shares, LAMBDA v : v.t + SHARE_WINDOW >= now)
    IN [s EXCEPT !.shares = kept,
                 !.known = RestrictDomain(known1, LAMBDA w : known1[w] + ADDR_TTL > now),
                 !.poolHr = Round(DiffSum(kept, Wallets, 0))]

\* Cleanup: the marshalled value, then the block and withdrawal lists trimmed.
Cleanup(s) ==
    [Marshalled(s) EXCEPT !.blocks = TrimKeep(@), !.withdrawals = TrimKeep(@)]

\* The handlers that append to Stats and call Cleanup under Stats.Lock run
\* once StatsServer has loaded stats.json, or at any time under STARTUP_RACE
\* (main starts StatsServer and HandleSlave as concurrent goroutines).
Serving == phase = "run" \/ STARTUP_RACE

\* Apply s, append-and-Cleanup style: the state and the file written.
CleanupAndSave(s) ==
    /\ st' = Cleanup(s)
    /\ file' = Marshalled(s)

-----------------------------------------------------------------------------
(* Handlers that report to Stats.                                          *)

\* OnShareFound: append the share stamped with util.Time(), then Cleanup.
ShareFound(w, d) ==
    /\ Serving
    /\ events < MaxEvents
    /\ events' = events + 1
    /\ CleanupAndSave([st EXCEPT !.shares = Append(@, [w |-> w, d |-> d, t |-> now])])
    /\ UNCHANGED <<now, phase, buf, useP2Pool, found, restarts>>

\* OnBlockFound: prepend the block (its height), count it, Cleanup.  The
\* handler refuses the packet when the pool uses P2Pool.
BlockFound ==
    /\ Serving
    /\ ~useP2Pool
    /\ events < MaxEvents
    /\ events' = events + 1
    /\ found' = found + 1
    /\ CleanupAndSave([st EXCEPT !.blocks = <<found + 1>> \o @,
                                 !.numFound = @ + 1])
    /\ UNCHANGED <<now, phase, buf, useP2Pool, restarts>>

\* OnP2PoolShareFound: count it and Cleanup; nothing is prepended.
P2PoolShareFound ==
    /\ Serving
    /\ useP2Pool
    /\ events < MaxEvents
    /\ events' = events + 1
    /\ found' = found + 1
    /\ CleanupAndSave([st EXCEPT !.numFound = @ + 1])
    /\ UNCHANGED <<now, phase, buf, useP2Pool, restarts>>

\* Withdraw prepends the transaction to RecentWithdrawals under Stats.Lock
\* and does not call Cleanup: nothing is trimmed or saved.
RecordWithdrawal ==
    /\ Serving
    /\ events < MaxEvents
    /\ events' = events + 1
    /\ st' = [st EXCEPT !.withdrawals = <<events + 1>> \o @]
    /\ UNCHANGED <<now, file, phase, buf, useP2Pool, found, restarts>>

\* A stats packet sets numConns[connId] and Stats.Workers to the sum.
WorkersReport(n) ==
    /\ Serving
    /\ st' = [st EXCEPT !.workers = n]
    /\ UNCHANGED <<now, file, phase, buf, useP2Pool, events, found, restarts>>

-----------------------------------------------------------------------------
(* StatsServer.                                                            *)

\* os.ReadFile("stats.json"); a missing file is only logged.
LoadRead ==
    /\ phase = "load"
    /\ phase' = IF file = None THEN "run" ELSE "apply"
    /\ buf' = file
    /\ UNCHANGED <<now, st, file, useP2Pool, events, found, restarts>>

\* json.Unmarshal into Stats under the lock.  A syntax error changes
\* nothing; otherwise every field is replaced, except the two maps, into
\* which the decoded keys are merged.
LoadApply ==
    /\ phase = "apply"
    /\ phase' = "run"
    /\ st' = IF buf = Corrupt THEN st
             ELSE [buf EXCEPT !.known = buf.known @@ st.known,
                              !.charts = buf.charts @@ st.charts]
    /\ UNCHANGED <<now, file, buf, useP2Pool, events, found, restarts>>

\* More than RESET_INTERVALS behind: LastUpdate is moved to one interval ago.
TickReset ==
    /\ phase = "run"
    /\ now - st.lastUpdate > INTERVAL * RESET_INTERVALS
    /\ st' = [st EXCEPT !.lastUpdate = now - INTERVAL]
    /\ UNCHANGED <<now, file, phase, buf, useP2Pool, events, found, restarts>>

\* The body of one update on the cleaned-up record s: LastUpdate advanced
\* one interval, a point appended to every known address's chart, an
\* address whose chart holds no non-zero hashrate deleted from
\* KnownAddresses and HashrateCharts, then the pool, workers and addresses
\* charts appended.
UpdateCharts(s) ==
    LET L == s.lastUpdate + INTERVAL
        hr == [w \in DOMAIN s.known |-> Hashrate(s, w)]
        Chart(w) == TrimChart(Append(IF w \in DOMAIN s.charts THEN s.charts[w] ELSE <<>>,
                                     [t |-> L, h |-> hr[w]]))
        live == {w \in DOMAIN s.known : \E i \in 1..Len(Chart(w)) : Chart(w)[i].h # 0}
        gone == DOMAIN s.known \ live
    IN [s EXCEPT
          !.lastUpdate = L,
          !.known = Restrict(s.known, live),
          !.charts = [w \in (DOMAIN s.charts \ gone) \cup live |->
                         IF w \in live THEN Chart(w) ELSE s.charts[w]],
          !.workersChart = TrimChart(Append(@, s.workers)),
          !.addrChart = TrimChart(Append(@, Cardinality(live))),
          !.poolChart = TrimChart(Append(@, [t |-> L, h |-> SumFunction(hr)]))]

\* Mutant: stats.json is saved after LastUpdate is advanced.
TickUpdateLateSave ==
    /\ phase = "run"
    /\ now - st.lastUpdate >= INTERVAL
    /\ now - st.lastUpdate <= INTERVAL * RESET_INTERVALS
    /\ file' = Marshalled([st EXCEPT !.lastUpdate = @ + INTERVAL])
    /\ st' = UpdateCharts(Cleanup(st))
    /\ UNCHANGED <<now, phase, buf, useP2Pool, events, found, restarts>>

\* Between one and RESET_INTERVALS behind: Cleanup, which saves stats.json,
\* then the update.  A master that was down catches up one interval per poll.
TickUpdate ==
    /\ phase = "run"
    /\ now - st.lastUpdate >= INTERVAL
    /\ now - st.lastUpdate <= INTERVAL * RESET_INTERVALS
    /\ file' = Marshalled(st)
    /\ st' = UpdateCharts(Cleanup(st))
    /\ UNCHANGED <<now, phase, buf, useP2Pool, events, found, restarts>>

-----------------------------------------------------------------------------
(* Environment.                                                            *)

\* The clock.  StatsServer polls every 100 ms, so while the master runs a
\* whole interval never passes without its update: time advances only
\* while the master is down, or while StatsServer has nothing to do.
Tick ==
    /\ now < MaxTime
    /\ \/ phase = "down"
       \/ phase = "run" /\ now - st.lastUpdate < INTERVAL
    /\ now' = now + 1
    /\ UNCHANGED <<st, file, phase, buf, useP2Pool, events, found, restarts>>

\* The master process stops: Stats is lost with it.  Under TORN_WRITES the
\* stop interrupts os.WriteFile, which had truncated the file.
Crash ==
    /\ phase # "down"
    /\ restarts < MaxRestarts
    /\ restarts' = restarts + 1
    /\ st' = ZeroStats
    /\ phase' = "down"
    /\ buf' = None
    /\ file' \in IF TORN_WRITES /\ file # None THEN {file, Corrupt} ELSE {file}
    /\ UNCHANGED <<now, useP2Pool, events, found>>

\* The master is started again; StatsServer has yet to read stats.json.
Boot ==
    /\ phase = "down"
    /\ phase' = "load"
    /\ UNCHANGED <<now, st, file, buf, useP2Pool, events, found, restarts>>

Next ==
    \/ \E w \in Wallets, d \in Diffs : ShareFound(w, d)
    \/ BlockFound
    \/ P2PoolShareFound
    \/ RecordWithdrawal
    \/ \E n \in WorkerCounts : WorkersReport(n)
    \/ LoadRead
    \/ LoadApply
    \/ TickReset
    \/ TickUpdate
    \/ Tick
    \/ Crash
    \/ Boot

Spec == Init /\ [][Next]_vars

-----------------------------------------------------------------------------
(* Properties.                                                             *)

\* The pool, workers and addresses charts get one point per StatsServer
\* update, and stats.json is written by Cleanup before the update advances
\* LastUpdate and appends: across restarts from that file and the catch-up
\* after downtime, the three charts stay the same length, the pool chart's
\* points are exactly one interval apart (more than RESET_INTERVALS apart
\* only where LastUpdate was reset), and none lies after LastUpdate.
ChartTimeline ==
    LET c == st.poolChart IN
    /\ Len(st.workersChart) = Len(c)
    /\ Len(st.addrChart) = Len(c)
    /\ \A i \in 1..Len(c) - 1 :
          \/ c[i + 1].t = c[i].t + INTERVAL
          \/ c[i + 1].t > c[i].t + INTERVAL * RESET_INTERVALS
    /\ c # <<>> => Last(c).t <= st.lastUpdate

\* Every OnBlockFound and OnP2PoolShareFound saves stats.json through
\* Cleanup, so once StatsServer has loaded the file after a restart,
\* NumFound counts every block found and BlocksFound lists the newest ones,
\* newest first, with none missing in between.
HistoryKept ==
    phase = "run" =>
        /\ st.numFound = found
        /\ \A i \in 1..Len(st.blocks) : st.blocks[i] = found + 1 - i

\* The update loop deletes an address from KnownAddresses and
\* HashrateCharts together: a chart is kept only for a known address, so
\* the API's hr_chart and stats.json hold charts of current miners only.
ChartsOfKnown == DOMAIN st.charts \subseteq DOMAIN st.known

====
