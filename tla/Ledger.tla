------------------------------- MODULE Ledger -------------------------------
(***************************************************************************)
(* The master's PPLNS share ledger and payout engine (components C7, C8).   *)
(*                                                                         *)
(* Code: cmd/master/updater.go (Updater, UpdatePendingBals),               *)
(* cmd/master/withdraw.go (CheckWithdraw, Withdraw), cmd/master/master.go  *)
(* (OnShareFound, DatabaseCleanup).  The bbolt store is the persistent     *)
(* state: the share bucket "s", the address bucket "a" and the pending     *)
(* record "p".  Every DB.Update is one atomic step; bbolt admits a single  *)
(* writer, so a step that holds the write transaction (wtx) blocks the     *)
(* others.  The daemon, the wallet RPC and the clock are the environment.  *)
(***************************************************************************)
EXTENDS Naturals, Sequences, FiniteSets, Bags, BagsExt, FiniteSetsExt,
        SequencesExt, Functions, TLC

CONSTANTS
    Miners,             \* valid payout addresses of miners
    FeeAddress,         \* config.Cfg.FeeAddress
    InvalidAddress,     \* a wallet string that fails address.IsAddressValid
    AddrOrder,          \* the addresses in bbolt key order (Withdraw's cursor)
    Amounts,            \* coinbase amounts the pool wallet may receive
    Diffs,              \* total difficulty of one ShareBatch
    FEE_PERCENT,        \* MasterConfig.FeePercent
    MIN_CONFS,          \* Cfg.MinConfs
    LOOKBACK,           \* the 720-block wallet query lookback
    PPLNS_WINDOW,       \* GetPplnsWindow(), in clock ticks
    MIN_WITHDRAWAL,     \* MinWithdrawal * 10^atomic
    WITHDRAWAL_FEE,     \* WithdrawalFee * 10^atomic
    TxFeesPerDest,      \* the wallet's possible tx fee per destination
    MAX_WITHDRAW_DESTINATIONS,
    MaxHeight,          \* chain heights beyond this are folded (see MineBlock)
    MaxCoinbase,        \* bound on coinbase transfers to the pool
    MaxShares,          \* bound on the share bucket's NextSequence
    MaxTime,            \* bound on the clock
    MaxTasks,           \* bound on live goroutines of each kind
    WALLET_LEAD,        \* how many blocks the wallet's scan may run past MasterInfo.Height
    CAN_ORPHAN,         \* coinbase transactions may be orphaned by a reorg
    RPC_FAILS,          \* daemon and wallet RPCs may fail
    MaxRestarts,        \* bound on master crashes (0: the master never crashes)
    Spawned,            \* marks a UpdatePendingBals goroutine before its wallet query
    NoWithdraw          \* no Withdraw transaction in progress

Addresses == Miners \cup {FeeAddress}

ASSUME /\ FeeAddress \notin Miners /\ InvalidAddress \notin Addresses
       /\ ToSet(AddrOrder) = Addresses /\ Len(AddrOrder) = Cardinality(Addresses)
       /\ FEE_PERCENT \in 0..100 /\ WITHDRAWAL_FEE <= MIN_WITHDRAWAL
       /\ \A f \in TxFeesPerDest : f <= WITHDRAWAL_FEE
       \* reward = amount * (100 - fee) / 100 is then an exact float64, and so
       \* is every uint64(v * reward / totHashes) for the small v used here
       /\ \A a \in Amounts : (a * (100 - FEE_PERCENT)) % 100 = 0

VARIABLES
    chain,        \* the daemon's chain height [h, e]; e flips on blocks past MaxHeight
    known,        \* MasterInfo.Height, in the same form
    walletHeight, \* how far the wallet RPC has scanned the chain
    coinbase,     \* height -> amount of the pool's incoming transfer in that block
    orphaned,     \* coinbase heights removed by a reorg
    now,          \* util.Time()
    shares,       \* bucket "s": sequence number -> [wallet, diff, time]
    nextSeq,      \* the bucket's NextSequence counter
    pending,      \* record "p": [lastHeight, txs: Seq(UnconfTx)]
    addrInfo,     \* bucket "a": address -> [balance, balancePending, paid]
    minHeight,    \* the global minHeight of UpdatePendingBals
    upd,          \* bag of UpdatePendingBals goroutines: Spawned or the transfers it read
    cwTasks,      \* CheckWithdraw goroutines not yet run
    wtx,          \* the Withdraw batch inside its open write transaction, or NoWithdraw
    signedOut,    \* total the wallet has relayed away: destinations plus tx fees
    delivered,    \* history: address -> total of its balances paid in relayed txs
    entered,      \* history: bag of coinbase heights appended to pending.txs
    restarts      \* count of master crashes so far

vars == <<chain, known, walletHeight, coinbase, orphaned, now, shares, nextSeq,
          pending, addrInfo, minHeight, upd, cwTasks, wtx, signedOut, delivered, entered, restarts>>

Heights == 0..MaxHeight
Transfer == [h : Heights, amount : Amounts]
Zero == [balance |-> 0, balancePending |-> 0, paid |-> 0]

TypeOK ==
    /\ chain \in [h : 1..MaxHeight, e : {0, 1}]
    /\ known \in [h : Heights, e : {0, 1}]
    /\ walletHeight \in 1..MaxHeight
    /\ \E D \in SUBSET (1..MaxHeight) : coinbase \in [D -> Amounts]
    /\ orphaned \subseteq DOMAIN coinbase
    /\ now \in 0..MaxTime
    /\ \E S \in SUBSET (1..MaxShares) :
          shares \in [S -> [wallet : Addresses, diff : Diffs, time : 0..MaxTime]]
    /\ nextSeq \in 0..MaxShares
    /\ pending.lastHeight \in Heights
    /\ \A i \in DOMAIN pending.txs :
          /\ pending.txs[i].txn \in DOMAIN coinbase
          /\ DOMAIN pending.txs[i].bals \subseteq Addresses
    /\ addrInfo \in [Addresses -> [balance : Nat, balancePending : Nat, paid : Nat]]
    /\ minHeight \in Heights
    /\ IsABag(upd) /\ BagToSet(upd) \subseteq {Spawned} \cup SUBSET Transfer
    /\ cwTasks \in 0..MaxTasks
    /\ wtx = NoWithdraw \/ wtx \in [batch : SUBSET Addresses, relayed : BOOLEAN]
    /\ signedOut \in Nat
    /\ delivered \in [Addresses -> Nat]
    /\ IsABag(entered)
    /\ restarts \in 0..MaxRestarts

Init ==
    /\ chain = [h |-> 1, e |-> 0]
    /\ known = [h |-> 0, e |-> 0]
    /\ walletHeight = 1
    /\ coinbase = <<>>
    /\ orphaned = {}
    /\ now = 0
    /\ shares = <<>>
    /\ nextSeq = 0
    /\ pending = [lastHeight |-> 0, txs |-> <<>>]
    /\ addrInfo = [a \in Addresses |-> Zero]
    /\ minHeight = 0
    /\ upd = EmptyBag
    /\ cwTasks = 0
    /\ wtx = NoWithdraw
    /\ signedOut = 0
    /\ delivered = [a \in Addresses |-> 0]
    /\ entered = EmptyBag
    /\ restarts = 0

-----------------------------------------------------------------------------
(* Environment: the chain, the wallet's scan, reorgs and the clock.        *)

\* A block is mined; the pool's wallet may be paid in it.  Past MaxHeight
\* the height is folded: e flips so a poll still sees a new height.
MineBlock ==
    /\ IF chain.h < MaxHeight
         THEN /\ chain' = [chain EXCEPT !.h = @ + 1]
              /\ \/ UNCHANGED coinbase
                 \/ /\ Cardinality(DOMAIN coinbase) < MaxCoinbase
                    /\ chain.h + MIN_CONFS + 1 < MaxHeight
                    /\ \E a \in Amounts : coinbase' = coinbase @@ (chain.h :> a)
         ELSE /\ chain' = [chain EXCEPT !.e = 1 - @]
              /\ UNCHANGED coinbase
    /\ UNCHANGED <<known, walletHeight, orphaned, now, shares, nextSeq, pending,
                   addrInfo, minHeight, upd, cwTasks, wtx, signedOut, delivered, entered, restarts>>

\* The wallet RPC scans one more block.  Heights are block counts, so the
\* blocks the wallet has seen are those below walletHeight.
WalletSync ==
    /\ walletHeight < chain.h
    /\ walletHeight < known.h + WALLET_LEAD
    /\ walletHeight' = walletHeight + 1
    /\ UNCHANGED <<chain, known, coinbase, orphaned, now, shares, nextSeq, pending,
                   addrInfo, minHeight, upd, cwTasks, wtx, signedOut, delivered, entered, restarts>>

\* A reorg no deeper than MIN_CONFS + 1 blocks orphans a pool coinbase.
Orphan(h) ==
    /\ CAN_ORPHAN
    /\ h \in DOMAIN coinbase \ orphaned
    /\ chain.h <= h + MIN_CONFS + 1
    /\ orphaned' = orphaned \cup {h}
    /\ UNCHANGED <<chain, known, walletHeight, coinbase, now, shares, nextSeq,
                   pending, addrInfo, minHeight, upd, cwTasks, wtx, signedOut, delivered, entered, restarts>>

Tick ==
    /\ now < MaxTime
    /\ now' = now + 1
    /\ UNCHANGED <<chain, known, walletHeight, coinbase, orphaned, shares, nextSeq,
                   pending, addrInfo, minHeight, upd, cwTasks, wtx, signedOut, delivered, entered, restarts>>

-----------------------------------------------------------------------------
(* Updater (updater.go 37-80): every 5 s poll the daemon; on a new height  *)
(* record it and start one CheckWithdraw and one UpdatePendingBals.        *)

\* Mutant: the poll forgets to start CheckWithdraw.
PollWithoutCheckWithdraw ==
    /\ chain # known
    /\ cwTasks < MaxTasks /\ BagCardinality(upd) < MaxTasks
    /\ known' = chain
    /\ upd' = BagAdd(upd, Spawned)
    /\ UNCHANGED <<chain, walletHeight, coinbase, orphaned, now, shares, nextSeq,
                   pending, addrInfo, minHeight, cwTasks, wtx, signedOut, delivered,
                   entered, restarts>>

Poll ==
    /\ chain # known
    /\ cwTasks < MaxTasks /\ BagCardinality(upd) < MaxTasks
    /\ known' = chain
    /\ cwTasks' = cwTasks + 1
    /\ upd' = BagAdd(upd, Spawned)
    /\ UNCHANGED <<chain, walletHeight, coinbase, orphaned, now, shares, nextSeq,
                   pending, addrInfo, minHeight, wtx, signedOut, delivered, entered, restarts>>

(* OnShareFound (master.go 323-356): a ShareBatch from a slave is stored   *)
(* as one Share keyed by the bucket's next sequence number.  An invalid    *)
(* wallet is replaced by the fee address.                                  *)

OnShareFound(w, d) ==
    /\ wtx = NoWithdraw
    /\ nextSeq < MaxShares
    /\ LET wallet == IF w = InvalidAddress THEN FeeAddress ELSE w
       IN  shares' = shares @@ (nextSeq + 1 :> [wallet |-> wallet, diff |-> d, time |-> now])
    /\ nextSeq' = nextSeq + 1
    /\ UNCHANGED <<chain, known, walletHeight, coinbase, orphaned, now, pending,
                   addrInfo, minHeight, upd, cwTasks, wtx, signedOut, delivered, entered, restarts>>

-----------------------------------------------------------------------------
(* UpdatePendingBals (updater.go 99-299), first half: outside any DB       *)
(* transaction, set minHeight and read the incoming transfers.             *)

\* get_transfers with filter_by_height returns heights strictly above min_height.
WalletTransfers(mh) ==
    { [h |-> x, amount |-> coinbase[x]] :
        x \in { y \in DOMAIN coinbase \ orphaned : y < walletHeight /\ y > mh } }

\* Mutant: the lookback is subtracted without the height check.
QueryMinHeightUnguarded ==
    IF minHeight = 0 THEN known.h - LOOKBACK ELSE minHeight

QueryMinHeight ==
    IF minHeight = 0 /\ known.h > LOOKBACK THEN known.h - LOOKBACK ELSE minHeight

UpdQuery ==
    /\ BagIn(Spawned, upd)
    /\ \/ /\ upd' = BagAdd(BagRemove(upd, Spawned), WalletTransfers(QueryMinHeight))
          /\ minHeight' = QueryMinHeight
       \/ /\ RPC_FAILS                                  \* GetAddressIndex fails
          /\ upd' = BagRemove(upd, Spawned)
          /\ UNCHANGED minHeight
       \/ /\ RPC_FAILS                                  \* GetTransfers fails
          /\ upd' = BagRemove(upd, Spawned)
          /\ minHeight' = QueryMinHeight
    /\ UNCHANGED <<chain, known, walletHeight, coinbase, orphaned, now, shares, nextSeq,
                   pending, addrInfo, cwTasks, wtx, signedOut, delivered, entered, restarts>>

(* UpdatePendingBals, second half: the DB.Update transaction.             *)

\* Transfers of the snapshot not yet accounted, in the order the loop visits
\* them: sort.SliceStable by ascending height.
NewTransfers(snap) == { t \in snap : t.h > pending.lastHeight }
\* Mutant: the comparison of the sort is reversed.
SortTransfersDesc(S) == SetToSortSeq(S, LAMBDA x, y : x.h > y.h)
SortTransfers(S) == SetToSortSeq(S, LAMBDA x, y : x.h < y.h)

\* The share loop: shares older than the PPLNS window are deleted, the rest
\* are summed into totHashes and minersTotalHashes.
LiveShares == { k \in DOMAIN shares : shares[k].time + PPLNS_WINDOW >= now }
ShareWallets == { shares[k].wallet : k \in LiveShares }
MinerHashes(a) == MapThenSumSet(LAMBDA k : shares[k].diff,
                                { k \in LiveShares : shares[k].wallet = a })
TotHashes == MapThenSumSet(LAMBDA k : shares[k].diff, LiveShares)

\* uint64(v * reward / totHashes) with reward = amount * (100 - fee) / 100.
Credit(a, amount) ==
    (MinerHashes(a) * ((amount * (100 - FEE_PERCENT)) \div 100)) \div TotHashes

\* pendBals.Bals: each miner's credit, the rounding residue of the gross
\* amount (fee included) added to the fee address.
Bals(amount) ==
    LET rewarded == MapThenSumSet(LAMBDA b : Credit(b, amount), ShareWallets)
    IN  [a \in ShareWallets \cup {FeeAddress} |->
            (IF a \in ShareWallets THEN Credit(a, amount) ELSE 0)
          + (IF a = FeeAddress THEN amount - rewarded ELSE 0)]

Entry(t) == [unlock |-> t.h + MIN_CONFS + 1, txn |-> t.h, bals |-> Bals(t.amount)]

\* totalPendings: the loop adds each miner's credit, then adds the fee
\* address's whole Bals entry again (lines 235 and 241).
TotalPendings(new, a) ==
    MapThenSumSet(LAMBDA t : (IF a \in ShareWallets THEN Credit(a, t.amount) ELSE 0)
                           + (IF a = FeeAddress THEN Bals(t.amount)[FeeAddress] ELSE 0),
                  new)

NextLastHeight(new) == IF new = {} THEN pending.lastHeight ELSE known.h

UpdApply(snap) ==
    /\ snap # Spawned /\ BagIn(snap, upd)
    /\ wtx = NoWithdraw
    /\ LET new == NewTransfers(snap)
           seq == SortTransfers(new)
       IN  /\ pending' = [lastHeight |-> NextLastHeight(new),
                          txs |-> pending.txs \o [i \in 1..Len(seq) |-> Entry(seq[i])]]
           /\ shares' = IF new = {} THEN shares ELSE Restrict(shares, LiveShares)
           /\ addrInfo' = [a \in Addresses |->
                             IF new # {} /\ a \in ShareWallets \cup {FeeAddress}
                               THEN [addrInfo[a] EXCEPT !.balancePending = TotalPendings(new, a)]
                               ELSE addrInfo[a]]
           /\ entered' = entered (+) SetToBag({ t.h : t \in new })
    /\ minHeight' = IF pending.lastHeight > LOOKBACK
                      THEN pending.lastHeight - LOOKBACK ELSE minHeight
    /\ upd' = BagRemove(upd, snap)
    /\ UNCHANGED <<chain, known, walletHeight, coinbase, orphaned, now, nextSeq,
                   cwTasks, wtx, signedOut, delivered, restarts>>

-----------------------------------------------------------------------------
(* CheckWithdraw (withdraw.go 57-156): one transaction per run.  If the    *)
(* head of the queue has unlock height below MasterInfo.Height, ask the   *)
(* daemon for its transaction.  Found on chain: credit its balances, pop   *)
(* it and save.  Missing (orphaned): the code pops a local copy and        *)
(* returns without saving it, so the stored queue is unchanged.            *)

HeadMature ==
    /\ pending.txs # <<>>
    /\ Head(pending.txs).unlock < known.h

PopHead(q) == Tail(q)

CheckWithdrawCredit ==
    /\ cwTasks > 0 /\ wtx = NoWithdraw
    /\ HeadMature
    /\ Head(pending.txs).txn \notin orphaned
    /\ LET bals == Head(pending.txs).bals
       IN  addrInfo' = [a \in Addresses |->
                          IF a \in DOMAIN bals
                            THEN [addrInfo[a] EXCEPT !.balance = @ + bals[a]]
                            ELSE addrInfo[a]]
    /\ pending' = [pending EXCEPT !.txs = PopHead(@)]
    /\ cwTasks' = cwTasks - 1
    /\ UNCHANGED <<chain, known, walletHeight, coinbase, orphaned, now, shares, nextSeq,
                   minHeight, upd, wtx, signedOut, delivered, entered, restarts>>

\* Every other outcome leaves the store as it was: empty queue, head not
\* mature, head orphaned (pop not saved), or the daemon RPC failing.
CheckWithdrawNoChange ==
    /\ cwTasks > 0 /\ wtx = NoWithdraw
    /\ \/ ~HeadMature
       \/ HeadMature /\ Head(pending.txs).txn \in orphaned
       \/ HeadMature /\ RPC_FAILS                 \* GetTransactions fails
    /\ cwTasks' = cwTasks - 1
    /\ UNCHANGED <<chain, known, walletHeight, coinbase, orphaned, now, shares, nextSeq,
                   pending, addrInfo, minHeight, upd, wtx, signedOut, delivered, entered, restarts>>

-----------------------------------------------------------------------------
(* Withdraw (withdraw.go 161-275): one write transaction that zeroes the   *)
(* balances of the batch, asks the wallet to sign a transfer, relays it,   *)
(* and commits.  The transaction is split at the relay: WithdrawTransfer   *)
(* is everything up to RelayTx, WithdrawCommit the commit of the Puts.     *)
(* No other write transaction runs in between (bbolt has one writer).      *)

\* The cursor visits AddrOrder; an address joins when its balance exceeds
\* the minimum; the loop breaks once MAX_WITHDRAW_DESTINATIONS are taken.
Eligible == SelectSeq(AddrOrder, LAMBDA a : addrInfo[a].balance > MIN_WITHDRAWAL)
Batch == SubSeq(Eligible, 1, IF Len(Eligible) < MAX_WITHDRAW_DESTINATIONS
                               THEN Len(Eligible) ELSE MAX_WITHDRAW_DESTINATIONS)

\* Mutant: the destination is sent the whole balance.
DestAmountFull(a) == addrInfo[a].balance

\* Destination amount: the balance less the withdrawal fee.
DestAmount(a) == addrInfo[a].balance - WITHDRAWAL_FEE

WithdrawTransfer ==
    /\ wtx = NoWithdraw
    /\ Len(Batch) >= 1                  \* else "Not enough destinations"
    /\ LET batch == ToSet(Batch) IN
       \E fee \in TxFeesPerDest :
          \/ /\ signedOut' = signedOut + MapThenSumSet(DestAmount, batch) + Len(Batch) * fee
             /\ delivered' = [a \in Addresses |->
                                IF a \in batch THEN delivered[a] + addrInfo[a].balance
                                               ELSE delivered[a]]
             /\ wtx' = [batch |-> batch, relayed |-> TRUE]
          \/ /\ RPC_FAILS                  \* RelayTx fails: logged, not returned
             /\ wtx' = [batch |-> batch, relayed |-> FALSE]
             /\ UNCHANGED <<signedOut, delivered>>
    /\ UNCHANGED <<chain, known, walletHeight, coinbase, orphaned, now, shares, nextSeq,
                   pending, addrInfo, minHeight, upd, cwTasks, entered, restarts>>

\* The commit: Paid += Balance, Balance = 0 for the batch.  feeAddr.Balance
\* += feeRevenue only changed a local copy and is never Put.
WithdrawCommit ==
    /\ wtx # NoWithdraw
    /\ addrInfo' = [a \in Addresses |->
                      IF a \in wtx.batch
                        THEN [addrInfo[a] EXCEPT !.paid = @ + addrInfo[a].balance,
                                                 !.balance = 0]
                        ELSE addrInfo[a]]
    /\ wtx' = NoWithdraw
    /\ UNCHANGED <<chain, known, walletHeight, coinbase, orphaned, now, shares, nextSeq,
                   pending, minHeight, upd, cwTasks, signedOut, delivered, entered, restarts>>

-----------------------------------------------------------------------------
(* The master process crashes and restarts (master.go main).  In-memory    *)
(* state is lost: MasterInfo.Height, minHeight, the goroutines and an open *)
(* transaction.  The bbolt file keeps what was committed.  At start         *)
(* DatabaseCleanup deletes every share older than the PPLNS window.         *)

MasterRestart ==
    /\ restarts < MaxRestarts
    /\ restarts' = restarts + 1
    /\ known' = [h |-> 0, e |-> 0]
    /\ minHeight' = 0
    /\ upd' = EmptyBag
    /\ cwTasks' = 0
    /\ wtx' = NoWithdraw
    /\ shares' = Restrict(shares, LiveShares)
    /\ UNCHANGED <<chain, walletHeight, coinbase, orphaned, now, nextSeq, pending,
                   addrInfo, signedOut, delivered, entered>>

-----------------------------------------------------------------------------

Next ==
    \/ MineBlock \/ WalletSync \/ Tick \/ \E h \in DOMAIN coinbase : Orphan(h)
    \/ Poll
    \/ \E w \in Miners \cup {InvalidAddress}, d \in Diffs : OnShareFound(w, d)
    \/ UpdQuery
    \/ \E snap \in BagToSet(upd) : UpdApply(snap)
    \/ CheckWithdrawCredit \/ CheckWithdrawNoChange
    \/ WithdrawTransfer \/ WithdrawCommit
    \/ MasterRestart

\* Goroutines once started run to completion; the daemon keeps producing
\* blocks.  Poll is strongly fair: a poll every 5 s observes a height that
\* lasts a block time (about 2 minutes) even though the next block disables
\* it again.  The transactions are strongly fair too: a goroutine blocked on
\* bbolt's writer lock by another transaction gets it eventually (Go's
\* sync.Mutex switches to starvation mode after 1 ms).
Fairness ==
    /\ WF_vars(MineBlock) /\ WF_vars(WalletSync) /\ SF_vars(Poll)
    /\ WF_vars(UpdQuery) /\ SF_vars(\E snap \in BagToSet(upd) : UpdApply(snap))
    /\ SF_vars(CheckWithdrawCredit) /\ SF_vars(CheckWithdrawNoChange)
    /\ WF_vars(WithdrawCommit)

Spec == Init /\ [][Next]_vars /\ Fairness

-----------------------------------------------------------------------------
(* Properties.                                                             *)

\* What the pool's wallet has received, what it owes, and what it has not
\* yet accounted for.  Queue entries of orphaned blocks are owed to no one.
Received == MapThenSumSet(LAMBDA h : coinbase[h], DOMAIN coinbase \ orphaned)
Owed(e) == IF e.txn \in orphaned THEN 0 ELSE SumFunction(e.bals)
Liabilities ==
      MapThenSumSet(LAMBDA a : addrInfo[a].balance, Addresses)
    + MapThenSumSet(LAMBDA i : Owed(pending.txs[i]), DOMAIN pending.txs)
Unentered ==
    MapThenSumSet(LAMBDA h : coinbase[h],
                  { h \in DOMAIN coinbase \ orphaned : CopiesIn(h, entered) = 0 })
InQueue(h) == \E i \in DOMAIN pending.txs : pending.txs[i].txn = h

\* Solvent: outside a Withdraw transaction, the balances and the pending
\* credits of live blocks, plus everything the wallet has relayed, never
\* exceed what the wallet received.  Breaks if CheckWithdraw credits a block
\* a reorg can still orphan, if a coinbase is queued twice, or if Withdraw
\* pays out more than it zeroes.
Solvent == wtx = NoWithdraw => Liabilities + signedOut <= Received

QueueAscending ==
    \A i, j \in DOMAIN pending.txs :
        i < j => pending.txs[i].unlock < pending.txs[j].unlock

\* PaidDelivered: outside a Withdraw transaction, each address's Paid total
\* equals what relayed payout transactions gave it (balance, fee included).
PaidDelivered == wtx = NoWithdraw => \A a \in Addresses : addrInfo[a].paid = delivered[a]

\* QueueDrains: every unconfirmed transaction in the queue eventually leaves
\* it, credited by CheckWithdraw or discarded as orphaned.
QueueDrains == \A h \in 1..MaxHeight : InQueue(h) ~> ~InQueue(h)

\* FeeIncomeBooked (spec 4.8 step 4): the withdrawal fees less the tx fee
\* are credited to the fee address, so outside a Withdraw transaction
\* everything received is either owed, relayed, or not yet accounted.
FeeIncomeBooked == wtx = NoWithdraw => Liabilities + signedOut + Unentered = Received

\* NoTransferSkipped: once pending.LastHeight has passed a live incoming
\* transfer's height, UpdatePendingBals has accounted for that transfer.
NoTransferSkipped ==
    \A h \in DOMAIN coinbase \ orphaned : h <= pending.lastHeight => CopiesIn(h, entered) > 0

\* PendingMatchesQueue (spec section 5): an address's BalancePending equals
\* the sum of its credits over the queued unconfirmed transactions.
PendingMatchesQueue ==
    \A a \in Addresses :
        addrInfo[a].balancePending
          = MapThenSumSet(LAMBDA i : IF a \in DOMAIN pending.txs[i].bals
                                       THEN pending.txs[i].bals[a] ELSE 0,
                          DOMAIN pending.txs)

=============================================================================
