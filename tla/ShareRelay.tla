----------------------------- MODULE ShareRelay -----------------------------
(***************************************************************************)
(* The link from one slave to the master (slave/slaveClient.go,            *)
(* slave/slaveQueue.go, cmd/master/handler.go).                            *)
(*                                                                         *)
(* The slave folds accepted shares into a per-wallet cache; every 10 s a   *)
(* flush goroutine, holding connMut, sends one ShareFound message per      *)
(* cached wallet and clears the cache.  The stats goroutine sends a        *)
(* WorkerCount message every 10 s without taking connMut.  Each message    *)
(* is written as two sealed records, the length and the payload, by two   *)
(* separate conn.Write calls.  The master reads a 42-byte record, decrypts *)
(* it as the length, then reads length+40 bytes and decrypts the payload;  *)
(* any failure closes the connection.  The slave redials after its read    *)
(* fails.                                                                  *)
(*                                                                         *)
(* Records are abstracted to [k, m]: which half of which message.  The     *)
(* only sizes that coincide are a length record and the payload of a       *)
(* WorkerCount message (both 2 bytes in clear); any other record read      *)
(* where another was expected fails to decrypt.                            *)
(***************************************************************************)
EXTENDS Naturals, Sequences, FiniteSets, SequencesExt

CONSTANTS
    Wallets,            \* wallets shares are credited to
    WorkerCounts,       \* values of len(srv.Connections) a stats send reports
    MaxConns,           \* bound on connections the slave dials
    MaxSubmits,         \* bound on shares the sessions hand to SendShare
    MaxStats,           \* bound on WorkerCount sends
    NET_FAILS,          \* the TCP connection may break and a redial may fail
    STATS_SENDER        \* the unlocked WorkerCount sender runs

\* A WorkerCount payload of 0 read as a length record would announce a
\* 2-byte payload; that case is left out (see MasterRead).
ASSUME 0 \notin WorkerCounts

VARIABLES
    cache,        \* slaveCache.Shares: wallet -> total diff (the count is not modelled)
    conn,         \* the slave's global conn: 0 is nil, g the g-th dialled connection
    slave,        \* StartSlaveClient: "dialing", "up" (reading) or "down" (closed, sleeping)
    flushing,     \* the flush goroutine holds connMut
    fq,           \* records the current flush has still to write
    sq,           \* records the stats sender has still to write
    wire,         \* connection -> records written and not yet read by the master
    mst,          \* connection -> master reader: not dialled, reading a length,
                  \* reading the payload of message m, or closed
    numConns,     \* master: connection -> last reported worker count
    workers,      \* master: Stats.Workers
    credited,     \* master: wallet -> diff passed to OnShareFound
    submitted,    \* history: wallet -> diff handed to SendShare
    lostInNet,    \* history: wallet -> diff of records a broken connection dropped
    nstats,       \* stats messages sent so far
    panicked,     \* a conn.Write on a nil conn: the slave process died
    garbled       \* history: the master decoded a record that was not the one it expected

vars == <<cache, conn, slave, flushing, fq, sq, wire, mst, numConns, workers,
          credited, submitted, lostInNet, nstats, panicked, garbled>>

Conns == 1..MaxConns
ShareMsg(w, d) == [type |-> "share", w |-> w, d |-> d]
StatsMsg(n) == [type |-> "stats", n |-> n]
Msgs == {ShareMsg(w, d) : w \in Wallets, d \in 1..MaxSubmits} \cup
        {StatsMsg(n) : n \in WorkerCounts}
Records == [k : {"len", "data"}, m : Msgs]
LenRec(m) == [k |-> "len", m |-> m]
DataRec(m) == [k |-> "data", m |-> m]
\* sendToConn: the length record, then the payload record.
Frame(m) == <<LenRec(m), DataRec(m)>>

\* States of the master's read loop for one connection.
NotDialled == [st |-> "none"]
ReadLen == [st |-> "len"]
ReadData(m) == [st |-> "data", exp |-> m]
Closed == [st |-> "closed"]

TypeOK ==
    /\ cache \in [Wallets -> Nat]
    /\ conn \in 0..MaxConns
    /\ slave \in {"dialing", "up", "down"}
    /\ flushing \in BOOLEAN /\ fq \in Seq(Records) /\ sq \in Seq(Records)
    /\ wire \in [Conns -> Seq(Records)]
    /\ mst \in [Conns -> {NotDialled, ReadLen, Closed} \cup {ReadData(m) : m \in Msgs}]
    /\ numConns \in [Conns -> {0} \cup WorkerCounts]
    /\ workers \in Nat
    /\ credited \in [Wallets -> 0..MaxSubmits] /\ submitted \in [Wallets -> 0..MaxSubmits]
    /\ lostInNet \in [Wallets -> Nat]
    /\ nstats \in 0..MaxStats /\ panicked \in BOOLEAN /\ garbled \in BOOLEAN

Init ==
    /\ cache = [w \in Wallets |-> 0]
    /\ conn = 0
    /\ slave = "dialing"
    /\ flushing = FALSE /\ fq = <<>> /\ sq = <<>>
    /\ wire = [g \in Conns |-> <<>>]
    /\ mst = [g \in Conns |-> NotDialled]
    /\ numConns = [g \in Conns |-> 0]
    /\ workers = 0
    /\ credited = [w \in Wallets |-> 0]
    /\ submitted = [w \in Wallets |-> 0]
    /\ lostInNet = [w \in Wallets |-> 0]
    /\ nstats = 0
    /\ panicked = FALSE
    /\ garbled = FALSE

\* A connection both ends still have open.
Open(g) == g # 0 /\ mst[g] \notin {NotDialled, Closed}

\* One conn.Write of record r on connection g: lost if the connection is
\* closed at either end (the error is ignored).
Write(g, r) == IF Open(g) THEN [wire EXCEPT ![g] = Append(@, r)] ELSE wire

ShareDiff(rs, w) ==
    MapThenSumSet(LAMBDA i : IF rs[i].k = "data" /\ rs[i].m.type = "share" /\ rs[i].m.w = w
                               THEN rs[i].m.d ELSE 0,
                  DOMAIN rs)

-----------------------------------------------------------------------------
(* StartSlaveClient (slaveClient.go 38-93).                                *)

\* The connection the next successful dial creates.
NextConn == Cardinality({ g \in Conns : mst[g] # NotDialled }) + 1

\* net.Dial assigns the global conn without connMut.  The master's accept
\* loop starts HandleSlave on the new connection.  A failed dial assigns
\* nil; after a 1 s sleep the loop dials again.
Dial ==
    /\ ~panicked /\ slave = "dialing"
    /\ \/ /\ NextConn <= MaxConns
          /\ conn' = NextConn
          /\ mst' = [mst EXCEPT ![NextConn] = ReadLen]
          /\ slave' = "up"
       \/ /\ NET_FAILS
          /\ conn' = 0
          /\ UNCHANGED <<mst, slave>>
    /\ UNCHANGED <<cache, flushing, fq, sq, wire, numConns, workers, credited,
                   submitted, lostInNet, nstats, panicked, garbled>>

\* io.ReadFull fails once the master closed the connection or the network
\* broke it: conn.Close(), then sleep.  The global conn is not reset.
SlaveReadFail ==
    /\ ~panicked /\ slave = "up" /\ mst[conn] = Closed
    /\ slave' = "down"
    /\ UNCHANGED <<cache, conn, flushing, fq, sq, wire, mst, numConns, workers,
                   credited, submitted, lostInNet, nstats, panicked, garbled>>

Redial ==
    /\ ~panicked /\ slave = "down"
    /\ slave' = "dialing"
    /\ UNCHANGED <<cache, conn, flushing, fq, sq, wire, mst, numConns, workers,
                   credited, submitted, lostInNet, nstats, panicked, garbled>>

\* The TCP connection breaks: records in flight are lost and the master's
\* read fails, so it closes and deletes numConns[connId] (handler.go 43-50).
NetBreak(g) ==
    /\ NET_FAILS /\ Open(g)
    /\ mst' = [mst EXCEPT ![g] = Closed]
    /\ wire' = [wire EXCEPT ![g] = <<>>]
    /\ lostInNet' = [w \in Wallets |-> lostInNet[w] + ShareDiff(wire[g], w)]
    /\ numConns' = [numConns EXCEPT ![g] = 0]
    /\ UNCHANGED <<cache, conn, slave, flushing, fq, sq, workers, credited,
                   submitted, nstats, panicked, garbled>>

-----------------------------------------------------------------------------
(* SendShare and the flush (slaveClient.go 107-128, slaveQueue.go 42-86). *)

\* Mutant: cacheShare adds the share count to the diff total.
CacheShareSwapped(w) == cache[w] + (cache[w] + 1)

\* cacheShare: NumShares++ and TotalDiff += diff, each share of diff 1.
CacheShare(w) == cache[w] + 1

SendShare(w) ==
    /\ ~panicked /\ ~flushing                    \* connMut
    /\ MapThenSumSet(LAMBDA v : submitted[v], Wallets) < MaxSubmits
    /\ cache' = [cache EXCEPT ![w] = CacheShare(w)]
    /\ submitted' = [submitted EXCEPT ![w] = @ + 1]
    /\ UNCHANGED <<conn, slave, flushing, fq, sq, wire, mst, numConns, workers,
                   credited, lostInNet, nstats, panicked, garbled>>

\* The records of one flush: a ShareFound message per cached wallet, in
\* the order Go's map iteration picks.
FlushRecords(order) ==
    FoldLeft(LAMBDA acc, w : acc \o Frame(ShareMsg(w, cache[w])), <<>>, order)

\* Mutant: every wallet is visited, also those with nothing cached.
CachedWalletsAll == Wallets

\* The keys of slaveCache.Shares: wallets with a share since the last flush.
CachedWallets == { w \in Wallets : cache[w] > 0 }

FlushBegin ==
    /\ ~panicked /\ ~flushing /\ conn # 0
    /\ flushing' = TRUE
    /\ \E order \in SetToSeqs(CachedWallets) : fq' = FlushRecords(order)
    /\ UNCHANGED <<cache, conn, slave, sq, wire, mst, numConns, workers, credited,
                   submitted, lostInNet, nstats, panicked, garbled>>

\* One step of sendToConn within the flush.  The length record is written
\* after the nil check (a nil conn skips the message); the payload record
\* reads the global conn again, and a nil conn there is a nil dereference.
FlushWrite ==
    /\ ~panicked /\ flushing /\ fq # <<>>
    /\ IF Head(fq).k = "len"
         THEN IF conn = 0
                THEN /\ fq' = Tail(Tail(fq))
                     /\ UNCHANGED <<wire, panicked>>
                ELSE /\ wire' = Write(conn, Head(fq))
                     /\ fq' = Tail(fq)
                     /\ UNCHANGED panicked
         ELSE IF conn = 0
                THEN /\ panicked' = TRUE
                     /\ UNCHANGED <<wire, fq>>
                ELSE /\ wire' = Write(conn, Head(fq))
                     /\ fq' = Tail(fq)
                     /\ UNCHANGED panicked
    /\ UNCHANGED <<cache, conn, slave, flushing, sq, mst, numConns, workers, credited,
                   submitted, lostInNet, nstats, garbled>>

\* Mutant: the cache is not cleared after the flush.
FlushEndKeep ==
    /\ ~panicked /\ flushing /\ fq = <<>>
    /\ flushing' = FALSE
    /\ UNCHANGED <<cache, conn, slave, fq, sq, wire, mst, numConns, workers, credited,
                   submitted, lostInNet, nstats, panicked, garbled>>

\* slaveCache.Shares = make(...), then connMut.Unlock().
FlushEnd ==
    /\ ~panicked /\ flushing /\ fq = <<>>
    /\ cache' = [w \in Wallets |-> 0]
    /\ flushing' = FALSE
    /\ UNCHANGED <<conn, slave, fq, sq, wire, mst, numConns, workers, credited,
                   submitted, lostInNet, nstats, panicked, garbled>>

-----------------------------------------------------------------------------
(* The stats goroutine (cmd/slave/slave.go 107-113): SendStats every 10 s  *)
(* under srv.ConnsMut but not connMut.  SendBlockFound and SendShareFound  *)
(* write through the same unlocked sendToConn.                             *)

StatsSend(n) ==
    /\ ~panicked /\ STATS_SENDER /\ sq = <<>> /\ nstats < MaxStats
    /\ nstats' = nstats + 1
    /\ IF conn = 0
         THEN UNCHANGED <<wire, sq>>            \* "SendToConn: Connection is nil"
         ELSE /\ wire' = Write(conn, LenRec(StatsMsg(n)))
              /\ sq' = <<DataRec(StatsMsg(n))>>
    /\ UNCHANGED <<cache, conn, slave, flushing, fq, mst, numConns, workers, credited,
                   submitted, lostInNet, panicked, garbled>>

StatsData ==
    /\ ~panicked /\ sq # <<>>
    /\ IF conn = 0
         THEN /\ panicked' = TRUE /\ UNCHANGED <<wire, sq>>
         ELSE /\ wire' = Write(conn, Head(sq)) /\ sq' = <<>>
              /\ UNCHANGED panicked
    /\ UNCHANGED <<cache, conn, slave, flushing, fq, mst, numConns, workers, credited,
                   submitted, lostInNet, nstats, garbled>>

-----------------------------------------------------------------------------
(* HandleSlave and OnMessage (cmd/master/handler.go 37-86, 95-174).        *)

\* conn.Close() and delete(numConns, connId); Stats.Workers is left as it
\* was.  Records still unread are dropped with the connection.
CloseConn(g) ==
    /\ mst' = [mst EXCEPT ![g] = Closed]
    /\ wire' = [wire EXCEPT ![g] = <<>>]
    /\ numConns' = [numConns EXCEPT ![g] = 0]

\* OnMessage: a ShareFound packet goes to OnShareFound; a Stats packet
\* sets numConns[connId] and recomputes Stats.Workers as the sum.
Deliver(g, m) ==
    IF m.type = "share"
      THEN /\ credited' = [credited EXCEPT ![m.w] = @ + m.d]
           /\ UNCHANGED <<numConns, workers>>
      ELSE /\ numConns' = [numConns EXCEPT ![g] = m.n]
           /\ workers' = MapThenSumSet(LAMBDA h : numConns'[h], Conns)
           /\ UNCHANGED credited

\* One io.ReadFull and Decrypt of the master's loop.  Sealed records carry
\* their own random nonce, so a record decrypts wherever it is read if it
\* has the size the reader asked for; any other record fails to decrypt.
\*  - expecting a length: a length record gives the size of the payload;
\*    a payload record fails (a WorkerCount payload has the size of a
\*    length but announces 2 + 256 * n bytes, which do not frame the
\*    records that follow).
\*  - expecting a payload: the record that belongs to the length is
\*    handled by OnMessage.  A WorkerCount payload has the size of a length
\*    record, so a length record read in its place decrypts: its first byte
\*    is the packet type, 2 for a WorkerCount length (a WorkerCount of 0)
\*    and an unknown type for a ShareFound length.  Anything else fails.
MasterRead(g) ==
    /\ Open(g) /\ wire[g] # <<>>
    /\ LET r == Head(wire[g])
           rest == [wire EXCEPT ![g] = Tail(@)]
       IN  \/ /\ mst[g] = ReadLen /\ r.k = "len"
              /\ mst' = [mst EXCEPT ![g] = ReadData(r.m)]
              /\ wire' = rest
              /\ UNCHANGED <<numConns, workers, credited, garbled>>
           \/ /\ mst[g] # ReadLen /\ r = DataRec(mst[g].exp)
              /\ mst' = [mst EXCEPT ![g] = ReadLen]
              /\ wire' = rest
              /\ Deliver(g, r.m)
              /\ UNCHANGED garbled
           \/ /\ mst[g] # ReadLen /\ mst[g].exp.type = "stats" /\ r.k = "len"
              /\ mst' = [mst EXCEPT ![g] = ReadLen]
              /\ wire' = rest
              /\ IF r.m.type = "stats"
                   THEN Deliver(g, StatsMsg(0))
                   ELSE UNCHANGED <<numConns, workers, credited>>
              /\ garbled' = TRUE
           \/ /\ \/ mst[g] = ReadLen /\ r.k = "data"
                 \/ /\ mst[g] # ReadLen /\ r # DataRec(mst[g].exp)
                    /\ ~(mst[g].exp.type = "stats" /\ r.k = "len")
              /\ CloseConn(g)
              /\ garbled' = TRUE
              /\ UNCHANGED <<workers, credited>>
    /\ UNCHANGED <<cache, conn, slave, flushing, fq, sq, submitted, lostInNet,
                   nstats, panicked>>

-----------------------------------------------------------------------------
Next ==
    \/ Dial \/ SlaveReadFail \/ Redial
    \/ \E g \in Conns : NetBreak(g) \/ MasterRead(g)
    \/ \E w \in Wallets : SendShare(w)
    \/ FlushBegin \/ FlushWrite \/ FlushEnd
    \/ \E n \in WorkerCounts : StatsSend(n)
    \/ StatsData

\* The flush and stats goroutines run on 10 s timers, the read loops block
\* on their sockets and are woken by data, and the redial sleeps 1 s: each
\* is weakly fair.  Sessions submit shares only when miners do: no fairness.
Fairness ==
    /\ WF_vars(Dial) /\ WF_vars(SlaveReadFail) /\ WF_vars(Redial)
    /\ WF_vars(FlushBegin) /\ WF_vars(FlushWrite) /\ WF_vars(FlushEnd)
    /\ WF_vars(StatsData)
    /\ \A g \in Conns : WF_vars(MasterRead(g))

Spec == Init /\ [][Next]_vars /\ Fairness

-----------------------------------------------------------------------------
(* Properties.                                                             *)

\* Diff of wallet w the slave still holds: the cache, or while a flush runs
\* the payload records it has not written yet (the cache is cleared after).
Held(w) == IF flushing THEN ShareDiff(fq, w) ELSE cache[w]

InWire(w) == MapThenSumSet(LAMBDA g : ShareDiff(wire[g], w), Conns)

Accounted(w) == credited[w] + lostInNet[w] + InWire(w) + Held(w)

\* The master never credits a wallet with diff its miners did not submit:
\* credited, in flight, held by the slave and lost to a broken connection
\* together never exceed what SendShare was given, whatever the flush, the
\* redial and the stats sender interleave.
NoShareInvented == \A w \in Wallets : Accounted(w) <= submitted[w]

\* Spec: while the link is down the cache is retained and sent once the
\* link is back.  So every share is held, in flight, credited, or lost only
\* to the network breaking a connection under it.
SharesConserved == \A w \in Wallets : Accounted(w) = submitted[w]

\* Spec: the sender holds a single link lock for each send, so the master
\* never reads a record other than the one its frame reader expects.
NoFrameError == ~garbled

\* Spec: Stats.Workers is the sum of numConns over the connected slaves,
\* also after a slave's connection closes.
WorkersSum == workers = MapThenSumSet(LAMBDA g : numConns[g], Conns)

\* sendToConn never writes to a nil connection: the nil check and the two
\* writes read the global conn that the dial loop assigns without connMut.
NoNilWrite == ~panicked

\* ShareRelay implements the share channel the spec promises: the master
\* credits a wallet only what SendShare was given for it, and, on a link
\* that does not fail, eventually all of it.  The cache, the flush
\* goroutine, the records on the wire and the master's read loop are
\* hidden; the refinement mapping keeps the two counters the promise is
\* about.
Channel == INSTANCE ShareChannel WITH submitted <- submitted, credited <- credited

=============================================================================
