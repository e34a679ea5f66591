------------------------------- MODULE Session -------------------------------
(***************************************************************************)
(* The slave's Stratum side (cmd/slave/conn.go, slave.go, nicehash.go,     *)
(* stratum/server.go): the server's connection list, each miner's login    *)
(* and submit loop, the refresher that polls the daemon and spawns one     *)
(* job goroutine per listed connection, and the shared NiceHash template   *)
(* whose byte 42 is handed out one value per job.                          *)
(*                                                                         *)
(* Templates are numbered in the order they are fetched and remember the   *)
(* daemon height they were fetched at.  A job is [id, t, b, d]: its job id *)
(* (random in the code, distinct here), its template, its NiceHash byte    *)
(* (0 for none) and its difficulty.  Vardiff is a float computation over   *)
(* wall-clock time; the difficulty it yields is any value of Diffs.  A     *)
(* submitted hash is genuine (calc_pow agrees) or forged, and claims a     *)
(* share difficulty; RandomFloat() > 0.5 is a nondeterministic coin.       *)
(* CurInfo's mutex, the refresher's SIGUSR1 channel (buffer 1) and its     *)
(* handler goroutine are modelled because the block path holds the first  *)
(* while it sends on the second.                                           *)
(***************************************************************************)
EXTENDS Integers, Sequences, FiniteSets

CONSTANTS
    Conns,              \* miner connections, one session each
    NicehashConns,      \* connections whose agent is XMRig or asks for nicehash
    Diffs,              \* job difficulties vardiff may produce
    Nonces,             \* the low three nonce bytes a miner may submit
    BYTE_MAX,           \* the largest value of the NiceHash byte (255 in the code)
    MaxHeight,          \* bound on the daemon's height
    MaxTemplates,       \* bound on block templates fetched
    MaxJobs,            \* bound on jobs handed out
    MaxTasks,           \* bound on pending refresher goroutines per connection
    MaxShares,          \* bound on accepted shares
    NetDiffs,           \* network difficulties the daemon may report
    Forgers,            \* connections whose miner may submit hashes calc_pow rejects
    TRUST_SCORE,        \* SlaveConfig.TrustScore
    RPC_FAILS           \* get_block_template and get_height may fail

ASSUME NicehashConns \subseteq Conns /\ BYTE_MAX \in Nat \ {0}
ASSUME NetDiffs \subseteq Nat \ {0} /\ TRUST_SCORE \in Nat /\ Forgers \subseteq Conns

NoJob == [id |-> 0, t |-> 0, b |-> 0, d |-> 0]     \* a zero ConnJob

\* A connection not inside the block-submit tail of a submit.
NoSub == [ph |-> "idle", sd |-> 0, ver |-> FALSE, gen |-> FALSE]

VARIABLES
    height,       \* the daemon's chain height
    info,         \* CurInfo.Height
    tmplH,        \* template number -> daemon height it was fetched at
    nh,           \* CurrentNicehashJob: its template and LastNonce
    st,           \* connection -> "idle", "new" (listed, not logged in), "up", "kicking", "gone"
    listed,       \* srv.Connections
    snap,         \* connection -> the list a Kick in progress read
    cur, last,    \* connection -> CurrentJob, LastJob
    sent,         \* history: connection -> jobs it was sent
    nJobs,        \* job ids issued so far
    pend,         \* connection -> heights of the OnNewBlock goroutines not yet run
    clears,       \* ClearNicehashJob goroutines not yet run
    alloc,        \* history: NiceHash bytes handed out, [c, t, b]
    refreshed,    \* history: [h, t] for each job an OnNewBlock goroutine built
    acc,          \* history: accepted shares [c, id, n, nb, d, forged], in order
    daemonD,      \* the daemon's network difficulty
    netDiff,      \* CurInfo.Difficulty, from the last template fetched
    score,        \* connection -> conn.Score
    caught,       \* history: [c, k] a forged hash detected after c's k-th accepted share
    sub,          \* connection -> the submit past its share check, still holding c's lock
    holder,       \* {} or {c}: the connection holding CurInfo's mutex on the block path
    sigq,         \* SIGUSR1 signals buffered in sigc
    handler,      \* the SIGUSR1 handler goroutine: "idle" or "rpc" (signal taken)
    blocks        \* history: submit_block calls [c, ver, gen], in order

vars == <<height, info, tmplH, nh, st, listed, snap, cur, last, sent, nJobs,
          pend, clears, alloc, refreshed, acc, daemonD, netDiff, score, caught,
          sub, holder, sigq, handler, blocks>>

\* The variables of the share check, the block path and the SIGUSR1 handler.
powVars == <<daemonD, netDiff, score, caught, sub, holder, sigq, handler, blocks>>
\* The same without CurInfo.Difficulty, which every template fetch sets.
checkVars == <<daemonD, score, caught, sub, holder, sigq, handler, blocks>>

Heights == 1..MaxHeight
Bytes == 0..BYTE_MAX
ShareDiffs == Diffs \cup NetDiffs   \* difficulties a submitted hash may claim
Jobs == [id : 0..MaxJobs, t : 0..MaxTemplates, b : Bytes, d : {0} \cup Diffs]

TypeOK ==
    /\ height \in Heights /\ info \in 0..MaxHeight
    /\ tmplH \in Seq(Heights) /\ Len(tmplH) <= MaxTemplates
    /\ nh \in [t : 0..MaxTemplates, last : Bytes]
    /\ st \in [Conns -> {"idle", "new", "up", "kicking", "gone"}]
    /\ listed \subseteq Conns /\ snap \in [Conns -> SUBSET Conns]
    /\ cur \in [Conns -> Jobs] /\ last \in [Conns -> Jobs]
    /\ sent \in [Conns -> SUBSET Jobs] /\ nJobs \in 0..MaxJobs
    /\ pend \in [Conns -> Seq(Heights)] /\ clears \in 0..MaxTasks
    /\ alloc \subseteq [c : Conns, t : 1..MaxTemplates, b : Bytes]
    /\ refreshed \subseteq [h : Heights, t : 1..MaxTemplates]
    /\ acc \in Seq([c : Conns, id : 0..MaxJobs, n : Nonces, nb : Bytes, d : Diffs,
                    forged : BOOLEAN])
    /\ daemonD \in NetDiffs /\ netDiff \in {0} \cup NetDiffs
    /\ score \in [Conns -> -100..MaxShares]
    /\ caught \subseteq [c : Conns, k : 0..MaxShares]
    /\ sub \in [Conns -> [ph : {"idle", "decide", "signal"},
                          sd : {0} \cup ShareDiffs, ver : BOOLEAN, gen : BOOLEAN]]
    /\ holder \subseteq Conns /\ Cardinality(holder) <= 1
    /\ sigq \in 0..1 /\ handler \in {"idle", "rpc"}
    /\ blocks \in Seq([c : Conns, ver : BOOLEAN, gen : BOOLEAN])

Init ==
    /\ height = 1 /\ info = 0
    /\ tmplH = <<>> /\ nh = [t |-> 0, last |-> 0]
    /\ st = [c \in Conns |-> "idle"] /\ listed = {}
    /\ snap = [c \in Conns |-> {}]
    /\ cur = [c \in Conns |-> NoJob] /\ last = [c \in Conns |-> NoJob]
    /\ sent = [c \in Conns |-> {}] /\ nJobs = 0
    /\ pend = [c \in Conns |-> <<>>] /\ clears = 0
    /\ alloc = {} /\ refreshed = {} /\ acc = <<>>
    /\ daemonD \in NetDiffs /\ netDiff = 0
    /\ score = [c \in Conns |-> 0] /\ caught = {}
    /\ sub = [c \in Conns |-> NoSub] /\ holder = {}
    /\ sigq = 0 /\ handler = "idle" /\ blocks = <<>>

-----------------------------------------------------------------------------
(* Block templates and the NiceHash allocator.                             *)

\* get_block_template: a new template at the daemon's current height; the
\* caller then sets CurInfo.Difficulty under CurInfo's mutex.
CanFetch == Len(tmplH) < MaxTemplates /\ holder = {}
NewTemplate == Len(tmplH) + 1
FetchTemplate == tmplH' = Append(tmplH, height) /\ netDiff' = daemonD

\* Mutant: only the uninitialised LastNonce forces a new template.
NeedsTemplateNoWrap == nh.last = 0

\* GetNicehashJob regenerates the template when LastNonce is 255 or 0.
NeedsTemplate == nh.last = BYTE_MAX \/ nh.last = 0

\* The template and byte GetNicehashJob hands out.  LastNonce is a byte:
\* LastNonce += 1 wraps.
NhTemplate == IF NeedsTemplate THEN NewTemplate ELSE nh.t
NhByte == IF NeedsTemplate THEN 1 ELSE (nh.last + 1) % (BYTE_MAX + 1)

\* A successful GetNicehashJob (under NicehashMutex).
GetNicehashJob ==
    /\ NeedsTemplate => CanFetch
    /\ nh' = [t |-> NhTemplate, last |-> NhByte]
    /\ IF NeedsTemplate THEN FetchTemplate ELSE UNCHANGED <<tmplH, netDiff>>

\* GetNicehashJob fails only when it asks the daemon for a template.
NicehashFails == RPC_FAILS /\ NeedsTemplate

\* The job connection c is handed, on template t with byte b, difficulty d.
Issue(c, t, b, d) ==
    LET j == [id |-> nJobs + 1, t |-> t, b |-> b, d |-> d]
    IN  /\ nJobs < MaxJobs
        /\ cur' = [cur EXCEPT ![c] = j]
        /\ sent' = [sent EXCEPT ![c] = @ \cup {j}]
        /\ nJobs' = nJobs + 1
        /\ alloc' = IF c \in NicehashConns
                      THEN alloc \cup {[c |-> c, t |-> t, b |-> b]}
                      ELSE alloc

\* The job for c: GetNicehashJob for a NiceHash connection, GetJob otherwise.
NextJob(c, d) ==
    IF c \in NicehashConns
      THEN GetNicehashJob /\ Issue(c, NhTemplate, NhByte, d)
      ELSE CanFetch /\ FetchTemplate /\ UNCHANGED nh /\ Issue(c, NewTemplate, 0, d)

JobFails(c) == IF c \in NicehashConns THEN NicehashFails ELSE RPC_FAILS

-----------------------------------------------------------------------------
(* The server's connection list (stratum/server.go 99-195).                *)

\* handleConnection appends the accepted connection under ConnsMut.
Accept(c) ==
    /\ st[c] = "idle"
    /\ st' = [st EXCEPT ![c] = "new"]
    /\ listed' = listed \cup {c}
    /\ UNCHANGED <<height, info, tmplH, nh, snap, cur, last, sent, nJobs, pend,
                   clears, alloc, refreshed, acc>>
    /\ UNCHANGED powVars

\* srv.Kick(c.Id), called without ConnsMut: it reads srv.Connections, closes
\* the connection, and later assigns the filtered copy.  Here is the read.
KickBegin(c) ==
    /\ st' = [st EXCEPT ![c] = "kicking"]
    /\ snap' = [snap EXCEPT ![c] = listed]

\* The assignment of the copy read by KickBegin.
KickEnd(c) ==
    /\ st[c] = "kicking"
    /\ listed' = snap[c] \ {c}
    /\ st' = [st EXCEPT ![c] = "gone"]
    /\ UNCHANGED <<height, info, tmplH, nh, snap, cur, last, sent, nJobs, pend,
                   clears, alloc, refreshed, acc>>
    /\ UNCHANGED powVars

\* The miner disconnects, times out or sends a bad login: ReadJSON fails,
\* or the login is rejected, and the session kicks its connection.
Disconnect(c) ==
    /\ st[c] \in {"new", "up"} /\ sub[c] = NoSub
    /\ KickBegin(c)
    /\ UNCHANGED <<height, info, tmplH, nh, listed, cur, last, sent, nJobs, pend,
                   clears, alloc, refreshed, acc>>
    /\ UNCHANGED powVars

-----------------------------------------------------------------------------
(* HandleConnection (cmd/slave/conn.go 40-369, 371-650), without P2Pool.   *)

\* The login: the starting difficulty (a +N suffix or 2 * MinDiff), then
\* GetNicehashJob or GetJob; a failure kicks the connection.  The login does
\* not take the connection's lock.
Login(c, d) ==
    /\ st[c] = "new"
    /\ \/ /\ NextJob(c, d)
          /\ st' = [st EXCEPT ![c] = "up"]
          /\ UNCHANGED snap
       \/ /\ JobFails(c)
          /\ KickBegin(c)
          /\ UNCHANGED <<tmplH, nh, cur, sent, nJobs, alloc, netDiff>>
    /\ UNCHANGED <<height, info, listed, last, pend, clears, refreshed, acc>>
    /\ UNCHANGED checkVars

SubmitJob(c, id) ==
    IF id = last[c].id /\ id # 0 THEN last[c]
    ELSE IF id = cur[c].id THEN cur[c]
    ELSE NoJob

\* Mutant: the "wrong job id" rejection is dropped.
KnownJobAlways(job) == TRUE

\* SubmitJob found a job for the submitted id.
KnownJob(job) == job # NoJob

\* The fourth nonce byte a miner submits for job j: the job's byte or
\* another one on a NiceHash connection; other miners' nonces differ only
\* in n.
NonceBytes(c, j) ==
    IF c \in NicehashConns THEN {j.b, (j.b + 1) % (BYTE_MAX + 1)} ELSE {j.b}

\* Mutant: the trust score no longer forces the PoW check.
CheckedNoScore(c, sd, coin) == sd >= netDiff \/ coin

\* Under CurInfo's mutex the share's PoW is recomputed by calc_pow when it
\* would solve a block, when the connection's score is below TrustScore,
\* or when RandomFloat() > 0.5.
Checked(c, sd, coin) == sd >= netDiff \/ score[c] < TRUST_SCORE \/ coin

Penalize(c) == score' = [score EXCEPT ![c] = -100]

\* The number of shares credited to c so far.
Credited(c) == Cardinality({i \in DOMAIN acc : acc[i].c = c})

\* One submit under the connection's lock, up to SendShare.  The miner
\* submits for a job it was sent, nonce n with fourth byte nb, a hash that
\* is genuine or not and claims difficulty sd.  Rejected: an unknown job
\* id, a NiceHash byte that is not the job's, a checked hash calc_pow
\* disagrees with (the score drops to -100), or a hash below the job's
\* difficulty.  A calc_pow RPC error replies "internal server error" and
\* changes nothing, so it is no step here.  Accepted: Score += 1 and
\* SendShare with the job's difficulty; the lock is still held for the
\* block check.  (The fee-address routing picks the credited address at
\* random and is left out.)
Submit(c, j, n, nb, sd, gen, coin) ==
    LET job == SubmitJob(c, j.id)
        ver == Checked(c, sd, coin)
    IN  /\ st[c] = "up" /\ sub[c] = NoSub /\ holder = {} /\ Len(acc) < MaxShares
        /\ KnownJob(job)
        /\ ~(c \in NicehashConns /\ job.b # 0 /\ nb # job.b)
        /\ \/ /\ ver /\ ~gen
              /\ Penalize(c)
              /\ caught' = caught \cup {[c |-> c, k |-> Credited(c)]}
              /\ UNCHANGED <<acc, sub>>
           \/ /\ gen \/ ~ver
              /\ sd >= job.d
              /\ score' = [score EXCEPT ![c] = @ + 1]
              /\ acc' = Append(acc, [c |-> c, id |-> j.id, n |-> n, nb |-> nb,
                                     d |-> job.d, forged |-> ~gen])
              /\ sub' = [sub EXCEPT ![c] = [ph |-> "decide", sd |-> sd, ver |-> ver, gen |-> gen]]
              /\ UNCHANGED caught
        /\ UNCHANGED <<height, info, tmplH, nh, st, listed, snap, cur, last, sent,
                       nJobs, pend, clears, alloc, refreshed>>
        /\ UNCHANGED <<daemonD, netDiff, holder, sigq, handler, blocks>>

\* `shareDiff >= CurInfo.Difficulty', read again without CurInfo's mutex.
\* No block: vardiff and the unlock end the submit.  A block:
\* CurInfo.Lock() and submit_block with the patched block blob.  (Every
\* write of CurInfo.Difficulty holds the mutex, so reading it here or
\* when the mutex is taken yields the same blocks.)
Decide(c) ==
    /\ sub[c].ph = "decide"
    /\ \/ /\ sub[c].sd < netDiff
          /\ sub' = [sub EXCEPT ![c] = NoSub]
          /\ UNCHANGED <<holder, blocks>>
       \/ /\ sub[c].sd >= netDiff /\ holder = {}
          /\ holder' = {c}
          /\ blocks' = Append(blocks, [c |-> c, ver |-> sub[c].ver, gen |-> sub[c].gen])
          /\ sub' = [sub EXCEPT ![c].ph = "signal"]
    /\ UNCHANGED <<height, info, tmplH, nh, st, listed, snap, cur, last, sent, nJobs,
                   pend, clears, alloc, refreshed, acc>>
    /\ UNCHANGED <<daemonD, netDiff, score, caught, sigq, handler>>

\* `sigc <- SIGUSR1' with CurInfo still locked; it blocks while sigc's one
\* slot is full.  Then, on every path (RPC error, hash decode error, block
\* found), CurInfo.Unlock(), vardiff and conn.Unlock().
Signal(c) ==
    /\ sub[c].ph = "signal" /\ sigq < 1
    /\ sigq' = sigq + 1
    /\ holder' = {}
    /\ sub' = [sub EXCEPT ![c] = NoSub]
    /\ UNCHANGED <<height, info, tmplH, nh, st, listed, snap, cur, last, sent, nJobs,
                   pend, clears, alloc, refreshed, acc>>
    /\ UNCHANGED <<daemonD, netDiff, score, caught, handler, blocks>>

-----------------------------------------------------------------------------
(* Refresher and OnNewBlock (cmd/slave/slave.go 68-252).                   *)

\* The daemon's chain grows; the new block may change the difficulty.
NewBlock ==
    /\ height < MaxHeight
    /\ height' = height + 1
    /\ daemonD' \in NetDiffs
    /\ UNCHANGED <<info, tmplH, nh, st, listed, snap, cur, last, sent, nJobs,
                   pend, clears, alloc, refreshed, acc>>
    /\ UNCHANGED <<netDiff, score, caught, sub, holder, sigq, handler, blocks>>

\* OnNewBlock, under ConnsMut: one goroutine per listed connection and one
\* that calls ClearNicehashJob after a second.
OnNewBlock ==
    /\ clears < MaxTasks
    /\ \A c \in listed : Len(pend[c]) < MaxTasks
    /\ pend' = [c \in Conns |-> IF c \in listed THEN Append(pend[c], height) ELSE pend[c]]
    /\ clears' = clears + 1

\* One iteration of the refresher that sees a new height, or a template
\* older than TemplateTimeout: under CurInfo's mutex CurInfo.Height is set,
\* then OnNewBlock starts.
Poll(timeout) ==
    /\ height # info \/ timeout
    /\ holder = {}
    /\ info' = height
    /\ OnNewBlock
    /\ UNCHANGED <<height, tmplH, nh, st, listed, snap, cur, last, sent, nJobs,
                   alloc, refreshed, acc>>
    /\ UNCHANGED powVars

\* The SIGUSR1 goroutine takes a signal from sigc and asks get_height.
SigRecv ==
    /\ sigq > 0 /\ handler = "idle"
    /\ sigq' = sigq - 1
    /\ handler' = "rpc"
    /\ UNCHANGED <<height, info, tmplH, nh, st, listed, snap, cur, last, sent, nJobs,
                   pend, clears, alloc, refreshed, acc>>
    /\ UNCHANGED <<daemonD, netDiff, score, caught, sub, holder, blocks>>

\* get_height fails: `continue' to the next signal.
SigHeightFails ==
    /\ RPC_FAILS /\ handler = "rpc"
    /\ handler' = "idle"
    /\ UNCHANGED <<height, info, tmplH, nh, st, listed, snap, cur, last, sent, nJobs,
                   pend, clears, alloc, refreshed, acc>>
    /\ UNCHANGED <<daemonD, netDiff, score, caught, sub, holder, sigq, blocks>>

\* CurInfo.Lock(); on a new height CurInfo.Height is set and OnNewBlock
\* starts (get_last_block_header only sets MajorVersion); CurInfo.Unlock().
SigApply ==
    /\ handler = "rpc" /\ holder = {}
    /\ handler' = "idle"
    /\ IF height # info
         THEN info' = height /\ OnNewBlock
         ELSE UNCHANGED <<info, pend, clears>>
    /\ UNCHANGED <<height, tmplH, nh, st, listed, snap, cur, last, sent, nJobs,
                   alloc, refreshed, acc>>
    /\ UNCHANGED <<daemonD, netDiff, score, caught, sub, holder, sigq, blocks>>

\* One OnNewBlock goroutine, under c's lock: LastJob := CurrentJob, the
\* vardiff difficulty, and a new job; a failure kicks the connection.  The
\* goroutine holds c itself, so it runs after c was kicked as well.
RefreshConn(c, d) ==
    /\ pend[c] # <<>> /\ sub[c] = NoSub
    /\ pend' = [pend EXCEPT ![c] = Tail(@)]
    /\ last' = [last EXCEPT ![c] = cur[c]]
    /\ \/ /\ NextJob(c, d)
          /\ refreshed' = refreshed \cup {[h |-> Head(pend[c]), t |-> cur'[c].t]}
          /\ UNCHANGED <<st, snap>>
       \/ /\ JobFails(c)
          /\ cur' = [cur EXCEPT ![c].d = d]
          /\ IF st[c] \in {"new", "up"} THEN KickBegin(c) ELSE UNCHANGED <<st, snap>>
          /\ UNCHANGED <<tmplH, nh, sent, nJobs, alloc, refreshed, netDiff>>
    /\ UNCHANGED <<height, info, listed, clears, acc>>
    /\ UNCHANGED checkVars

\* ClearNicehashJob, a second after OnNewBlock started.
Clear ==
    /\ clears > 0
    /\ clears' = clears - 1
    /\ nh' = [nh EXCEPT !.last = 0]
    /\ UNCHANGED <<height, info, tmplH, st, listed, snap, cur, last, sent, nJobs,
                   pend, alloc, refreshed, acc>>
    /\ UNCHANGED powVars

-----------------------------------------------------------------------------
Next ==
    \/ NewBlock \/ Clear
    \/ \E timeout \in BOOLEAN : Poll(timeout)
    \/ SigRecv \/ SigHeightFails \/ SigApply
    \/ \E c \in Conns :
          \/ Accept(c) \/ Disconnect(c) \/ KickEnd(c)
          \/ Decide(c) \/ Signal(c)
          \/ \E d \in Diffs : Login(c, d) \/ RefreshConn(c, d)
          \/ \E j \in sent[c], n \in Nonces, sd \in ShareDiffs, coin \in BOOLEAN :
                \E gen \in IF c \in Forgers THEN BOOLEAN ELSE {TRUE} :
                \E nb \in NonceBytes(c, j) :
                Submit(c, j, n, nb, sd, gen, coin)

Spec == Init /\ [][Next]_vars

-----------------------------------------------------------------------------
(* Properties.                                                             *)

\* The NiceHash allocator never hands the same byte of the same template to
\* two jobs, and never hands out byte 0, which the submit check reads as
\* "no byte reserved": two miners never search the same nonces.
NicehashByteUnique ==
    /\ \A x \in alloc : x.b # 0
    /\ \A x, y \in alloc : x # y /\ x.t = y.t => x.b # y.b

FreshJobs == \A r \in refreshed : tmplH[r.t] >= r.h

\* Every connection that is accepted and not kicked is in srv.Connections,
\* so that OnNewBlock sends it new jobs.
LiveListed == \A c \in Conns : st[c] \in {"new", "up"} => c \in listed

\* A share (job, nonce) is accepted at most once.
NoDuplicateShare ==
    \A i, k \in DOMAIN acc :
        i # k => [acc[i] EXCEPT !.d = 0] # [acc[k] EXCEPT !.d = 0]

BlockVerified == \A i \in DOMAIN blocks : blocks[i].ver

\* A connection that found a block and holds CurInfo's mutex can always
\* send its SIGUSR1: sigc has room, or the handler goroutine, which needs
\* that mutex to finish a signal it took, is waiting for the next one.
SignalNeverStuck ==
    ~\E c \in Conns : sub[c].ph = "signal" /\ sigq = 1 /\ handler = "rpc"

=============================================================================
