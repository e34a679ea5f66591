------------------------------- MODULE P2Pool -------------------------------
(***************************************************************************)
(* One miner connection of a slave in P2Pool mode: the P2Pool branch of    *)
(* HandleConnection (cmd/slave/conn.go 114-304 and its submit at 567-576), *)
(* the P2PoolClient's Start and Stop (p2pool/p2client.go), the stratum     *)
(* Client's Connect, submitRequest and dispatchJobs (p2pool/client.go),    *)
(* srv.Kick (stratum/server.go 169-186), and the P2Pool daemon at the      *)
(* other end of the TCP connection.                                        *)
(*                                                                         *)
(* Four goroutines: "hc" (HandleConnection), "fw" (the job forwarder it    *)
(* starts after login), "st" (P2PoolClient.Start, then srv.Kick) and "dj"  *)
(* (dispatchJobs of the current client connection).  The channels          *)
(* p.Jobs, jobChan and responseChannel are unbuffered: a send and its      *)
(* receive are one step.  Job ids are numbered in the order P2Pool sends   *)
(* them; 0 is nil.                                                         *)
(***************************************************************************)
EXTENDS Naturals, Sequences, SequencesExt

CONSTANTS
    PoolDiffs,      \* difficulties of P2Pool jobs
    ShareDiffs,     \* difficulties a miner's share reaches
    MaxJobs,        \* jobs P2Pool sends in a behaviour
    MaxConnects,    \* reconnections Start makes before it gives up
    MaxShares,      \* shares the miner submits in a behaviour
    NET_FAILS,      \* the P2Pool TCP connection may break
    P2POOL_DOWN     \* P2Pool may refuse the dial or the login

Procs == {"hc", "fw", "st", "dj"}
Nil == 0

VARIABLES
    pc,         \* where each goroutine is
    nxt,        \* where a goroutine blocked in Stop's send continues
    kicking,    \* goroutines inside srv.Kick (blocked in Stop)
    held,       \* the job a goroutine holds while it waits to pass it on
    listed,     \* conn is in srv.Connections
    mconn,      \* the miner's TCP connection: "open" or "closed"
    cconn,      \* p.client.conn: "nil", "open" or "closed"
    sess,       \* P2Pool accepted the login on cconn
    alive,      \* p.client.alive
    gen,        \* number of successful Connects: the channels' identity
    chOpen,     \* jobChan and responseChannel of generation gen are open
    wire,       \* P2Pool -> client messages in flight on cconn
    asked,      \* submits P2Pool has received and not answered
    subGen,     \* the generation of the responseChannel hc waits on
    cur, last,  \* conn.CurrentJob and conn.LastJob (job ids)
    jobDiff,    \* conn.P2Pool.JobDiff
    first,      \* the login's jobData, captured by the forwarder
    pdiff,      \* pdiff[k]: the difficulty of P2Pool job k
    minerJobs,  \* history: job ids sent to the miner, in order
    shares,     \* history: [job, sd, sub] of each share the miner sent
    connects,   \* reconnections made by Start
    panicked    \* a nil dereference killed the slave

vars == <<pc, nxt, kicking, held, listed, mconn, cconn, sess, alive, gen,
          chOpen, wire, asked, subGen, cur, last, jobDiff, first, pdiff,
          minerJobs, shares, connects, panicked>>

JobIds == 1..MaxJobs
Msgs == [k : {"job"}, id : JobIds] \cup [k : {"resp"}]
PCs == {"login", "loop", "await", "gotnil", "stop2", "stop", "done",
        "idle", "recv", "lock", "connect", "fwd", "redo", "kick",
        "none", "first", "read", "job", "resp"}

TypeOK ==
    /\ pc \in [Procs -> PCs] /\ nxt \in [Procs -> PCs]
    /\ kicking \subseteq Procs /\ held \in [Procs -> {Nil} \cup JobIds]
    /\ listed \in BOOLEAN /\ mconn \in {"open", "closed"}
    /\ cconn \in {"nil", "open", "closed"}
    /\ sess \in BOOLEAN /\ alive \in BOOLEAN /\ chOpen \in BOOLEAN
    /\ gen \in 0..MaxConnects + 1 /\ subGen \in 0..MaxConnects + 1
    /\ wire \in Seq(Msgs) /\ asked \in Nat
    /\ {cur, last} \subseteq {Nil} \cup JobIds
    /\ {jobDiff, first} \subseteq {0} \cup PoolDiffs
    /\ pdiff \in Seq(PoolDiffs) /\ Len(pdiff) <= MaxJobs
    /\ minerJobs \in Seq(JobIds)
    /\ shares \in Seq([job : JobIds, sd : ShareDiffs, sub : BOOLEAN])
    /\ connects \in 0..MaxConnects /\ panicked \in BOOLEAN

Init ==
    /\ pc = [p \in Procs |-> CASE p = "hc" -> "login" [] p = "fw" -> "idle"
                               [] p = "st" -> "connect" [] p = "dj" -> "none"]
    /\ nxt = [p \in Procs |-> "done"]
    /\ kicking = {} /\ held = [p \in Procs |-> Nil]
    /\ listed = TRUE /\ mconn = "open"
    /\ cconn = "nil" /\ sess = FALSE /\ alive = FALSE
    /\ gen = 0 /\ chOpen = FALSE /\ wire = <<>> /\ asked = 0 /\ subGen = 0
    /\ cur = Nil /\ last = Nil /\ jobDiff = 0 /\ first = 0
    /\ pdiff = <<>> /\ minerJobs = <<>> /\ shares = <<>>
    /\ connects = 0 /\ panicked = FALSE

Goto(p, l) == pc' = [pc EXCEPT ![p] = l]

\* A new job from P2Pool, with difficulty d.
NewJob(d) == /\ Len(pdiff) < MaxJobs
             /\ pdiff' = Append(pdiff, d)

-----------------------------------------------------------------------------
(* srv.Kick and P2PoolClient.Stop.                                         *)

\* Stop: p.client.conn.Close(), read without the client's mutex (a nil
\* conn panics), then p.Jobs <- nil, which blocks until someone receives.
Stop(p, n) ==
    /\ IF cconn = "nil"
         THEN panicked' = TRUE /\ UNCHANGED cconn
         ELSE cconn' = "closed" /\ UNCHANGED panicked
    /\ Goto(p, "stop")
    /\ nxt' = [nxt EXCEPT ![p] = n]

\* Kick, called by p, which continues at n.  While conn is listed it closes
\* the miner's connection and calls Stop; the filtered list is assigned
\* only when Stop returns.
Kick(p, n) ==
    IF listed
      THEN /\ mconn' = "closed" /\ kicking' = kicking \cup {p}
           /\ Stop(p, n)
      ELSE /\ Goto(p, n)
           /\ UNCHANGED <<mconn, cconn, panicked, nxt, kicking>>

KickRest == <<held, listed, sess, alive, gen, chOpen, wire, asked, subGen,
              cur, last, jobDiff, first, pdiff, minerJobs, shares, connects>>

-----------------------------------------------------------------------------
(* p.Jobs: Start forwards a job, or Stop sends nil; HandleConnection's     *)
(* login or the forwarder receives it.                                     *)

\* The login's first job: CurrentJob, JobDiff from its target, the login
\* response to the miner, and the forwarder goroutine.
LoginJob(v) ==
    /\ cur' = v /\ jobDiff' = pdiff[v] /\ first' = pdiff[v]
    /\ minerJobs' = Append(minerJobs, v)
    /\ UNCHANGED <<last, shares, subGen>>

PassJob(s, r) ==
    LET v == IF pc[s] = "fwd" THEN held[s] ELSE Nil
        sn == IF pc[s] = "fwd" THEN "loop" ELSE nxt[s]
    IN  /\ s # r /\ pc[s] \in {"fwd", "stop"}
        /\ \/ r = "hc" /\ pc[r] = "login"
           \/ r = "fw" /\ pc[r] = "recv"
        /\ pc' = CASE r = "hc" /\ v = Nil -> [pc EXCEPT ![s] = sn, ![r] = "gotnil"]
                   [] r = "hc" -> [pc EXCEPT ![s] = sn, ![r] = "loop", !["fw"] = "recv"]
                   [] v = Nil -> [pc EXCEPT ![s] = sn, ![r] = "done"]
                   [] OTHER -> [pc EXCEPT ![s] = sn, ![r] = "lock"]
        /\ held' = [held EXCEPT ![s] = Nil, ![r] = IF r = "fw" THEN v ELSE Nil]
        /\ IF s \in kicking
             THEN listed' = FALSE /\ kicking' = kicking \ {s}
             ELSE UNCHANGED <<listed, kicking>>
        /\ IF r = "hc" /\ v # Nil
             THEN LoginJob(v)
             ELSE UNCHANGED <<cur, last, jobDiff, first, minerJobs, shares, subGen>>
        /\ UNCHANGED <<nxt, mconn, cconn, sess, alive, gen, chOpen, wire, asked,
                       pdiff, connects, panicked>>

\* Mutant: the forwarder does not move CurrentJob to LastJob.
ForwardJobNoRotate ==
    /\ pc["fw"] = "lock" /\ pc["hc"] # "await"
    /\ cur' = held["fw"] /\ jobDiff' = first
    /\ minerJobs' = Append(minerJobs, held["fw"])
    /\ held' = [held EXCEPT !["fw"] = Nil]
    /\ Goto("fw", "recv")
    /\ UNCHANGED <<nxt, kicking, listed, mconn, cconn, sess, alive, gen, chOpen,
                   wire, asked, subGen, last, first, pdiff, shares, connects, panicked>>

\* The forwarder, under conn's lock: LastJob := CurrentJob, the new job,
\* and JobDiff from jobData.Target, the login job's target.  conn.Send
\* always returns nil, so its Kick is never reached.
ForwardJob ==
    /\ pc["fw"] = "lock" /\ pc["hc"] # "await"
    /\ last' = cur /\ cur' = held["fw"] /\ jobDiff' = first
    /\ minerJobs' = Append(minerJobs, held["fw"])
    /\ held' = [held EXCEPT !["fw"] = Nil]
    /\ Goto("fw", "recv")
    /\ UNCHANGED <<nxt, kicking, listed, mconn, cconn, sess, alive, gen, chOpen,
                   wire, asked, subGen, first, pdiff, shares, connects, panicked>>

\* HandleConnection received nil as its first job: Kick, then Stop again.
HcGotNil == pc["hc"] = "gotnil" /\ Kick("hc", "stop2") /\ UNCHANGED KickRest

HcStop2 ==
    /\ pc["hc"] = "stop2" /\ Stop("hc", "done")
    /\ UNCHANGED <<kicking, mconn>> /\ UNCHANGED KickRest

-----------------------------------------------------------------------------
(* P2PoolClient.Start and Client.Connect.                                  *)

\* Connect: dial, send the login, read the response, start dispatchJobs
\* with the login's job.  A refused dial leaves a nil conn; a rejected
\* login returns with the dialled conn still open.
Connect ==
    /\ pc["st"] = "connect"
    /\ \/ \E d \in PoolDiffs :
            /\ NewJob(d)
            /\ cconn' = "open" /\ sess' = TRUE /\ alive' = TRUE
            /\ gen' = gen + 1 /\ chOpen' = TRUE /\ wire' = <<>> /\ asked' = 0
            /\ pc' = [pc EXCEPT !["st"] = "loop", !["dj"] = "first"]
            /\ held' = [held EXCEPT !["dj"] = Len(pdiff) + 1]
       \/ /\ P2POOL_DOWN
          /\ cconn' \in {"nil", "open"} /\ sess' = FALSE
          /\ Goto("st", "redo")
          /\ UNCHANGED <<alive, gen, chOpen, wire, asked, held, pdiff>>
    /\ UNCHANGED <<nxt, kicking, listed, mconn, subGen, cur, last, jobDiff, first,
                   minerJobs, shares, connects, panicked>>

\* jobChan: dispatchJobs hands Start the login's job or a later one.
JobChan ==
    /\ pc["dj"] \in {"first", "job"} /\ pc["st"] = "loop"
    /\ pc' = [pc EXCEPT !["dj"] = "read", !["st"] = "fwd"]
    /\ held' = [held EXCEPT !["st"] = held["dj"], !["dj"] = Nil]
    /\ UNCHANGED <<nxt, kicking, listed, mconn, cconn, sess, alive, gen, chOpen,
                   wire, asked, subGen, cur, last, jobDiff, first, pdiff,
                   minerJobs, shares, connects, panicked>>

\* jobChan is closed: Start leaves its loop.
StartNil ==
    /\ pc["st"] = "loop" /\ ~chOpen
    /\ Goto("st", "redo")
    /\ UNCHANGED <<nxt, kicking, held, listed, mconn, cconn, sess, alive, gen,
                   chOpen, wire, asked, subGen, cur, last, jobDiff, first, pdiff,
                   minerJobs, shares, connects, panicked>>

\* Mutant: Start never gives up reconnecting.
RedoForever ==
    /\ pc["st"] = "redo"
    /\ connects' = connects + 1
    /\ cconn' = "nil" /\ sess' = FALSE /\ alive' = FALSE
    /\ Goto("st", "connect")
    /\ UNCHANGED <<nxt, kicking, held, listed, mconn, gen, chOpen, wire, asked,
                   subGen, cur, last, jobDiff, first, pdiff, minerJobs, shares,
                   panicked>>

\* redo: Start returns once TOTAL_TIMEOUT has passed since the last job;
\* otherwise it sleeps, resets p.client to Client{} and connects again.
Redo ==
    /\ pc["st"] = "redo"
    /\ \/ /\ Goto("st", "kick")
          /\ UNCHANGED <<cconn, sess, alive, connects>>
       \/ /\ connects < MaxConnects /\ connects' = connects + 1
          /\ cconn' = "nil" /\ sess' = FALSE /\ alive' = FALSE
          /\ Goto("st", "connect")
    /\ UNCHANGED <<nxt, kicking, held, listed, mconn, gen, chOpen, wire, asked,
                   subGen, cur, last, jobDiff, first, pdiff, minerJobs, shares,
                   panicked>>

\* After Start returns, its goroutine kicks the connection.
StartKick == pc["st"] = "kick" /\ Kick("st", "done") /\ UNCHANGED KickRest

-----------------------------------------------------------------------------
(* dispatchJobs.                                                           *)

\* One readJSON: a job goes to jobChan, a submit response to
\* responseChannel; a read error (the conn closed or broken) ends the
\* goroutine, which closes both channels.
DJRead ==
    /\ pc["dj"] = "read"
    /\ \/ /\ cconn # "open"
          /\ Goto("dj", "none") /\ chOpen' = FALSE
          /\ UNCHANGED <<wire, held>>
       \/ /\ cconn = "open" /\ wire # <<>>
          /\ wire' = Tail(wire)
          /\ IF Head(wire).k = "job"
               THEN Goto("dj", "job") /\ held' = [held EXCEPT !["dj"] = Head(wire).id]
               ELSE Goto("dj", "resp") /\ UNCHANGED held
          /\ UNCHANGED chOpen
    /\ UNCHANGED <<nxt, kicking, listed, mconn, cconn, sess, alive, gen, asked,
                   subGen, cur, last, jobDiff, first, pdiff, minerJobs, shares,
                   connects, panicked>>

\* responseChannel: the waiting submitRequest gets its response.
Resp ==
    /\ pc["dj"] = "resp" /\ pc["hc"] = "await" /\ subGen = gen
    /\ pc' = [pc EXCEPT !["dj"] = "read", !["hc"] = "loop"]
    /\ UNCHANGED <<nxt, kicking, held, listed, mconn, cconn, sess, alive, gen,
                   chOpen, wire, asked, subGen, cur, last, jobDiff, first, pdiff,
                   minerJobs, shares, connects, panicked>>

-----------------------------------------------------------------------------
(* HandleConnection's read loop after the login.                           *)

\* ReadJSON fails: the miner left, timed out, or its conn was closed.
HcReadFail == pc["hc"] = "loop" /\ Kick("hc", "done") /\ UNCHANGED KickRest

\* A valid share of difficulty sd for job j, under conn's lock.  When sd
\* exceeds conn.P2Pool.JobDiff it is a P2Pool share: SubmitWork writes the
\* request under the client's mutex (failing when the client is not alive
\* or the write fails) and, still holding conn's lock, waits on the
\* responseChannel it read.
HcShare(j, sd) ==
    LET sub == sd > jobDiff
    IN  /\ pc["hc"] = "loop" /\ mconn = "open" /\ Len(shares) < MaxShares
        /\ j \in {cur, last} \ {Nil}
        /\ shares' = Append(shares, [job |-> j, sd |-> sd, sub |-> sub])
        /\ IF sub /\ alive /\ cconn = "open"
             THEN /\ asked' = asked + 1 /\ subGen' = gen
                  /\ Goto("hc", "await")
             ELSE UNCHANGED <<asked, subGen, pc>>
        /\ UNCHANGED <<nxt, kicking, held, listed, mconn, cconn, sess, alive, gen,
                       chOpen, wire, cur, last, jobDiff, first, pdiff, minerJobs,
                       connects, panicked>>

\* The responseChannel hc waits on is closed: submitRequest returns an error.
AwaitNil ==
    /\ pc["hc"] = "await" /\ (subGen # gen \/ ~chOpen)
    /\ Goto("hc", "loop")
    /\ UNCHANGED <<nxt, kicking, held, listed, mconn, cconn, sess, alive, gen,
                   chOpen, wire, asked, subGen, cur, last, jobDiff, first, pdiff,
                   minerJobs, shares, connects, panicked>>

-----------------------------------------------------------------------------
(* The P2Pool daemon and the network.                                      *)

PushJob(d) ==
    /\ cconn = "open" /\ sess /\ NewJob(d)
    /\ wire' = Append(wire, [k |-> "job", id |-> Len(pdiff) + 1])
    /\ UNCHANGED <<pc, nxt, kicking, held, listed, mconn, cconn, sess, alive, gen,
                   chOpen, asked, subGen, cur, last, jobDiff, first, minerJobs,
                   shares, connects, panicked>>

Respond ==
    /\ cconn = "open" /\ sess /\ asked > 0
    /\ asked' = asked - 1 /\ wire' = Append(wire, [k |-> "resp"])
    /\ UNCHANGED <<pc, nxt, kicking, held, listed, mconn, cconn, sess, alive, gen,
                   chOpen, subGen, cur, last, jobDiff, first, pdiff, minerJobs,
                   shares, connects, panicked>>

\* The TCP connection to P2Pool breaks: what is in flight is lost.
NetBreak ==
    /\ NET_FAILS /\ cconn = "open"
    /\ cconn' = "closed" /\ wire' = <<>> /\ asked' = 0
    /\ UNCHANGED <<pc, nxt, kicking, held, listed, mconn, sess, alive, gen,
                   chOpen, subGen, cur, last, jobDiff, first, pdiff, minerJobs,
                   shares, connects, panicked>>

-----------------------------------------------------------------------------
\* A panic ends the process: no goroutine takes another step.
Next ==
    /\ ~panicked
    /\ \/ \E s, r \in Procs : PassJob(s, r)
       \/ ForwardJob \/ HcGotNil \/ HcStop2
       \/ Connect \/ JobChan \/ StartNil \/ Redo \/ StartKick
       \/ DJRead \/ Resp
       \/ HcReadFail \/ AwaitNil
       \/ \E j \in JobIds, sd \in ShareDiffs : HcShare(j, sd)
       \/ \E d \in PoolDiffs : PushJob(d)
       \/ Respond \/ NetBreak

\* Goroutines are scheduled fairly and channel rendezvous happen when both
\* sides are ready; P2Pool answers every submit it received.  Miners,
\* new P2Pool jobs and network failures have no fairness.

Spec ==
    /\ Init /\ [][Next]_vars
    /\ \A s, r \in Procs : WF_vars(~panicked /\ PassJob(s, r))
    /\ WF_vars(~panicked /\ ForwardJob)
    /\ WF_vars(~panicked /\ HcGotNil)
    /\ WF_vars(~panicked /\ HcStop2)
    /\ WF_vars(~panicked /\ Connect)
    /\ WF_vars(~panicked /\ JobChan)
    /\ WF_vars(~panicked /\ StartNil)
    /\ WF_vars(~panicked /\ Redo)
    /\ WF_vars(~panicked /\ StartKick)
    /\ WF_vars(~panicked /\ DJRead)
    /\ WF_vars(~panicked /\ Resp)
    /\ WF_vars(~panicked /\ AwaitNil)
    /\ WF_vars(~panicked /\ Respond)

-----------------------------------------------------------------------------
(* Properties.                                                             *)

\* The miner is sent P2Pool's jobs in the order P2Pool sent them, each at
\* most once, across the three goroutine hand-offs and reconnections; and
\* CurrentJob and LastJob, written by the login and the forwarder, are the
\* last two jobs the miner was sent, so a submit is checked against them.
MinerJobsInOrder ==
    /\ \A i \in 1..Len(minerJobs) - 1 : minerJobs[i] < minerJobs[i + 1]
    /\ cur = IF minerJobs = <<>> THEN Nil ELSE Last(minerJobs)
    /\ last = IF Len(minerJobs) < 2 THEN Nil ELSE minerJobs[Len(minerJobs) - 1]

\* A share is submitted to P2Pool exactly when it exceeds the difficulty
\* of the P2Pool job it solves (conn.go:567 compares it with JobDiff).
P2PoolShareRule ==
    \A i \in DOMAIN shares :
        shares[i].sub <=> shares[i].sd > pdiff[shares[i].job]

\* Stop never closes a nil p.client.conn (p2client.go:38).
NoStopPanic == ~panicked

\* A P2Pool share submit returns: HandleConnection, which holds conn's
\* lock while it waits, gets the response or an error.
SubmitAnswered == pc["hc"] = "await" ~> pc["hc"] # "await"

\* Once the connection is kicked, Start ends and its P2Pool connection is
\* not left open.
KickStopsClient ==
    (mconn = "closed") ~> (pc["st"] = "done" /\ cconn # "open")

=============================================================================
