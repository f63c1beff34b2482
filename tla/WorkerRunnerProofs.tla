-------------------------- MODULE WorkerRunnerProofs --------------------------
(***************************************************************************)
(* The workers against the store, for any number of workers and jobs: each *)
(* step of the composed system is a step of QueueStore or changes nothing  *)
(* in Redis, so every theorem about QueueStore holds of it; the permits of *)
(* each worker are conserved; the limit a worker was started with is the   *)
(* one in force until a newer version replaces it.                         *)
(***************************************************************************)
EXTENDS WorkerRunner, QueueStoreSafety

\* The shape of a process; how many permits are free is proved below.
Process == [limit : [limit : Limits, version : Versions] \cup {NoLimit},
            state : {"idle", "declared", "running", "stopping", "requeuing", "stopped", "crashed"},
            loop : {"off", "acquire", "claiming", "granted", "refused", "parked", "exited"},
            batch : 0..ClaimBatch,
            leases : SUBSET Lease,
            free : Nat,
            wakePending : BOOLEAN,
            inflight : SUBSET InFlight,
            handing : SUBSET Lease,
            news : SUBSET JobIds]

\* A worker holds each lease at one place, and the permits it took are there.
OnePlaceEach(r) ==
    /\ \A e, f \in r.inflight : e.lease = f.lease => e = f
    /\ \A e \in r.inflight : e.lease \notin r.leases

PermitsOf(r) ==
    /\ IsFiniteSet(r.inflight)
    /\ r.free + r.batch + Cardinality(r.inflight) = Concurrency
    /\ IsFiniteSet(r.leases) /\ Cardinality(r.leases) <= r.batch
    /\ r.loop = "claiming" => r.batch >= 1
    /\ r.loop # "granted" => r.leases = {}
    /\ r.loop \notin {"claiming", "granted", "refused"} => r.batch = 0
    /\ r.state \in {"idle", "declared"} => r.loop = "off"

\* Every lease a worker holds was issued.
Held(r) == r.leases \cup {e.lease : e \in r.inflight} \cup r.handing
WasIssued(l) == l.token \in 1..issued[l.job]
AllIssued(r) == \A l \in Held(r) : WasIssued(l)

Orderly(r) == r \in Process /\ OnePlaceEach(r) /\ PermitsOf(r)

StraysIssued ==
    /\ strays \subseteq Commands
    /\ \A c \in strays : c.op # "claim" => WasIssued(c.lease)

SystemInv ==
    /\ IInv
    /\ runner \in [Workers -> Process]
    /\ \A w \in Workers : Orderly(runner[w]) /\ AllIssued(runner[w])
    /\ notices \in [Workers -> 0..MaxNotices]
    /\ happened \subseteq Accidents
    /\ StraysIssued

-------------------------------------------------------------------------------
(* What the scripts do to the store. *)

\* An acknowledgement, a renewal or a requeue under a token that was issued.
LEMMA ExecuteIsStep ==
    ASSUME TypeOK, NEW l \in Lease, WasIssued(l), NEW op \in {"complete", "fail", "requeue"},
           Execute(op, l)
    PROVE  [Next]_vars /\ UNCHANGED issued
<1>1. l.job \in JobIds /\ l.token \in Tokens(l.job)
  BY DEF Lease, WasIssued, Tokens
<1>2. CASE ~ Holds(l.job, l.token)
  BY <1>2 DEF Execute, NoScript, vars, history
<1>3. CASE Holds(l.job, l.token)
  <2>1. CASE op = "complete"
    <3>1. PICK policy \in CompletedPolicies : Complete(l.job, l.token, policy)
      BY <1>3, <2>1 DEF Execute, CompleteScript
    <3>2. Ack(l.job)
      BY <1>1, <3>1 DEF Ack
    <3> QED BY <1>1, <3>1, <3>2 DEF Next, Complete
  <2>2. CASE op = "fail"
    <3>1. FailRetry(l.job, l.token) \/ \E policy \in FailedPolicies : FailFinal(l.job, l.token, policy)
      BY <1>3, <2>2 DEF Execute, FailScript
    <3>2. Ack(l.job)
      BY <1>1, <3>1 DEF Ack
    <3> QED BY <1>1, <3>1, <3>2 DEF Next, FailRetry, FailFinal, history
  <2>3. CASE op = "requeue"
    <3>1. RequeueActive(l.job, l.token)
      BY <1>3, <2>3 DEF Execute
    <3>2. Ack(l.job)
      BY <1>1, <3>1 DEF Ack
    <3> QED BY <1>1, <3>1, <3>2 DEF Next, RequeueActive
  <2> QED BY <2>1, <2>2, <2>3
<1> QED BY <1>2, <1>3

\* No script takes a token back.
LEMMA IssuedGrows ==
    ASSUME IInv, [Next]_vars, NEW l \in Lease, WasIssued(l)
    PROVE  WasIssued(l)'
<1>1. l.job \in JobIds /\ l.token \in 1..issued[l.job]
  BY DEF Lease, WasIssued
<1>2. issued[l.job] \in Nat /\ issued'[l.job] \in Nat /\ issued'[l.job] >= issued[l.job]
  BY <1>1, TokensGrow
<1> QED BY <1>1, <1>2 DEF WasIssued

\* A claim issues the tokens of the leases its worker will read.
LEMMA ClaimIssues ==
    ASSUME IInv, NEW count \in 1..ClaimBatch, Claim(count), NEW j \in Granted(count)
    PROVE  /\ j \in JobIds /\ issued[j] \in Nat /\ issued'[j] = issued[j] + 1
<1>1. j \in JobIds
  <2> DEFINE popped == SubSeq(waiting, 1, BatchSize(count))
  <2>1. TypeOK /\ waiting \in Seq(JobIds) /\ BatchSize(count) >= 1
    BY DEF IInv, TypeOK, Claim
  <2>2. BatchSize(count) \in 0..Len(waiting)
    BY <2>1, ClaimBatchSize
  <2>3. popped \in Seq(JobIds)
    BY <2>1, <2>2, SplitElements
  <2>4. j \in Range(popped)
    BY DEF Granted
  <2> HIDE DEF popped
  <2> QED BY <2>3, <2>4 DEF Range
<1>2. hash[j].runs = issued[j]
  BY <1>1 DEF Granted, Exists, IInv, JobInv, Recorded
<1> QED BY <1>1, <1>2 DEF Claim, IInv, TypeOK

\* A command given up by its sender is executed like any other.
LEMMA StrayIsStep ==
    ASSUME TypeOK, StraysIssued, NEW c \in strays, StrayScript(c)
    PROVE  [Next]_vars
<1>1. c \in Commands /\ (c.op # "claim" => WasIssued(c.lease))
  BY DEF StraysIssued
<1>2. CASE c.op = "claim"
  <2>1. c.count \in 1..ClaimBatch
    BY <1>1, <1>2 DEF Commands
  <2>2. Claim(c.count) \/ UNCHANGED <<store, history>>
    BY <1>2 DEF StrayScript, NoScript
  <2> QED BY <2>1, <2>2 DEF Next, vars
<1>3. CASE c.op # "claim"
  <2>1. c.op \in {"complete", "fail", "requeue"} /\ c.lease \in Lease
    BY <1>1, <1>3 DEF Commands
  <2>2. Execute(c.op, c.lease)
    BY <1>3 DEF StrayScript
  <2> QED BY <1>1, <1>3, <2>1, <2>2, ExecuteIsStep
<1> QED BY <1>2, <1>3

\* A step of one job in flight.
LEMMA JobIsStep ==
    ASSUME SystemInv, NEW w \in Workers, NEW e \in runner[w].inflight, Job(w, e)
    PROVE  [Next]_vars
<1>1. TypeOK /\ e \in InFlight /\ e.lease \in Lease /\ WasIssued(e.lease)
  BY DEF SystemInv, IInv, Process, InFlight, AllIssued, Held
<1>2. e.lease.job \in JobIds /\ e.lease.token \in Tokens(e.lease.job)
  BY <1>1 DEF Lease, WasIssued, Tokens
<1>3. CASE AckScript(w, e)
  BY <1>1, <1>3, ExecuteIsStep DEF AckScript, AckSent
<1>4. CASE Renew(w, e)
  <2>1. Extend(e.lease.job, e.lease.token) \/ UNCHANGED <<store, history>>
    BY <1>4 DEF Renew, NoScript
  <2>2. Extend(e.lease.job, e.lease.token) => Ack(e.lease.job)
    BY <1>2 DEF Ack
  <2> QED BY <1>2, <2>1, <2>2 DEF Next, vars
<1>5. CASE (\E ack \in AckSent : HandlerEnds(w, e, ack)) \/ AckAnswered(w, e)
  BY <1>5 DEF HandlerEnds, AckAnswered, vars
<1> QED BY <1>3, <1>4, <1>5 DEF Job

\* Whatever a worker does, Redis sees one script or nothing.
LEMMA StoreStep ==
    ASSUME SystemInv, SystemNext
    PROVE  [Next]_vars
<1>1. TypeOK /\ StraysIssued
  BY DEF SystemInv, IInv
<1>2. CASE Produce
  BY <1>2 DEF Produce, Next
<1>3. CASE \E j \in JobIds : Expire(j)
  BY <1>3 DEF Expire, Next
<1>4. CASE \E c \in strays : StrayScript(c)
  BY <1>1, <1>4, StrayIsStep
<1>5. CASE EvictHash \/ LimitRemoved
  BY <1>5 DEF EvictHash, LimitRemoved, Next
<1>6. ASSUME NEW w \in Workers, Boot(w) PROVE [Next]_vars
  <2>1. runner[w].limit \in [limit : Limits, version : Versions] \cup {NoLimit}
    BY DEF SystemInv, Process
  <2>2. CASE runner[w].limit.version > conc.version
    <3>1. conc.version \in Nat
      BY <1>1 DEF TypeOK
    <3>2. runner[w].limit.limit \in Limits /\ runner[w].limit.version \in Versions
      BY <2>1, <2>2, <3>1 DEF NoLimit
    <3> QED BY <1>6, <2>2, <3>2 DEF Boot, Next
  <2>3. CASE ~(runner[w].limit.version > conc.version)
    BY <1>6, <2>3 DEF Boot, NoScript, vars
  <2> QED BY <2>2, <2>3
<1>7. ASSUME NEW w \in Workers, ClaimScript(w) PROVE [Next]_vars
  <2>1. runner[w].batch \in 1..ClaimBatch
    BY <1>7, BatchAssumption DEF SystemInv, Orderly, PermitsOf, Process, ClaimScript
  <2> QED BY <1>7, <2>1 DEF ClaimScript, Next, vars
<1>8. ASSUME NEW w \in Workers, NEW e \in runner[w].inflight, Job(w, e) PROVE [Next]_vars
  BY <1>8, JobIsStep
<1>9. ASSUME NEW w \in Workers, NEW l \in runner[w].handing, RequeueScript(w, l) PROVE [Next]_vars
  <2>1. l \in Lease /\ WasIssued(l)
    BY DEF SystemInv, Process, AllIssued, Held
  <2> QED BY <1>1, <1>9, <2>1, ExecuteIsStep DEF RequeueScript
<1>10. ASSUME NEW w \in Workers, Sweep(w) PROVE [Next]_vars
  BY <1>10 DEF Sweep, Next
<1>11. ASSUME NEW w \in Workers,
              \/ StartRunner(w) \/ SendClaim(w) \/ LeaveLoop(w) \/ ClaimRefused(w)
              \/ ClaimGranted(w) \/ PollTimeout(w) \/ Deliver(w) \/ SweepAnswered(w)
              \/ StopClaiming(w) \/ ForceRequeue(w) \/ Close(w) \/ Drop(w) \/ Crash(w)
              \/ NoticesLost(w)
       PROVE  [Next]_vars
  BY <1>11 DEF StartRunner, SendClaim, LeaveLoop, ClaimRefused, ClaimGranted, PollTimeout,
               Deliver, SweepAnswered, StopClaiming, ForceRequeue, Close, Drop, Crash,
               NoticesLost, vars
<1> QED BY <1>2, <1>3, <1>4, <1>5, <1>6, <1>7, <1>8, <1>9, <1>10, <1>11 DEF SystemNext, Loop

-------------------------------------------------------------------------------
(* What a step does to the worker that takes it. *)

\* The worker alone changes, it stays orderly and comes by no other lease.
Keeps(w) == \E r \in Process :
    /\ runner' = [runner EXCEPT ![w] = r]
    /\ Orderly(r)
    /\ Held(r) \subseteq Held(runner[w])

\* Sets that a function pairs off have the same size.
LEMMA PairedOff ==
    ASSUME NEW S, IsFiniteSet(S), NEW T, NEW f \in [S -> T],
           \A x, y \in S : f[x] = f[y] => x = y,
           \A t \in T : \E x \in S : f[x] = t
    PROVE  IsFiniteSet(T) /\ Cardinality(T) = Cardinality(S)
<1>1. f \in Bijection(S, T)
  BY DEF Bijection, Injection, Surjection, IsInjective
<1> QED BY <1>1, FS_Bijection DEF ExistsBijection

\* Jobs and permits stay where they are.
Aside(r, s) ==
    /\ s.batch = r.batch /\ s.free = r.free /\ s.inflight = r.inflight /\ s.leases = r.leases
    /\ s.handing \subseteq r.handing
    /\ \/ s.loop = r.loop
       \/ s.loop \in {"acquire", "parked", "exited"} /\ r.loop \in {"acquire", "parked"}
       \/ s.loop = "acquire" /\ r.state = "declared"
    /\ s.state \in {"idle", "declared"} => r.state \in {"idle", "declared"} /\ s.loop = r.loop

LEMMA AsideKeeps ==
    ASSUME NEW w \in Workers, NEW r, r = runner[w], Orderly(r),
           NEW s \in Process, Aside(r, s), runner' = [runner EXCEPT ![w] = s]
    PROVE  Keeps(w)
<1>1. Orderly(s)
  BY DEF Orderly, OnePlaceEach, PermitsOf, Aside
<1>2. Held(s) \subseteq Held(r)
  BY DEF Held, Aside
<1> QED BY <1>1, <1>2 DEF Keeps

LEMMA KeepsAside ==
    ASSUME SystemInv, NEW w \in Workers,
           \/ StartRunner(w) \/ LeaveLoop(w) \/ PollTimeout(w) \/ Deliver(w) \/ SweepAnswered(w)
           \/ StopClaiming(w) \/ Boot(w) \/ Sweep(w)
           \/ \E l \in runner[w].handing : RequeueScript(w, l)
    PROVE  Keeps(w)
<1> DEFINE r == runner[w]
<1>1. r \in Process /\ Orderly(r) /\ runner \in [Workers -> Process]
  BY DEF SystemInv
<1> HIDE DEF r
<1>2. CASE StartRunner(w)
  <2> DEFINE s == [r EXCEPT !.state = "running", !.loop = "acquire"]
  <2>1. runner' = [runner EXCEPT ![w] = s] /\ r.state = "declared"
    BY <1>1, <1>2 DEF StartRunner, r
  <2>2. s \in Process
    BY <1>1 DEF Process
  <2>3. Aside(r, s)
    BY <1>1, <2>1 DEF Process, Aside
  <2> HIDE DEF s
  <2> QED BY <1>1, <2>1, <2>2, <2>3, AsideKeeps DEF r
<1>3. CASE LeaveLoop(w)
  <2> DEFINE s == [r EXCEPT !.loop = "exited"]
  <2>1. runner' = [runner EXCEPT ![w] = s] /\ r.loop = "acquire" /\ r.state \notin {"idle", "declared"}
    BY <1>1, <1>3 DEF LeaveLoop, r, Orderly, PermitsOf
  <2>2. s \in Process
    BY <1>1 DEF Process
  <2>3. Aside(r, s)
    BY <1>1, <2>1 DEF Process, Aside
  <2> HIDE DEF s
  <2> QED BY <1>1, <2>1, <2>2, <2>3, AsideKeeps DEF r
<1>4. CASE PollTimeout(w)
  <2> DEFINE s == [r EXCEPT !.loop = "acquire"]
  <2>1. runner' = [runner EXCEPT ![w] = s] /\ r.loop = "parked" /\ r.state \notin {"idle", "declared"}
    BY <1>1, <1>4 DEF PollTimeout, r, Orderly, PermitsOf
  <2>2. s \in Process
    BY <1>1 DEF Process
  <2>3. Aside(r, s)
    BY <1>1, <2>1 DEF Process, Aside
  <2> HIDE DEF s
  <2> QED BY <1>1, <2>1, <2>2, <2>3, AsideKeeps DEF r
<1>5. CASE Deliver(w)
  <2> DEFINE s == Woken(r)
  <2>1. runner' = [runner EXCEPT ![w] = s] /\ r.state \notin {"idle", "declared"}
    BY <1>1, <1>5 DEF Deliver, Subscribed, r
  <2>2. s \in Process
    BY <1>1 DEF Process, Woken
  <2>3. Aside(r, s)
    BY <1>1, <2>1 DEF Process, Aside, Woken
  <2> HIDE DEF s
  <2> QED BY <1>1, <2>1, <2>2, <2>3, AsideKeeps DEF r
<1>6. CASE SweepAnswered(w)
  <2> DEFINE s == [r EXCEPT !.news = {}]
  <2>1. runner' = [runner EXCEPT ![w] = s]
    BY <1>1, <1>6 DEF SweepAnswered, r
  <2>2. s \in Process
    BY <1>1 DEF Process
  <2>3. Aside(r, s)
    BY <1>1, <2>1 DEF Process, Aside
  <2> HIDE DEF s
  <2> QED BY <1>1, <2>1, <2>2, <2>3, AsideKeeps DEF r
<1>7. CASE StopClaiming(w)
  <2> DEFINE s == [Woken(r) EXCEPT !.state = "stopping"]
  <2>1. runner' = [runner EXCEPT ![w] = s] /\ r.state = "running"
    BY <1>1, <1>7 DEF StopClaiming, r
  <2>2. s \in Process
    BY <1>1 DEF Process, Woken
  <2>3. Aside(r, s)
    BY <1>1, <2>1 DEF Process, Aside, Woken
  <2> HIDE DEF s
  <2> QED BY <1>1, <2>1, <2>2, <2>3, AsideKeeps DEF r
<1>8. CASE Boot(w)
  <2> DEFINE s == [r EXCEPT !.state = IF Conflict(w) THEN "stopped" ELSE "declared"]
  <2>1. runner' = [runner EXCEPT ![w] = s] /\ r.state = "idle"
    BY <1>1, <1>8 DEF Boot, r
  <2>2. s \in Process
    BY <1>1 DEF Process
  <2>3. Aside(r, s)
    BY <1>1, <2>1 DEF Process, Aside
  <2> HIDE DEF s
  <2> QED BY <1>1, <2>1, <2>2, <2>3, AsideKeeps DEF r
<1>9. CASE Sweep(w)
  <2> DEFINE s == [r EXCEPT !.news = @ \cup
                     {j \in JobIds : outcome[j] = "none" /\ outcome'[j] = "failed"}]
  <2>1. runner' = [runner EXCEPT ![w] = s]
    BY <1>1, <1>9 DEF Sweep, r
  <2>2. s \in Process
    BY <1>1 DEF Process
  <2>3. Aside(r, s)
    BY <1>1, <2>1 DEF Process, Aside
  <2> HIDE DEF s
  <2> QED BY <1>1, <2>1, <2>2, <2>3, AsideKeeps DEF r
<1>10. ASSUME NEW l \in runner[w].handing, RequeueScript(w, l) PROVE Keeps(w)
  <2> DEFINE s == [r EXCEPT !.handing = @ \ {l}]
  <2>1. runner' = [runner EXCEPT ![w] = s]
    BY <1>1, <1>10 DEF RequeueScript, r
  <2>2. s \in Process
    BY <1>1 DEF Process
  <2>3. Aside(r, s)
    BY <1>1, <2>1 DEF Process, Aside
  <2> HIDE DEF s
  <2> QED BY <1>1, <2>1, <2>2, <2>3, AsideKeeps DEF r
<1> QED BY <1>2, <1>3, <1>4, <1>5, <1>6, <1>7, <1>8, <1>9, <1>10 DEF r

\* Permits go from the semaphore to a claim, and back when it comes to nothing.
LEMMA ClaimPermitsKeep ==
    ASSUME SystemInv, NEW w \in Workers, SendClaim(w) \/ ClaimRefused(w)
    PROVE  Keeps(w)
<1> DEFINE r == runner[w]
<1>1. r \in Process /\ Orderly(r) /\ runner \in [Workers -> Process]
  BY DEF SystemInv
<1> HIDE DEF r
<1>2. /\ r.free \in Nat /\ r.batch \in 0..ClaimBatch /\ ClaimBatch \in Nat \ {0}
      /\ Cardinality(r.inflight) \in Nat /\ Cardinality({}) = 0 /\ IsFiniteSet({})
      /\ r.free + r.batch + Cardinality(r.inflight) = Concurrency
  BY <1>1, BatchAssumption, FS_CardinalityType, FS_EmptySet DEF Process, Orderly, PermitsOf
<1>3. CASE SendClaim(w)
  <2> DEFINE n == Smaller(ClaimBatch, r.free)
             left == r.free - n
             s == [r EXCEPT !.loop = "claiming", !.batch = n, !.free = left]
  <2>1. /\ runner' = [runner EXCEPT ![w] = s]
        /\ r.loop = "acquire" /\ r.state = "running" /\ r.free > 0
    BY <1>1, <1>3 DEF SendClaim, r
  <2>2. n \in 0..ClaimBatch /\ n \in Nat \ {0} /\ left \in Nat /\ left + n = r.free
    BY <1>2, <2>1 DEF Smaller
  <2>3. r.leases = {} /\ r.batch = 0
    BY <1>1, <2>1 DEF Orderly, PermitsOf
  <2> HIDE DEF n, left
  <2>4. s \in Process
    BY <1>1, <2>2 DEF Process
  <2>5. /\ s.free = left /\ s.batch = n /\ s.loop = "claiming" /\ s.state = "running"
        /\ s.inflight = r.inflight /\ s.leases = {} /\ s.handing = r.handing
    BY <1>1, <2>1, <2>3 DEF Process
  <2> HIDE DEF s
  <2>6. s.free + s.batch + Cardinality(s.inflight) = Concurrency /\ s.batch >= 1 /\ 0 <= s.batch
    BY <1>2, <2>2, <2>3, <2>5
  <2>7. Orderly(s)
    BY <1>1, <1>2, <2>4, <2>5, <2>6 DEF Orderly, OnePlaceEach, PermitsOf
  <2>8. Held(s) \subseteq Held(r)
    BY <2>5 DEF Held
  <2> QED BY <2>1, <2>4, <2>7, <2>8 DEF Keeps, r
<1>4. CASE ClaimRefused(w)
  <2> DEFINE back == r.free + r.batch
             s == Park([r EXCEPT !.free = back, !.batch = 0])
  <2>1. runner' = [runner EXCEPT ![w] = s] /\ r.loop = "refused"
    BY <1>1, <1>4 DEF ClaimRefused, r
  <2>2. r.leases = {} /\ r.state \notin {"idle", "declared"}
    BY <1>1, <2>1 DEF Orderly, PermitsOf
  <2>3. back \in Nat /\ 0 \in 0..ClaimBatch /\ back + 0 + Cardinality(r.inflight) = Concurrency
    BY <1>2
  <2> HIDE DEF back
  <2>4. s \in Process
    BY <1>1, <2>3 DEF Process, Park
  <2>5. /\ s.free = back /\ s.batch = 0 /\ s.state = r.state
        /\ s.loop \in {"acquire", "parked"}
        /\ s.inflight = r.inflight /\ s.leases = r.leases /\ s.handing = r.handing
    BY <1>1 DEF Process, Park
  <2> HIDE DEF s
  <2>6. s.free + s.batch + Cardinality(s.inflight) = Concurrency
    BY <2>3, <2>5
  <2>7. Orderly(s)
    BY <1>1, <1>2, <2>2, <2>4, <2>5, <2>6 DEF Orderly, OnePlaceEach, PermitsOf
  <2>8. Held(s) \subseteq Held(r)
    BY <2>5 DEF Held
  <2> QED BY <2>1, <2>4, <2>7, <2>8 DEF Keeps, r
<1> QED BY <1>3, <1>4

\* The jobs of a granted claim take one permit each, the others go back.
LEMMA ClaimGrantedKeeps ==
    ASSUME SystemInv, NEW w \in Workers, ClaimGranted(w)
    PROVE  Keeps(w)
<1> DEFINE r == runner[w]
           Entry(l) == [lease |-> l, renew |-> TRUE, late |-> FALSE, at |-> "handler"]
           new == {Entry(l) : l \in r.leases}
           left == r.free + r.batch - Cardinality(r.leases)
           s == [r EXCEPT !.loop = "acquire", !.batch = 0, !.leases = {}, !.free = left,
                          !.inflight = r.inflight \cup new]
<1>1. r \in Process /\ Orderly(r) /\ runner \in [Workers -> Process]
  BY DEF SystemInv
<1>2. runner' = [runner EXCEPT ![w] = s] /\ r.loop = "granted"
  BY <1>1 DEF ClaimGranted
<1> HIDE DEF r
<1>3. /\ r.free \in Nat /\ r.batch \in Nat /\ r.batch \in 0..ClaimBatch
      /\ IsFiniteSet(r.leases) /\ Cardinality(r.leases) <= r.batch
      /\ IsFiniteSet(r.inflight) /\ Cardinality(r.inflight) \in Nat
      /\ r.free + r.batch + Cardinality(r.inflight) = Concurrency
      /\ r.leases \subseteq Lease /\ r.inflight \subseteq InFlight
      /\ r.state \notin {"idle", "declared"}
  BY <1>1, <1>2, BatchAssumption, FS_CardinalityType DEF Process, Orderly, PermitsOf
<1>4. Cardinality(r.leases) \in Nat
  BY <1>3, FS_CardinalityType
<1>5. IsFiniteSet(new) /\ Cardinality(new) = Cardinality(r.leases)
  <2> DEFINE f == [l \in r.leases |-> Entry(l)]
  <2>1. f \in [r.leases -> new] /\ \A l \in r.leases : f[l].lease = l
    OBVIOUS
  <2>2. \A x, y \in r.leases : f[x] = f[y] => x = y
    BY <2>1
  <2>3. \A t \in new : \E x \in r.leases : f[x] = t
    OBVIOUS
  <2> HIDE DEF f, new
  <2> QED BY <1>3, <2>1, <2>2, <2>3, PairedOff
<1>6. /\ new \subseteq InFlight
      /\ \A e \in new : e = Entry(e.lease) /\ e.lease \in r.leases
  <2>1. \A l \in r.leases : Entry(l) \in InFlight /\ Entry(l).lease = l
    BY <1>3 DEF InFlight
  <2>2. \A e \in new : \E l \in r.leases : e = Entry(l)
    OBVIOUS
  <2> HIDE DEF Entry, new
  <2> QED BY <2>1, <2>2
<1>7. \A e \in r.inflight : e.lease \notin r.leases
  BY <1>1 DEF Orderly, OnePlaceEach
<1> HIDE DEF new
<1>8. r.inflight \cap new = {}
  BY <1>6, <1>7
<1>9. /\ IsFiniteSet(r.inflight \cup new)
      /\ Cardinality(r.inflight \cup new) = Cardinality(r.inflight) + Cardinality(r.leases)
  <2>1. Cardinality(r.inflight \cap new) = 0
    BY <1>8, FS_EmptySet
  <2>2. Cardinality(r.inflight \cup new)
          = Cardinality(r.inflight) + Cardinality(new) - Cardinality(r.inflight \cap new)
    BY <1>3, <1>5, FS_Union
  <2> QED BY <1>3, <1>4, <1>5, <2>1, <2>2, FS_Union
<1>10. /\ left \in Nat /\ 0 \in 0..ClaimBatch
       /\ left + 0 + (Cardinality(r.inflight) + Cardinality(r.leases)) = Concurrency
  BY <1>3, <1>4, BatchAssumption
<1> HIDE DEF left
<1>11. s \in Process
  BY <1>1, <1>3, <1>6, <1>10 DEF Process
<1>12. /\ s.free = left /\ s.batch = 0 /\ s.loop = "acquire"
       /\ s.leases = {} /\ s.inflight = r.inflight \cup new /\ s.state = r.state
       /\ s.handing = r.handing
  BY <1>1 DEF Process
<1> HIDE DEF s
<1>13. s.free + s.batch + Cardinality(s.inflight) = Concurrency
  BY <1>9, <1>10, <1>12
<1>14. IsFiniteSet(s.leases) /\ Cardinality(s.leases) <= s.batch /\ IsFiniteSet(s.inflight)
  BY <1>9, <1>12, FS_EmptySet
<1>15. PermitsOf(s)
  BY <1>3, <1>12, <1>13, <1>14 DEF PermitsOf
<1>16. OnePlaceEach(s)
  <2>1. \A e, f \in r.inflight : e.lease = f.lease => e = f
    BY <1>1 DEF Orderly, OnePlaceEach
  <2>2. \A e, f \in r.inflight \cup new : e.lease = f.lease => e = f
    BY <1>6, <1>7, <2>1
  <2> QED BY <1>12, <2>2 DEF OnePlaceEach
<1>17. Held(s) \subseteq Held(r)
  BY <1>6, <1>12 DEF Held
<1> QED BY <1>2, <1>11, <1>15, <1>16, <1>17 DEF Keeps, Orderly, r

\* A job in flight moves on, and holds what it held.
LEMMA MovedKeeps ==
    ASSUME SystemInv, NEW w \in Workers, NEW e \in runner[w].inflight,
           NEW f \in InFlight, f.lease = e.lease, Moved(w, e, f)
    PROVE  Keeps(w)
<1> DEFINE r == runner[w]
           rest == r.inflight \ {e}
           moved == rest \cup {f}
           s == [r EXCEPT !.inflight = moved]
<1>1. r \in Process /\ Orderly(r) /\ runner \in [Workers -> Process]
  BY DEF SystemInv
<1>2. runner' = [runner EXCEPT ![w] = s]
  BY <1>1 DEF Moved
<1>3. e \in r.inflight
  OBVIOUS
<1> HIDE DEF r
<1>4. r.inflight \subseteq InFlight /\ IsFiniteSet(r.inflight) /\ Cardinality(r.inflight) \in Nat
  BY <1>1, FS_CardinalityType DEF Process, Orderly, PermitsOf
<1>5. \A x, y \in r.inflight : x.lease = y.lease => x = y
  BY <1>1 DEF Orderly, OnePlaceEach
<1>6. f \notin rest
  BY <1>3, <1>5
<1>7. IsFiniteSet(rest) /\ Cardinality(rest) = Cardinality(r.inflight) - 1
  BY <1>3, <1>4, FS_RemoveElement
<1>8. \A x \in moved : x = f \/ (x \in r.inflight /\ x # e)
  OBVIOUS
<1> HIDE DEF rest
<1>9. IsFiniteSet(moved) /\ Cardinality(moved) = Cardinality(rest) + 1
  BY <1>6, <1>7, FS_AddElement
<1>10. Cardinality(moved) = Cardinality(r.inflight)
  BY <1>4, <1>7, <1>9
<1>11. moved \subseteq InFlight
  BY <1>4, <1>8
<1> HIDE DEF moved
<1>12. s \in Process
  BY <1>1, <1>11 DEF Process
<1>13. /\ s.free = r.free /\ s.batch = r.batch /\ s.loop = r.loop /\ s.state = r.state
       /\ s.leases = r.leases /\ s.inflight = moved /\ s.handing = r.handing
  BY <1>1 DEF Process
<1> HIDE DEF s
<1>14. PermitsOf(s)
  BY <1>1, <1>9, <1>10, <1>13 DEF Orderly, PermitsOf
<1>15. OnePlaceEach(s)
  BY <1>1, <1>3, <1>5, <1>8, <1>13 DEF Orderly, OnePlaceEach
<1>16. Held(s) \subseteq Held(r)
  BY <1>3, <1>8, <1>13 DEF Held
<1> QED BY <1>2, <1>12, <1>14, <1>15, <1>16 DEF Keeps, Orderly, r

\* A job that settles gives its permit back.
LEMMA SettleKeeps ==
    ASSUME SystemInv, NEW w \in Workers, NEW e \in runner[w].inflight, Settle(w, e)
    PROVE  Keeps(w)
<1> DEFINE r == runner[w]
           rest == r.inflight \ {e}
           left == r.free + 1
           s == [r EXCEPT !.inflight = rest, !.free = left]
<1>1. r \in Process /\ Orderly(r) /\ runner \in [Workers -> Process]
  BY DEF SystemInv
<1>2. runner' = [runner EXCEPT ![w] = s]
  BY <1>1 DEF Settle
<1>3. e \in r.inflight
  OBVIOUS
<1> HIDE DEF r
<1>4. /\ r.inflight \subseteq InFlight /\ IsFiniteSet(r.inflight) /\ Cardinality(r.inflight) \in Nat
      /\ r.free \in Nat /\ r.batch \in Nat
      /\ r.free + r.batch + Cardinality(r.inflight) = Concurrency
  BY <1>1, BatchAssumption, FS_CardinalityType DEF Process, Orderly, PermitsOf
<1>5. /\ IsFiniteSet(rest) /\ rest \subseteq r.inflight
      /\ Cardinality(rest) = Cardinality(r.inflight) - 1
  BY <1>3, <1>4, FS_RemoveElement
<1>6. left \in Nat /\ left + r.batch + Cardinality(rest) = Concurrency
  BY <1>4, <1>5
<1> HIDE DEF rest, left
<1>7. s \in Process
  BY <1>1, <1>4, <1>5, <1>6 DEF Process
<1>8. /\ s.free = left /\ s.batch = r.batch /\ s.loop = r.loop /\ s.state = r.state
      /\ s.leases = r.leases /\ s.inflight = rest /\ s.handing = r.handing
  BY <1>1 DEF Process
<1> HIDE DEF s
<1>9. PermitsOf(s)
  BY <1>1, <1>5, <1>6, <1>8 DEF Orderly, PermitsOf
<1>10. OnePlaceEach(s)
  BY <1>1, <1>5, <1>8 DEF Orderly, OnePlaceEach
<1>11. Held(s) \subseteq Held(r)
  BY <1>5, <1>8 DEF Held
<1> QED BY <1>2, <1>7, <1>9, <1>10, <1>11 DEF Keeps, Orderly, r

LEMMA JobKeeps ==
    ASSUME SystemInv, NEW w \in Workers, NEW e \in runner[w].inflight, Job(w, e)
    PROVE  Keeps(w)
<1>1. e \in InFlight /\ runner \in [Workers -> Process] /\ Orderly(runner[w])
  BY DEF SystemInv, Process
<1>2. ASSUME NEW ack \in AckSent, HandlerEnds(w, e, ack) PROVE Keeps(w)
  <2> DEFINE late == e.lease \in runner[w].handing
             f == [e EXCEPT !.at = ack, !.renew = FALSE, !.late = late]
  <2>1. late \in BOOLEAN
    OBVIOUS
  <2>2. Settle(w, e) \/ Moved(w, e, f)
    BY <1>2 DEF HandlerEnds
  <2> HIDE DEF late
  <2>3. f \in InFlight /\ f.lease = e.lease
    BY <1>1, <2>1 DEF InFlight, AckSent
  <2> HIDE DEF f
  <2> QED BY <2>2, <2>3, SettleKeeps, MovedKeeps
<1>3. CASE AckScript(w, e)
  <2> DEFINE f == [e EXCEPT !.at = Answer(e.at, e.lease)]
  <2>1. f \in InFlight /\ f.lease = e.lease
    BY <1>1 DEF InFlight, Answer
  <2>2. Moved(w, e, f)
    BY <1>3 DEF AckScript
  <2> HIDE DEF f
  <2> QED BY <2>1, <2>2, MovedKeeps
<1>4. CASE AckAnswered(w, e)
  BY <1>4, SettleKeeps DEF AckAnswered
<1>5. CASE Renew(w, e)
  <2> DEFINE f == [e EXCEPT !.renew = FALSE]
  <2>1. f \in InFlight /\ f.lease = e.lease
    BY <1>1 DEF InFlight
  <2>2. CASE Moved(w, e, f)
    BY <2>1, <2>2, MovedKeeps
  <2>3. CASE UNCHANGED runner
    <3>1. runner' = [runner EXCEPT ![w] = runner[w]]
      BY <1>1, <2>3
    <3> QED BY <1>1, <3>1 DEF Keeps
  <2> QED BY <1>5, <2>2, <2>3 DEF Renew
<1> QED BY <1>2, <1>3, <1>4, <1>5 DEF Job

\* The requeue names every job in flight; their renewals stop.
LEMMA ForceRequeueKeeps ==
    ASSUME SystemInv, NEW w \in Workers, ForceRequeue(w)
    PROVE  Keeps(w)
<1> DEFINE r == runner[w]
           Quiet(e) == [e EXCEPT !.renew = FALSE]
           quiet == {Quiet(e) : e \in r.inflight}
           named == {e.lease : e \in r.inflight}
           s == [r EXCEPT !.state = "requeuing", !.handing = named, !.inflight = quiet]
<1>1. r \in Process /\ Orderly(r) /\ runner \in [Workers -> Process]
  BY DEF SystemInv
<1>2. runner' = [runner EXCEPT ![w] = s] /\ r.state = "stopping"
  BY <1>1 DEF ForceRequeue
<1> HIDE DEF r
<1>3. /\ r.inflight \subseteq InFlight /\ IsFiniteSet(r.inflight)
      /\ \A x, y \in r.inflight : x.lease = y.lease => x = y
  BY <1>1 DEF Process, Orderly, OnePlaceEach, PermitsOf
<1>4. \A e \in r.inflight : Quiet(e) \in InFlight /\ Quiet(e).lease = e.lease /\ e.lease \in Lease
  BY <1>3 DEF InFlight
<1>5. IsFiniteSet(quiet) /\ Cardinality(quiet) = Cardinality(r.inflight)
  <2> DEFINE f == [e \in r.inflight |-> Quiet(e)]
  <2>1. f \in [r.inflight -> quiet] /\ \A e \in r.inflight : f[e] = Quiet(e)
    OBVIOUS
  <2>2. \A t \in quiet : \E e \in r.inflight : f[e] = t
    OBVIOUS
  <2> HIDE DEF f, quiet, Quiet
  <2>3. \A x, y \in r.inflight : f[x] = f[y] => x = y
    BY <1>3, <1>4, <2>1
  <2> QED BY <1>3, <2>1, <2>2, <2>3, PairedOff
<1>6. \A q \in quiet : \E e \in r.inflight : q = Quiet(e)
  OBVIOUS
<1> HIDE DEF quiet, Quiet
<1>7. /\ quiet \subseteq InFlight /\ \A q \in quiet : q.lease \in named
      /\ \A x, y \in quiet : x.lease = y.lease => x = y
  BY <1>3, <1>4, <1>6
<1>8. named \subseteq Lease
  BY <1>4
<1>9. s \in Process
  BY <1>1, <1>7, <1>8 DEF Process
<1>10. /\ s.free = r.free /\ s.batch = r.batch /\ s.loop = r.loop /\ s.state = "requeuing"
       /\ s.leases = r.leases /\ s.inflight = quiet /\ s.handing = named
  BY <1>1 DEF Process
<1> HIDE DEF s
<1>11. PermitsOf(s)
  BY <1>1, <1>5, <1>10 DEF Orderly, PermitsOf
<1>12. OnePlaceEach(s)
  <2>1. \A l \in named : l \notin r.leases
    BY <1>1 DEF Orderly, OnePlaceEach
  <2> QED BY <1>7, <1>10, <2>1 DEF OnePlaceEach
<1>13. Held(s) \subseteq Held(r)
  BY <1>7, <1>10 DEF Held
<1> QED BY <1>2, <1>9, <1>11, <1>12, <1>13 DEF Keeps, Orderly, r

\* The permits of the jobs whose handler does not run.
LEMMA GivenUp ==
    ASSUME NEW r \in Process, Orderly(r)
    PROVE  LET freed == r.free + Cardinality(r.inflight) - Cardinality(Running(r)) IN
           /\ Running(r) \subseteq r.inflight /\ IsFiniteSet(Running(r))
           /\ freed \in Nat /\ r.batch \in Nat
           /\ freed + r.batch + Cardinality(Running(r)) = Concurrency
<1>1. /\ IsFiniteSet(r.inflight) /\ r.free \in Nat /\ r.batch \in Nat
      /\ r.free + r.batch + Cardinality(r.inflight) = Concurrency
  BY BatchAssumption DEF Orderly, PermitsOf, Process
<1>2. Running(r) \subseteq r.inflight
  BY DEF Running
<1>3. IsFiniteSet(Running(r)) /\ Cardinality(Running(r)) <= Cardinality(r.inflight)
  BY <1>1, <1>2, FS_Subset
<1>4. Cardinality(r.inflight) \in Nat /\ Cardinality(Running(r)) \in Nat
  BY <1>1, <1>3, FS_CardinalityType
<1> QED BY <1>1, <1>2, <1>3, <1>4

\* A worker that holds no claim and runs some of its jobs on.
LEMMA FewerJobs ==
    ASSUME NEW r \in Process, Orderly(r), NEW s \in Process,
           s.inflight \subseteq r.inflight, IsFiniteSet(s.inflight),
           s.free + s.batch + Cardinality(s.inflight) = Concurrency,
           \/ s.batch = r.batch /\ s.leases = r.leases /\ s.loop = r.loop
           \/ s.batch = 0 /\ s.leases = {} /\ s.loop \notin {"claiming", "granted"},
           s.state \in {"idle", "declared"} => s.loop = "off",
           s.handing \subseteq r.handing
    PROVE  Orderly(s) /\ Held(s) \subseteq Held(r)
<1>1. IsFiniteSet({}) /\ Cardinality({}) = 0 /\ 0 <= 0
  BY FS_EmptySet
<1>2. PermitsOf(s)
  BY <1>1 DEF Orderly, PermitsOf
<1>3. OnePlaceEach(s)
  BY DEF Orderly, OnePlaceEach
<1>4. Held(s) \subseteq Held(r)
  BY DEF Held
<1> QED BY <1>2, <1>3, <1>4 DEF Orderly

LEMMA CloseKeeps ==
    ASSUME SystemInv, NEW w \in Workers, Close(w)
    PROVE  Keeps(w)
<1> DEFINE r == runner[w]
           kept == Running(r)
           freed == r.free + Cardinality(r.inflight) - Cardinality(kept)
           s == [r EXCEPT !.state = "stopped", !.inflight = kept, !.free = freed, !.news = {}]
<1>1. r \in Process /\ Orderly(r) /\ runner \in [Workers -> Process]
  BY DEF SystemInv
<1>2. runner' = [runner EXCEPT ![w] = s]
  BY <1>1 DEF Close
<1> HIDE DEF r
<1>3. /\ kept \subseteq r.inflight /\ IsFiniteSet(kept) /\ freed \in Nat
      /\ freed + r.batch + Cardinality(kept) = Concurrency
  BY <1>1, GivenUp
<1> HIDE DEF kept, freed
<1>4. s \in Process
  BY <1>1, <1>3 DEF Process
<1>5. /\ s.free = freed /\ s.batch = r.batch /\ s.loop = r.loop /\ s.state = "stopped"
      /\ s.leases = r.leases /\ s.inflight = kept /\ s.handing = r.handing
  BY <1>1 DEF Process
<1> HIDE DEF s
<1>6. Orderly(s) /\ Held(s) \subseteq Held(r)
  BY <1>1, <1>3, <1>4, <1>5, FewerJobs
<1> QED BY <1>2, <1>4, <1>6 DEF Keeps, r

LEMMA CrashKeeps ==
    ASSUME SystemInv, NEW w \in Workers, Crash(w)
    PROVE  Keeps(w)
<1> DEFINE r == runner[w]
           s == [r EXCEPT !.state = "crashed", !.loop = "off", !.batch = 0, !.leases = {},
                          !.free = Concurrency, !.wakePending = FALSE,
                          !.inflight = {}, !.handing = {}, !.news = {}]
<1>1. r \in Process /\ Orderly(r) /\ runner \in [Workers -> Process]
  BY DEF SystemInv
<1>2. runner' = [runner EXCEPT ![w] = s]
  BY <1>1 DEF Crash
<1> HIDE DEF r
<1>3. /\ IsFiniteSet({}) /\ Cardinality({}) = 0 /\ Concurrency \in Nat
      /\ Concurrency + 0 + 0 = Concurrency /\ 0 \in 0..ClaimBatch
  BY FS_EmptySet, WorkerAssumption, BatchAssumption
<1>4. s \in Process
  BY <1>1, <1>3 DEF Process
<1>5. /\ s.free = Concurrency /\ s.batch = 0 /\ s.loop = "off" /\ s.state = "crashed"
      /\ s.leases = {} /\ s.inflight = {} /\ s.handing = {}
  BY <1>1 DEF Process
<1> HIDE DEF s
<1>6. Orderly(s) /\ Held(s) \subseteq Held(r)
  BY <1>1, <1>3, <1>4, <1>5, FewerJobs
<1> QED BY <1>2, <1>4, <1>6 DEF Keeps, r

LEMMA DropKeeps ==
    ASSUME SystemInv, NEW w \in Workers, Drop(w)
    PROVE  Keeps(w)
<1> DEFINE r == runner[w]
           jobs == Running(r)
           freed == r.free + r.batch + Cardinality(r.inflight) - Cardinality(jobs)
           kept == [r EXCEPT !.inflight = jobs, !.handing = {}, !.news = {},
                             !.batch = 0, !.leases = {}, !.free = freed]
           s == IF r.loop \in {"claiming", "granted", "refused"} THEN Park(kept) ELSE kept
<1>1. r \in Process /\ Orderly(r) /\ runner \in [Workers -> Process]
  BY DEF SystemInv
<1>2. runner' = [runner EXCEPT ![w] = s] /\ r.state \in {"running", "stopping", "requeuing"}
  BY <1>1 DEF Drop
<1> HIDE DEF r
<1>3. /\ jobs \subseteq r.inflight /\ IsFiniteSet(jobs) /\ freed \in Nat
      /\ freed + 0 + Cardinality(jobs) = Concurrency
  <2> DEFINE x == r.free + Cardinality(r.inflight) - Cardinality(jobs)
  <2>1. /\ jobs \subseteq r.inflight /\ IsFiniteSet(jobs) /\ x \in Nat /\ r.batch \in Nat
        /\ x + r.batch + Cardinality(jobs) = Concurrency
    BY <1>1, GivenUp
  <2>2. r.free \in Nat /\ Cardinality(r.inflight) \in Nat /\ Cardinality(jobs) \in Nat
    BY <1>1, <2>1, FS_CardinalityType DEF Process, Orderly, PermitsOf
  <2>3. freed = x + r.batch
    BY <2>1, <2>2
  <2> HIDE DEF x, freed
  <2> QED BY <2>1, <2>2, <2>3
<1>4. 0 \in 0..ClaimBatch
  BY BatchAssumption
<1> HIDE DEF jobs, freed
<1>5. kept \in Process
  BY <1>1, <1>3, <1>4 DEF Process
<1>6. /\ kept.free = freed /\ kept.batch = 0 /\ kept.loop = r.loop /\ kept.state = r.state
      /\ kept.leases = {} /\ kept.inflight = jobs /\ kept.handing = {}
  BY <1>1 DEF Process
<1> HIDE DEF kept
<1>7. s \in Process
  BY <1>5 DEF Process, Park
<1>8. /\ s.free = freed /\ s.batch = 0 /\ s.state = r.state /\ s.leases = {}
      /\ s.inflight = jobs /\ s.handing = {} /\ s.loop \notin {"claiming", "granted"}
  BY <1>5, <1>6 DEF Process, Park
<1> HIDE DEF s
<1>9. Orderly(s) /\ Held(s) \subseteq Held(r)
  BY <1>1, <1>2, <1>3, <1>7, <1>8, FewerJobs
<1> QED BY <1>2, <1>7, <1>9 DEF Keeps, r

\* The reply of a claim names leases that nobody held before.
LEMMA ClaimScriptGrants ==
    ASSUME SystemInv, NEW w \in Workers, ClaimScript(w)
    PROVE  \E r \in Process :
             /\ runner' = [runner EXCEPT ![w] = r]
             /\ Orderly(r)
             /\ \A l \in Held(r) : l \in Held(runner[w]) \/ WasIssued(l)'
<1> DEFINE r == runner[w]
           n == r.batch
<1>1. r \in Process /\ Orderly(r) /\ AllIssued(r) /\ runner \in [Workers -> Process] /\ IInv /\ TypeOK
  BY DEF SystemInv, IInv
<1>2. r.loop = "claiming" /\ n \in 1..ClaimBatch /\ n \in Nat /\ r.leases = {}
  BY <1>1, BatchAssumption DEF ClaimScript, Process, Orderly, PermitsOf
<1>3. r.state \notin {"idle", "declared"}
  BY <1>1, <1>2 DEF Orderly, PermitsOf
<1>4. CASE BatchSize(n) >= 1
  <2> DEFINE LeaseOf(j) == [job |-> j, token |-> issued[j] + 1]
             new == {LeaseOf(j) : j \in Granted(n)}
             s == [r EXCEPT !.loop = "granted", !.leases = new]
  <2>1. Claim(n) /\ runner' = [runner EXCEPT ![w] = s]
    BY <1>1, <1>4 DEF ClaimScript
  <2> HIDE DEF r
  <2>2. \A j \in Granted(n) : /\ j \in JobIds /\ issued[j] \in Nat
                              /\ issued'[j] = issued[j] + 1
    BY <1>1, <1>2, <2>1, ClaimIssues
  <2>3. ASSUME NEW j \in Granted(n), NEW l, l = LeaseOf(j)
        PROVE  l \in Lease /\ l.job = j /\ WasIssued(l)' /\ ~WasIssued(l)
    <3>1. l.job = j /\ l.token = issued[j] + 1 /\ l = [job |-> j, token |-> l.token]
      BY <2>3
    <3>2. l.token \in Nat /\ l.token \in 1..issued'[j] /\ l.token \notin 1..issued[j]
      BY <2>2, <3>1
    <3> HIDE DEF LeaseOf
    <3> QED BY <2>2, <3>1, <3>2 DEF Lease, WasIssued
  <2>4. IsFiniteSet(new) /\ Cardinality(new) <= n
    <3> DEFINE f == [j \in Granted(n) |-> LeaseOf(j)]
    <3>1. f \in [Granted(n) -> new] /\ \A j \in Granted(n) : f[j] = LeaseOf(j)
      OBVIOUS
    <3>2. \A t \in new : \E j \in Granted(n) : f[j] = t
      OBVIOUS
    <3>3. \A x, y \in Granted(n) : f[x] = f[y] => x = y
      BY <2>3, <3>1
    <3>4. IsFiniteSet(Granted(n)) /\ Cardinality(Granted(n)) <= BatchSize(n)
      BY <1>1, <1>2, <1>4, GrantedSize
    <3>5. BatchSize(n) \in Int /\ BatchSize(n) <= n
      <4>1. Cardinality(active) \in Nat /\ Len(waiting) \in Nat /\ conc.limit \in Nat
        BY <1>1, JobSetSize, LenProperties DEF TypeOK
      <4> HIDE DEF n
      <4> QED BY <1>2, <4>1 DEF BatchSize, Smaller, Free
    <3> HIDE DEF f, new
    <3>6. IsFiniteSet(new) /\ Cardinality(new) = Cardinality(Granted(n))
      BY <3>1, <3>2, <3>3, <3>4, PairedOff
    <3>7. Cardinality(Granted(n)) \in Nat
      BY <3>4, FS_CardinalityType
    <3> QED BY <1>2, <3>4, <3>5, <3>6, <3>7
  <2>5. \A l \in new : \E j \in Granted(n) : l = LeaseOf(j)
    OBVIOUS
  <2> HIDE DEF new, LeaseOf
  <2>6. new \subseteq Lease /\ \A l \in new : WasIssued(l)' /\ ~WasIssued(l)
    BY <2>3, <2>5
  <2>7. s \in Process
    BY <1>1, <2>6 DEF Process
  <2>8. /\ s.free = r.free /\ s.batch = r.batch /\ s.loop = "granted" /\ s.state = r.state
        /\ s.leases = new /\ s.inflight = r.inflight /\ s.handing = r.handing
    BY <1>1 DEF Process
  <2> HIDE DEF s
  <2>9. PermitsOf(s)
    BY <1>1, <1>3, <2>4, <2>8 DEF Orderly, PermitsOf
  <2>10. OnePlaceEach(s)
    BY <1>1, <2>6, <2>8 DEF Orderly, OnePlaceEach, AllIssued, Held
  <2>11. \A l \in Held(s) : l \in Held(r) \/ WasIssued(l)'
    BY <2>6, <2>8 DEF Held
  <2> QED BY <2>1, <2>7, <2>9, <2>10, <2>11 DEF Orderly, r
<1>5. CASE ~(BatchSize(n) >= 1)
  <2> DEFINE s == [r EXCEPT !.loop = "refused"]
  <2>1. runner' = [runner EXCEPT ![w] = s]
    BY <1>1, <1>5 DEF ClaimScript
  <2> HIDE DEF r
  <2>2. s \in Process
    BY <1>1 DEF Process
  <2>3. /\ s.free = r.free /\ s.batch = r.batch /\ s.loop = "refused" /\ s.state = r.state
        /\ s.leases = {} /\ s.inflight = r.inflight /\ s.handing = r.handing
    BY <1>1, <1>2 DEF Process
  <2> HIDE DEF s
  <2>4. Orderly(s)
    BY <1>1, <1>2, <1>3, <2>2, <2>3 DEF Orderly, OnePlaceEach, PermitsOf
  <2>5. \A l \in Held(s) : l \in Held(r)
    BY <1>2, <2>3 DEF Held
  <2> QED BY <2>1, <2>2, <2>4, <2>5 DEF r
<1> QED BY <1>4, <1>5

\* What a worker does leaves it, and the others, in order.
LEMMA WorkersInOrder ==
    ASSUME SystemInv, [Next]_vars, NEW w \in Workers, NEW r \in Process,
           runner' = [runner EXCEPT ![w] = r], Orderly(r),
           \A l \in Held(r) : l \in Held(runner[w]) \/ WasIssued(l)'
    PROVE  /\ runner' \in [Workers -> Process]
           /\ \A v \in Workers : Orderly(runner[v])' /\ AllIssued(runner[v])'
<1>1. /\ runner \in [Workers -> Process] /\ IInv
      /\ \A v \in Workers : Orderly(runner[v]) /\ AllIssued(runner[v])
  BY DEF SystemInv
<1>2. runner' \in [Workers -> Process] /\ runner'[w] = r
      /\ \A v \in Workers : v # w => runner'[v] = runner[v]
  BY <1>1
<1>3. \A v \in Workers : Held(runner[v]) \subseteq Lease
  BY <1>1 DEF Held, Process, InFlight
<1>4. \A v \in Workers : \A l \in Held(runner[v]) : WasIssued(l)'
  BY <1>1, <1>3, IssuedGrows DEF AllIssued
<1>5. ASSUME NEW v \in Workers
      PROVE  Orderly(runner'[v]) /\ \A l \in Held(runner'[v]) : WasIssued(l)'
  <2>1. CASE v = w
    BY <1>2, <1>4, <2>1
  <2>2. CASE v # w
    BY <1>1, <1>2, <1>4, <2>2
  <2> QED BY <2>1, <2>2
<1>6. ASSUME NEW v \in Workers PROVE Orderly(runner[v])' /\ AllIssued(runner[v])'
  <2>1. Orderly(runner'[v]) => Orderly(runner[v])'
    BY DEF Orderly, OnePlaceEach, PermitsOf
  <2>2. (\A l \in Held(runner'[v]) : WasIssued(l)') => AllIssued(runner[v])'
    BY DEF AllIssued, Held
  <2> QED BY <1>5, <2>1, <2>2
<1> QED BY <1>2, <1>6

\* The commands a worker may leave behind are well formed.
LEMMA PendingIssued ==
    ASSUME SystemInv, NEW w \in Workers, NEW c \in Pending(w)
    PROVE  c \in Commands /\ (c.op # "claim" => c.lease \in Lease /\ WasIssued(c.lease))
<1> DEFINE r == runner[w]
<1>1. r \in Process /\ Orderly(r) /\ AllIssued(r)
  BY DEF SystemInv
<1>2. r.loop = "claiming" => r.batch \in 1..ClaimBatch
  BY <1>1, BatchAssumption DEF Process, Orderly, PermitsOf
<1>3. \A l \in r.handing : l \in Lease /\ WasIssued(l)
  BY <1>1 DEF Process, AllIssued, Held
<1>4. \A e \in r.inflight : e.lease \in Lease /\ WasIssued(e.lease)
  BY <1>1 DEF Process, InFlight, AllIssued, Held
<1> HIDE DEF r
<1>5. \/ r.loop = "claiming" /\ c = [op |-> "claim", count |-> r.batch]
      \/ \E e \in r.inflight : e.at \in AckSent /\ c = [op |-> e.at, lease |-> e.lease]
      \/ \E l \in r.handing : c = [op |-> "requeue", lease |-> l]
  BY DEF Pending, r
<1>6. CASE r.loop = "claiming" /\ c = [op |-> "claim", count |-> r.batch]
  BY <1>2, <1>6 DEF Commands
<1>7. ASSUME NEW e \in r.inflight, e.at \in AckSent, c = [op |-> e.at, lease |-> e.lease]
      PROVE  c \in Commands /\ (c.op # "claim" => c.lease \in Lease /\ WasIssued(c.lease))
  BY <1>4, <1>7 DEF Commands, AckSent
<1>8. ASSUME NEW l \in r.handing, c = [op |-> "requeue", lease |-> l]
      PROVE  c \in Commands /\ (c.op # "claim" => c.lease \in Lease /\ WasIssued(c.lease))
  BY <1>3, <1>8 DEF Commands
<1> QED BY <1>5, <1>6, <1>7, <1>8

\* A step changes no process, or one, which stays in order.
LEMMA OneWorkerSteps ==
    ASSUME SystemInv, SystemNext
    PROVE  UNCHANGED runner \/ \E w \in Workers, r \in Process :
             /\ runner' = [runner EXCEPT ![w] = r]
             /\ Orderly(r)
             /\ \A l \in Held(r) : l \in Held(runner[w]) \/ WasIssued(l)'
<1> DEFINE InOrder == \E w \in Workers, r \in Process :
             /\ runner' = [runner EXCEPT ![w] = r]
             /\ Orderly(r)
             /\ \A l \in Held(r) : l \in Held(runner[w]) \/ WasIssued(l)'
<1>1. \A w \in Workers : Keeps(w) => InOrder
  BY DEF Keeps
<1>2. \A w \in Workers : ClaimScript(w) => InOrder
  BY ClaimScriptGrants
<1> HIDE DEF InOrder
<1>3. ASSUME \/ Produce \/ (\E j \in JobIds : Expire(j)) \/ (\E c \in strays : StrayScript(c))
             \/ EvictHash \/ LimitRemoved
      PROVE  UNCHANGED runner
  BY <1>3 DEF Produce, Expire, process, StrayScript, EvictHash, LimitRemoved
<1>4. ASSUME NEW w \in Workers,
             \/ StartRunner(w) \/ LeaveLoop(w) \/ PollTimeout(w) \/ Deliver(w)
             \/ SweepAnswered(w) \/ StopClaiming(w) \/ Boot(w) \/ Sweep(w)
             \/ \E l \in runner[w].handing : RequeueScript(w, l)
      PROVE  InOrder
  BY <1>1, <1>4, KeepsAside
<1>5. ASSUME NEW w \in Workers,
             SendClaim(w) \/ ClaimRefused(w) \/ ClaimGranted(w) \/ ClaimScript(w)
      PROVE  InOrder
  BY <1>1, <1>2, <1>5, ClaimPermitsKeep, ClaimGrantedKeeps
<1>6. ASSUME NEW w \in Workers, NEW e \in runner[w].inflight, Job(w, e)
      PROVE  InOrder
  BY <1>1, <1>6, JobKeeps
<1>7. ASSUME NEW w \in Workers, ForceRequeue(w) \/ Close(w) \/ Drop(w) \/ Crash(w)
      PROVE  InOrder
  BY <1>1, <1>7, ForceRequeueKeeps, CloseKeeps, DropKeeps, CrashKeeps
<1>8. ASSUME NEW w \in Workers, Loop(w) PROVE InOrder
  BY <1>4, <1>5, <1>8 DEF Loop
<1>9. ASSUME NEW w \in Workers, NoticesLost(w) PROVE UNCHANGED runner
  BY <1>9 DEF NoticesLost
<1>10. UNCHANGED runner \/ InOrder
  BY <1>3, <1>4, <1>6, <1>7, <1>8, <1>9 DEF SystemNext
<1> QED BY <1>10 DEF InOrder

\* A step leaves the strays alone, executes one, or adds commands under way.
LEMMA StraysStep ==
    ASSUME SystemNext
    PROVE  strays' \subseteq strays \/ \E w \in Workers : \E S \in SUBSET Pending(w) : strays' = strays \cup S
<1>1. CASE \E w \in Workers : Close(w) \/ Drop(w) \/ Crash(w)
  BY <1>1 DEF Close, Drop, Crash
<1>2. CASE \E c \in strays : StrayScript(c)
  BY <1>2 DEF StrayScript
<1>3. CASE Produce \/ (\E j \in JobIds : Expire(j)) \/ EvictHash \/ LimitRemoved
  BY <1>3 DEF Produce, Expire, process, EvictHash, LimitRemoved
<1>4. ASSUME NEW w \in Workers, NEW e \in runner[w].inflight, Job(w, e) PROVE UNCHANGED strays
  BY <1>4 DEF Job, HandlerEnds, AckScript, AckAnswered, Renew
<1>5. ASSUME NEW w \in Workers,
             \/ Boot(w) \/ StartRunner(w) \/ Loop(w) \/ Deliver(w) \/ Sweep(w) \/ SweepAnswered(w)
             \/ StopClaiming(w) \/ ForceRequeue(w) \/ NoticesLost(w)
             \/ \E l \in runner[w].handing : RequeueScript(w, l)
      PROVE  UNCHANGED strays
  BY <1>5 DEF Boot, StartRunner, Loop, SendClaim, LeaveLoop, ClaimScript, ClaimRefused,
              ClaimGranted, PollTimeout, Deliver, Sweep, SweepAnswered, StopClaiming,
              ForceRequeue, NoticesLost, RequeueScript
<1> QED BY <1>1, <1>2, <1>3, <1>4, <1>5 DEF SystemNext

LEMMA StraysKept ==
    ASSUME SystemInv, SystemNext, [Next]_vars
    PROVE  StraysIssued'
<1>1. StraysIssued /\ IInv
  BY DEF SystemInv
<1>2. \A c \in strays : c \in Commands /\ (c.op # "claim" => c.lease \in Lease /\ WasIssued(c.lease))
  BY <1>1 DEF StraysIssued, Commands
<1>3. \A c \in strays' : c \in Commands /\ (c.op # "claim" => c.lease \in Lease /\ WasIssued(c.lease))
  BY <1>2, StraysStep, PendingIssued
<1>4. \A c \in strays' : c.op # "claim" => WasIssued(c.lease)'
  BY <1>1, <1>3, IssuedGrows
<1> QED BY <1>3, <1>4 DEF StraysIssued

\* Notices are counted up to their bound.
LEMMA NoticesKept ==
    ASSUME notices \in [Workers -> 0..MaxNotices], SystemNext
    PROVE  notices' \in [Workers -> 0..MaxNotices]
<1>1. MaxNotices \in Nat \ {0}
  BY WorkerAssumption
<1>2. Notify => notices' \in [Workers -> 0..MaxNotices]
  BY <1>1 DEF Notify, Smaller
<1>3. UNCHANGED notices => notices' \in [Workers -> 0..MaxNotices]
  OBVIOUS
<1>4. ASSUME NEW op, NEW l, Execute(op, l) PROVE Notify \/ UNCHANGED notices
  BY <1>4 DEF Execute, NoScript
<1>5. ASSUME NEW w \in Workers, Deliver(w) \/ Close(w) \/ Crash(w) \/ NoticesLost(w)
      PROVE  notices' \in [Workers -> 0..MaxNotices]
  BY <1>1, <1>5 DEF Deliver, Close, Crash, NoticesLost
<1>6. CASE Produce \/ \E w \in Workers : Sweep(w)
  BY <1>2, <1>6 DEF Produce, Sweep
<1>7. CASE \/ \E c \in strays : StrayScript(c)
           \/ \E w \in Workers : \E l \in runner[w].handing : RequeueScript(w, l)
  BY <1>2, <1>3, <1>4, <1>7 DEF StrayScript, RequeueScript, NoScript
<1>8. ASSUME NEW w \in Workers, NEW e \in runner[w].inflight, Job(w, e)
      PROVE  Notify \/ UNCHANGED notices
  BY <1>4, <1>8 DEF Job, HandlerEnds, AckScript, AckAnswered, Renew, NoScript
<1>9. CASE (\E j \in JobIds : Expire(j)) \/ EvictHash \/ LimitRemoved
  BY <1>3, <1>9 DEF Expire, process, EvictHash, LimitRemoved
<1>10. ASSUME NEW w \in Workers,
              \/ Boot(w) \/ StartRunner(w) \/ Loop(w) \/ SweepAnswered(w) \/ StopClaiming(w)
              \/ ForceRequeue(w) \/ Drop(w)
       PROVE  UNCHANGED notices
  BY <1>10 DEF Boot, NoScript, StartRunner, Loop, SendClaim, LeaveLoop, ClaimScript, ClaimRefused,
               ClaimGranted, PollTimeout, SweepAnswered, StopClaiming, ForceRequeue, Drop
<1> QED BY <1>2, <1>3, <1>5, <1>6, <1>7, <1>8, <1>9, <1>10 DEF SystemNext

\* Accidents are of the kinds the instance allows.
LEMMA AccidentsKept ==
    ASSUME SystemNext
    PROVE  UNCHANGED happened \/ \E kind \in Accidents : happened' = happened \cup {kind}
<1>1. ASSUME NEW kind, Accident(kind) PROVE \E k \in Accidents : happened' = happened \cup {k}
  BY <1>1 DEF Accident
<1>2. CASE EvictHash \/ LimitRemoved \/ \E w \in Workers : Drop(w) \/ Crash(w) \/ NoticesLost(w)
  BY <1>1, <1>2 DEF EvictHash, LimitRemoved, Drop, Crash, NoticesLost
<1>3. CASE Produce \/ (\E j \in JobIds : Expire(j)) \/ \E c \in strays : StrayScript(c)
  BY <1>3 DEF Produce, Expire, process, StrayScript
<1>4. ASSUME NEW w \in Workers, NEW e \in runner[w].inflight, Job(w, e) PROVE UNCHANGED happened
  BY <1>4 DEF Job, HandlerEnds, AckScript, AckAnswered, Renew
<1>5. ASSUME NEW w \in Workers,
             \/ Boot(w) \/ StartRunner(w) \/ Loop(w) \/ Deliver(w) \/ Sweep(w) \/ SweepAnswered(w)
             \/ StopClaiming(w) \/ ForceRequeue(w) \/ Close(w)
             \/ \E l \in runner[w].handing : RequeueScript(w, l)
      PROVE  UNCHANGED happened
  BY <1>5 DEF Boot, StartRunner, Loop, SendClaim, LeaveLoop, ClaimScript, ClaimRefused,
              ClaimGranted, PollTimeout, Deliver, Sweep, SweepAnswered, StopClaiming,
              ForceRequeue, Close, RequeueScript
<1> QED BY <1>2, <1>3, <1>4, <1>5 DEF SystemNext

-------------------------------------------------------------------------------
(* The invariant, and what follows from it. *)

LEMMA SystemStarts == SystemInit => SystemInv
<1> SUFFICES ASSUME SystemInit PROVE SystemInv
  OBVIOUS
<1>1. PICK deployed \in Deployments :
        runner = [w \in Workers |->
                    [limit |-> deployed[w], state |-> "idle", loop |-> "off", batch |-> 0,
                     leases |-> {}, free |-> Concurrency, wakePending |-> FALSE,
                     inflight |-> {}, handing |-> {}, news |-> {}]]
  BY DEF SystemInit
<1>2. /\ IsFiniteSet({}) /\ Cardinality({}) = 0 /\ Concurrency \in Nat /\ 0 <= 0
      /\ 0 \in 0..ClaimBatch /\ 0 \in 0..MaxNotices /\ Concurrency + 0 + 0 = Concurrency
  BY FS_EmptySet, WorkerAssumption, BatchAssumption
<1>3. deployed \in [Workers -> [limit : Limits, version : Versions] \cup {NoLimit}]
  BY WorkerAssumption
<1>4. ASSUME NEW w \in Workers
      PROVE  runner[w] \in Process /\ Orderly(runner[w]) /\ AllIssued(runner[w])
  <2> DEFINE r == runner[w]
  <2>1. /\ r.state = "idle" /\ r.loop = "off" /\ r.batch = 0 /\ r.leases = {}
        /\ r.free = Concurrency /\ r.inflight = {} /\ r.handing = {}
    BY <1>1
  <2>2. r \in Process
    BY <1>1, <1>2, <1>3 DEF Process
  <2> HIDE DEF r
  <2>3. PermitsOf(r)
    BY <1>2, <2>1 DEF PermitsOf
  <2>4. OnePlaceEach(r) /\ AllIssued(r)
    BY <2>1 DEF OnePlaceEach, AllIssued, Held
  <2> QED BY <2>2, <2>3, <2>4 DEF Orderly, r
<1>5. runner \in [Workers -> Process]
  BY <1>1, <1>4
<1>6. /\ notices \in [Workers -> 0..MaxNotices] /\ happened \subseteq Accidents /\ StraysIssued
  BY <1>2 DEF SystemInit, StraysIssued
<1>7. IInv
  BY InvInit DEF SystemInit
<1> QED BY <1>4, <1>5, <1>6, <1>7 DEF SystemInv

LEMMA SystemSteps == SystemInv /\ [SystemNext]_system => SystemInv' /\ [Next]_vars
<1>1. CASE UNCHANGED system
  BY <1>1 DEF system, process, store, history, vars, SystemInv, IInv, TypeOK, JobInv, Apart,
              Recorded, Consistent, Accounted, WithinBudgets, Absent, Orderly, OnePlaceEach,
              PermitsOf, AllIssued, Held, WasIssued, StraysIssued
<1>2. ASSUME SystemInv, SystemNext PROVE SystemInv' /\ [Next]_vars
  <2>1. [Next]_vars
    BY <1>2, StoreStep
  <2>2. IInv /\ IInv'
    BY <1>2, <2>1, InvNext DEF SystemInv
  <2>3. /\ runner' \in [Workers -> Process]
        /\ \A v \in Workers : Orderly(runner[v])' /\ AllIssued(runner[v])'
    <3>1. \A l \in Lease : WasIssued(l) => WasIssued(l)'
      BY <2>1, <2>2, IssuedGrows
    <3>2. CASE UNCHANGED runner
      <4>1. \A v \in Workers : Held(runner[v]) \subseteq Lease
        BY <1>2 DEF SystemInv, Held, Process, InFlight
      <4> QED BY <1>2, <3>1, <3>2, <4>1
              DEF SystemInv, Orderly, OnePlaceEach, PermitsOf, AllIssued, Held
    <3>3. ASSUME NEW w \in Workers, NEW r \in Process,
                 runner' = [runner EXCEPT ![w] = r], Orderly(r),
                 \A l \in Held(r) : l \in Held(runner[w]) \/ WasIssued(l)'
          PROVE  /\ runner' \in [Workers -> Process]
                 /\ \A v \in Workers : Orderly(runner[v])' /\ AllIssued(runner[v])'
      BY <1>2, <2>1, <3>3, WorkersInOrder
    <3> QED BY <1>2, <3>2, <3>3, OneWorkerSteps
  <2>4. StraysIssued'
    BY <1>2, <2>1, StraysKept
  <2>5. notices' \in [Workers -> 0..MaxNotices]
    BY <1>2, NoticesKept DEF SystemInv
  <2>6. (happened \subseteq Accidents)'
    BY <1>2, AccidentsKept DEF SystemInv
  <2> QED BY <2>1, <2>2, <2>3, <2>4, <2>5, <2>6 DEF SystemInv
<1> QED BY <1>1, <1>2

LEMMA SystemInvariant == SystemSpec => []SystemInv
BY SystemStarts, SystemSteps, PTL DEF SystemSpec

\* The workers, whatever happens to them, use the store as QueueStore says:
\* what holds of every behaviour of the store holds of theirs.
THEOREM SystemIsStore == SystemSpec => Spec
<1>1. SystemInit => Init
  BY DEF SystemInit
<1> QED BY <1>1, SystemInvariant, SystemSteps, PTL DEF SystemSpec, Spec

\* So a queue with its workers implements the abstract life of a job.
THEOREM SystemLifecycle == SystemSpec => ImplementsLifecycle
BY SystemIsStore, Refinement, PTL

\* Permits are conserved and every variable keeps its shape, whatever claims
\* fail or come back short, whatever acks are rejected, and whenever the worker
\* is stopped, loses its connection or crashes.
THEOREM PermitsConservedHolds == SystemSpec => []PermitsConserved
<1>1. SystemInv => PermitsConserved
  <2> SUFFICES ASSUME SystemInv PROVE PermitsConserved
    OBVIOUS
  <2>1. ASSUME NEW w \in Workers
        PROVE  /\ runner[w].free + runner[w].batch + Cardinality(runner[w].inflight) = Concurrency
               /\ runner[w] \in Runner
    <3> DEFINE r == runner[w]
    <3>1. r \in Process /\ Orderly(r)
      BY DEF SystemInv
    <3> HIDE DEF r
    <3>2. /\ r.free \in Nat /\ r.batch \in Nat /\ Cardinality(r.inflight) \in Nat
          /\ r.free + r.batch + Cardinality(r.inflight) = Concurrency
      BY <3>1, BatchAssumption, FS_CardinalityType DEF Orderly, PermitsOf, Process
    <3>3. r.free \in 0..Concurrency
      BY <3>2
    <3>4. r \in Runner
      BY <3>1, <3>3 DEF Process, Runner
    <3> QED BY <3>2, <3>4 DEF r
  <2>2. SystemTypeOK
    BY <2>1 DEF SystemInv, SystemTypeOK, StraysIssued
  <2> QED BY <2>1, <2>2 DEF PermitsConserved
<1> QED BY <1>1, SystemInvariant, PTL

-------------------------------------------------------------------------------
(* The limit in force. *)

Underway == {"declared", "running", "stopping", "requeuing"}

OneWorker(w) ==
    \/ Boot(w) \/ StartRunner(w) \/ Loop(w) \/ Deliver(w)
    \/ \E e \in runner[w].inflight : Job(w, e)
    \/ Sweep(w) \/ SweepAnswered(w) \/ StopClaiming(w) \/ ForceRequeue(w)
    \/ \E l \in runner[w].handing : RequeueScript(w, l)
    \/ Close(w) \/ Drop(w) \/ Crash(w) \/ NoticesLost(w)

\* A worker keeps its configuration, and gets under way by declaring it.
LEMMA LimitsStay ==
    ASSUME runner \in [Workers -> Process], SystemNext, NEW v \in Workers
    PROVE  /\ runner'[v].limit = runner[v].limit
           /\ runner'[v].state \in Underway => runner[v].state \in Underway \/ Boot(v)
<1> DEFINE Stays == /\ runner'[v].limit = runner[v].limit
                    /\ runner'[v].state \in Underway => runner[v].state \in Underway \/ Boot(v)
<1>1. UNCHANGED runner => Stays
  OBVIOUS
<1>2. ASSUME \/ Produce \/ (\E j \in JobIds : Expire(j)) \/ (\E c \in strays : StrayScript(c))
             \/ EvictHash \/ LimitRemoved \/ \E w \in Workers : NoticesLost(w)
      PROVE  Stays
  BY <1>1, <1>2 DEF Produce, Expire, process, StrayScript, EvictHash, LimitRemoved, NoticesLost
<1>3. ASSUME NEW w \in Workers, Boot(w) PROVE Stays
  <2>1. runner'[v] = IF v = w THEN [runner[v] EXCEPT !.state = IF Conflict(w) THEN "stopped" ELSE "declared"]
                              ELSE runner[v]
    BY <1>3 DEF Boot
  <2> QED BY <1>3, <2>1 DEF Process
<1>4. ASSUME NEW w \in Workers, NEW s, runner' = [runner EXCEPT ![w] = s],
             s.limit = runner[w].limit,
             s.state \in Underway => runner[w].state \in Underway
      PROVE  Stays
  BY <1>4
<1>5. ASSUME NEW w \in Workers, StartRunner(w) \/ ForceRequeue(w) PROVE Stays
  <2> DEFINE r == runner[w]
             leases == {e.lease : e \in r.inflight}
             jobs == {[e EXCEPT !.renew = FALSE] : e \in r.inflight}
             s == [r EXCEPT !.state = "running", !.loop = "acquire"]
             t == [r EXCEPT !.state = "requeuing", !.handing = leases, !.inflight = jobs]
  <2>1. /\ \/ runner' = [runner EXCEPT ![w] = s]
           \/ runner' = [runner EXCEPT ![w] = t]
        /\ r.state \in {"declared", "stopping"}
    BY <1>5 DEF StartRunner, ForceRequeue
  <2> HIDE DEF leases, jobs
  <2>2. s.limit = r.limit /\ t.limit = r.limit
    BY DEF Process
  <2> HIDE DEF s, t
  <2> QED BY <1>4, <2>1, <2>2 DEF Underway
<1>6. ASSUME NEW w \in Workers,
             \/ LeaveLoop(w) \/ PollTimeout(w) \/ SweepAnswered(w) \/ Sweep(w) \/ SendClaim(w)
             \/ \E l \in runner[w].handing : RequeueScript(w, l)
      PROVE  Stays
  BY <1>6 DEF LeaveLoop, PollTimeout, SweepAnswered, Sweep, SendClaim, RequeueScript, Process
<1>7. ASSUME NEW w \in Workers, ClaimScript(w) PROVE Stays
  <2> DEFINE leases == {[job |-> j, token |-> issued[j] + 1] : j \in Granted(runner[w].batch)}
             r == runner[w]
             s == [r EXCEPT !.loop = "granted", !.leases = leases]
             t == [r EXCEPT !.loop = "refused"]
  <2>1. runner' = [runner EXCEPT ![w] = s] \/ runner' = [runner EXCEPT ![w] = t]
    BY <1>7 DEF ClaimScript
  <2> HIDE DEF leases
  <2>2. s.limit = r.limit /\ s.state = r.state /\ t.limit = r.limit /\ t.state = r.state
    BY DEF Process
  <2> HIDE DEF s, t
  <2> QED BY <1>4, <2>1, <2>2
<1>8. ASSUME NEW w \in Workers, Deliver(w) \/ StopClaiming(w) PROVE Stays
  <2> DEFINE r == runner[w]
             s == Woken(r)
             stopping == [s EXCEPT !.state = "stopping"]
  <2>0. r \in Process
    OBVIOUS
  <2>1. s \in Process /\ s.limit = r.limit /\ s.state = r.state
    <3> HIDE DEF r
    <3>1. CASE r.loop = "parked"
      BY <2>0, <3>1 DEF Woken, Process
    <3>2. CASE r.loop # "parked"
      BY <2>0, <3>2 DEF Woken, Process
    <3> QED BY <3>1, <3>2
  <2>2. stopping.limit = s.limit /\ stopping.state = "stopping"
    BY <2>1 DEF Process
  <2>3. \/ runner' = [runner EXCEPT ![w] = s]
        \/ runner' = [runner EXCEPT ![w] = stopping] /\ r.state = "running"
    BY <1>8 DEF Deliver, StopClaiming
  <2> HIDE DEF s, stopping
  <2> QED BY <1>4, <2>1, <2>2, <2>3 DEF Underway
<1>9. ASSUME NEW w \in Workers, ClaimRefused(w) PROVE Stays
  <2> DEFINE r == runner[w]
             permits == r.free + r.batch
             back == [r EXCEPT !.free = permits, !.batch = 0]
             s == Park(back)
  <2>1. runner' = [runner EXCEPT ![w] = s]
    BY <1>9 DEF ClaimRefused
  <2> HIDE DEF permits
  <2>2. back.limit = r.limit /\ back.state = r.state
    BY DEF Process
  <2>3. s.limit = back.limit /\ s.state = back.state
    BY DEF Park, Process
  <2> HIDE DEF s, back
  <2> QED BY <1>4, <2>1, <2>2, <2>3
<1>10. ASSUME NEW w \in Workers, ClaimGranted(w) PROVE Stays
  <2> DEFINE r == runner[w]
             permits == r.free + r.batch - Cardinality(r.leases)
             jobs == r.inflight \cup
                       {[lease |-> l, renew |-> TRUE, late |-> FALSE, at |-> "handler"] : l \in r.leases}
             s == [r EXCEPT !.loop = "acquire", !.batch = 0, !.leases = {}, !.free = permits,
                            !.inflight = jobs]
  <2>1. runner' = [runner EXCEPT ![w] = s]
    BY <1>10 DEF ClaimGranted
  <2> HIDE DEF permits, jobs
  <2>2. s.limit = r.limit /\ s.state = r.state
    BY DEF Process
  <2> HIDE DEF s
  <2> QED BY <1>4, <2>1, <2>2
<1>11. ASSUME NEW w \in Workers, Close(w) PROVE Stays
  <2> DEFINE r == runner[w]
             permits == r.free + Cardinality(r.inflight) - Cardinality(Running(r))
             jobs == Running(r)
             s == [r EXCEPT !.state = "stopped", !.inflight = jobs, !.free = permits, !.news = {}]
  <2>1. runner' = [runner EXCEPT ![w] = s]
    BY <1>11 DEF Close
  <2> HIDE DEF permits, jobs
  <2>2. s.limit = r.limit /\ s.state = "stopped"
    BY DEF Process
  <2> HIDE DEF s
  <2> QED BY <1>4, <2>1, <2>2 DEF Underway
<1>12. ASSUME NEW w \in Workers, Drop(w) PROVE Stays
  <2> DEFINE r == runner[w]
             permits == r.free + r.batch + Cardinality(r.inflight) - Cardinality(Running(r))
             jobs == Running(r)
             kept == [r EXCEPT !.inflight = jobs, !.handing = {}, !.news = {}, !.batch = 0,
                               !.leases = {}, !.free = permits]
             s == IF r.loop \in {"claiming", "granted", "refused"} THEN Park(kept) ELSE kept
  <2>1. runner' = [runner EXCEPT ![w] = s]
    BY <1>12 DEF Drop
  <2> HIDE DEF permits, jobs
  <2>2. kept.limit = r.limit /\ kept.state = r.state
    BY DEF Process
  <2>3. s.limit = kept.limit /\ s.state = kept.state
    BY DEF Park, Process
  <2> HIDE DEF s, kept
  <2> QED BY <1>4, <2>1, <2>2, <2>3
<1>13. ASSUME NEW w \in Workers, Crash(w) PROVE Stays
  <2> DEFINE r == runner[w]
             s == [r EXCEPT !.state = "crashed", !.loop = "off", !.batch = 0, !.leases = {},
                            !.free = Concurrency, !.wakePending = FALSE,
                            !.inflight = {}, !.handing = {}, !.news = {}]
  <2>1. runner' = [runner EXCEPT ![w] = s]
    BY <1>13 DEF Crash
  <2>2. s.limit = r.limit /\ s.state = "crashed"
    BY DEF Process
  <2> HIDE DEF s
  <2> QED BY <1>4, <2>1, <2>2 DEF Underway
<1>14. ASSUME NEW w \in Workers, NEW e \in runner[w].inflight, Job(w, e) PROVE Stays
  <2>1. UNCHANGED runner \/ Settle(w, e) \/ \E f : Moved(w, e, f)
    BY <1>14 DEF Job, HandlerEnds, AckScript, AckAnswered, Renew
  <2> QED BY <1>1, <2>1 DEF Settle, Moved, Process
<1> HIDE DEF Stays
<1>15. ASSUME NEW w \in Workers, Loop(w) PROVE Stays
  BY <1>6, <1>7, <1>9, <1>10, <1>15 DEF Loop
<1>16. ASSUME NEW w \in Workers,
              \/ Deliver(w) \/ Sweep(w) \/ SweepAnswered(w) \/ StartRunner(w) \/ StopClaiming(w)
              \/ ForceRequeue(w) \/ (\E l \in runner[w].handing : RequeueScript(w, l))
       PROVE  Stays
  BY <1>5, <1>6, <1>8, <1>16
<1>17. ASSUME NEW w \in Workers, OneWorker(w) PROVE Stays
  BY <1>2, <1>3, <1>11, <1>12, <1>13, <1>14, <1>15, <1>16, <1>17 DEF OneWorker
<1>18. Stays
  BY <1>2, <1>17 DEF SystemNext, OneWorker
<1> QED BY <1>18 DEF Stays

\* Unless it is removed, the stored limit moves when a worker boots with a
\* newer version only.
LEMMA LimitByBoot ==
    ASSUME SystemInv, SystemNext, "remove" \notin happened'
    PROVE  /\ "remove" \notin happened
           /\ conc' = conc \/ \E w \in Workers : Boot(w) /\ runner[w].limit.version > conc.version
<1>1. "remove" \notin happened
  BY AccidentsKept
<1>2. ~LimitRemoved
  BY DEF LimitRemoved, Accident
<1>3. ASSUME NEW op \in {"complete", "fail", "requeue"}, NEW l, Execute(op, l) PROVE conc' = conc
  BY <1>3 DEF Execute, NoScript, store, CompleteScript, Complete, FailScript, FailRetry, FailFinal,
              RequeueActive
<1>4. ASSUME NEW w \in Workers, Boot(w) PROVE conc' = conc \/ runner[w].limit.version > conc.version
  BY <1>4 DEF Boot, Declare, NoScript, store
<1>5. ASSUME NEW w \in Workers, ClaimScript(w) \/ Sweep(w) PROVE conc' = conc
  BY <1>5 DEF ClaimScript, Sweep, Claim, Recover, store
<1>6. ASSUME NEW w \in Workers, NEW e \in runner[w].inflight, Job(w, e) PROVE conc' = conc
  BY <1>3, <1>6 DEF Job, HandlerEnds, AckScript, AckSent, AckAnswered, Renew, Extend, NoScript, store
<1>7. ASSUME NEW w \in Workers, NEW l \in runner[w].handing, RequeueScript(w, l) PROVE conc' = conc
  BY <1>3, <1>7 DEF RequeueScript
<1>8. CASE Produce \/ (\E j \in JobIds : Expire(j)) \/ EvictHash
  BY <1>1, <1>8 DEF Produce, Enqueue, Expire, LeaseExpires, EvictHash, HashLost
<1>9. ASSUME NEW c \in strays, StrayScript(c) PROVE conc' = conc
  <2>1. c.op \in {"claim", "complete", "fail", "requeue"}
    BY DEF SystemInv, StraysIssued, Commands
  <2> QED BY <1>3, <1>9, <2>1 DEF StrayScript, Claim, NoScript, store
<1>10. ASSUME NEW w \in Workers,
              \/ StartRunner(w) \/ SendClaim(w) \/ LeaveLoop(w) \/ ClaimRefused(w)
              \/ ClaimGranted(w) \/ PollTimeout(w) \/ Deliver(w) \/ SweepAnswered(w)
              \/ StopClaiming(w) \/ ForceRequeue(w) \/ Close(w) \/ Drop(w) \/ Crash(w)
              \/ NoticesLost(w)
       PROVE  conc' = conc
  BY <1>10 DEF StartRunner, SendClaim, LeaveLoop, ClaimRefused, ClaimGranted, PollTimeout,
               Deliver, SweepAnswered, StopClaiming, ForceRequeue, Close, Drop, Crash,
               NoticesLost, store
<1> QED BY <1>1, <1>2, <1>4, <1>5, <1>6, <1>7, <1>8, <1>9, <1>10 DEF SystemNext, Loop

LEMMA LimitMoves ==
    ASSUME SystemInv, SystemNext, "remove" \notin happened'
    PROVE  "remove" \notin happened /\ (conc' = conc \/ conc'.version > conc.version)
<1>1. CASE \E w \in Workers : Boot(w) /\ runner[w].limit.version > conc.version
  <2>1. PICK w \in Workers : Boot(w) /\ runner[w].limit.version > conc.version
    BY <1>1
  <2>2. conc' = [limit |-> runner[w].limit.limit, version |-> runner[w].limit.version]
    BY <2>1 DEF Boot, Declare
  <2> QED BY <2>1, <2>2, LimitByBoot
<1> QED BY <1>1, LimitByBoot

\* No two workers are under way with different limits of one version, in
\* whatever order they boot, as long as the limit key is not deleted.
THEOREM LimitInForceHolds == SystemSpec => []LimitInForce
<1>1. SystemInit => LimitInForce
  BY DEF SystemInit, LimitInForce
<1>2. SystemInv /\ LimitInForce /\ [SystemNext]_system => LimitInForce'
  <2>1. CASE UNCHANGED system
    BY <2>1 DEF system, process, store, LimitInForce
  <2>2. ASSUME SystemInv, LimitInForce, SystemNext PROVE LimitInForce'
    <3> SUFFICES ASSUME "remove" \notin happened', NEW w \in Workers,
                        runner'[w].limit # NoLimit, runner'[w].state \in Underway
                 PROVE  conc'.version > runner'[w].limit.version \/ conc' = runner'[w].limit
      BY DEF LimitInForce, Underway
    <3>1. "remove" \notin happened /\ (conc' = conc \/ conc'.version > conc.version)
      BY <2>2, LimitMoves
    <3>2. runner'[w].limit = runner[w].limit /\ (runner[w].state \in Underway \/ Boot(w))
      BY <2>2, LimitsStay DEF SystemInv
    <3>3. /\ conc \in [limit : Nat, version : Nat] /\ conc' \in [limit : Nat, version : Nat]
          /\ runner[w].limit \in [limit : Nat, version : Nat]
      <4>1. IInv /\ IInv'
        BY <2>2, SystemSteps DEF SystemInv
      <4>2. runner[w].limit \in [limit : Limits, version : Versions] \cup {NoLimit}
        BY <2>2 DEF SystemInv, Process
      <4>3. conc \in [limit : Nat, version : Nat] /\ conc' \in [limit : Nat, version : Nat]
        BY <4>1 DEF IInv, TypeOK
      <4>4. Limits \subseteq Nat /\ Versions \subseteq Nat
        BY LimitAssumption
      <4>5. runner[w].limit \in [limit : Nat, version : Nat]
        <5>1. ASSUME NEW l \in [limit : Limits, version : Versions]
              PROVE  l \in [limit : Nat, version : Nat]
          BY <4>4
        <5>2. NoLimit \in [limit : Nat, version : Nat]
          BY DEF NoLimit
        <5> QED BY <4>2, <5>1, <5>2
      <4> QED BY <4>3, <4>5
    <3>4. CASE runner[w].state \in Underway
      <4>1. conc.version > runner[w].limit.version \/ conc = runner[w].limit
        BY <2>2, <3>1, <3>2, <3>4 DEF LimitInForce, Underway
      <4> QED BY <3>1, <3>2, <3>3, <4>1
    <3>5. CASE Boot(w)
      <4>1. runner'[w].state = IF Conflict(w) THEN "stopped" ELSE "declared"
        BY <2>2, <3>5 DEF Boot, SystemInv, Process
      <4>2. ~Conflict(w)
        BY <4>1 DEF Underway
      <4>3. CASE runner[w].limit.version > conc.version
        <5>1. conc' = [limit |-> runner[w].limit.limit, version |-> runner[w].limit.version]
          BY <3>5, <4>3 DEF Boot, Declare
        <5> QED BY <3>2, <3>3, <5>1
      <4>4. CASE ~(runner[w].limit.version > conc.version)
        <5>1. conc' = conc
          BY <3>5, <4>4 DEF Boot, NoScript, store
        <5> QED BY <3>2, <3>3, <4>2, <4>4, <5>1 DEF Conflict
      <4> QED BY <4>3, <4>4
    <3> QED BY <3>2, <3>4, <3>5
  <2> QED BY <2>1, <2>2
<1> QED BY <1>1, <1>2, SystemInvariant, PTL DEF SystemSpec

===============================================================================
