----------------------------- MODULE WorkerRunner -----------------------------
(***************************************************************************)
(* Worker processes that consume one queue: the claim loop with its        *)
(* permits, the in-flight jobs with their renewals and acknowledgements,   *)
(* the recovery sweep, pub/sub wake-ups, shutdown and crashes, running     *)
(* against the Redis state of QueueStore.                                  *)
(*                                                                         *)
(* A step is what one process does between two awaits, or one script in    *)
(* Redis.  A command is sent, executed and answered in three steps; its    *)
(* connection may drop between any two of them, and Redis may still        *)
(* execute a command whose sender has given it up (a stray).               *)
(* Renewals and sweeps change nothing in the process until their answer    *)
(* arrives, so sending and executing them is one step.                     *)
(***************************************************************************)
EXTENDS QueueStore

CONSTANTS
    Workers,        \* the worker processes
    Steady,         \* those among them that are never stopped and never crash
    Deployments,    \* the global limits the processes may be configured with
    Concurrency,    \* local concurrency of a runner, its semaphore's max
    Accidents,      \* what may go wrong, each at most once (bound)
    MaxNotices      \* bound: undelivered notifications kept per worker

ASSUME WorkerAssumption ==
    /\ Steady \subseteq Workers
    /\ Deployments \subseteq [Workers -> [limit : Limits, version : Versions] \cup {NoLimit}]
    /\ Concurrency \in Nat \ {0}
    /\ MaxNotices \in Nat \ {0}
    /\ Accidents \subseteq {"drop", "crash", "hash", "notice", "remove"}

VARIABLES
    runner,     \* the state of each worker process
    notices,    \* notifications on their way to each worker
    strays,     \* commands given up by their sender, not executed yet
    happened,   \* the accidents so far
    told        \* history: the onJobCompleted and onJobFailed events per job, in order

process == <<runner, notices, strays, happened, told>>
system == <<store, history, process>>

Lease == [job : JobIds, token : Nat]

\* An in-flight job: "at" is where its run is (handler, an ack sent, or the
\* answer to it); "late": the ack was sent after a shutdown requeue.
InFlight == [lease : Lease, renew : BOOLEAN, late : BOOLEAN,
             at : {"handler", "complete", "fail", "completed", "waiting", "failed", "stale"}]

Runner == [limit : [limit : Limits, version : Versions] \cup {NoLimit},  \* as configured
           state : {"idle", "declared", "running", "stopping", "requeuing", "stopped", "crashed"},
           loop : {"off", "acquire", "claiming", "granted", "refused", "parked", "exited"},
           batch : 0..ClaimBatch,       \* permits held for the claim under way
           leases : SUBSET Lease,       \* granted, answer not read yet
           free : 0..Concurrency,       \* permits left in the semaphore
           wakePending : BOOLEAN,
           inflight : SUBSET InFlight,
           handing : SUBSET Lease,      \* requeue sent, not executed
           news : SUBSET JobIds]        \* swept and failed, event not emitted

AckSent == {"complete", "fail"}
Commands == [op : {"claim"}, count : 1..ClaimBatch]
              \cup [op : {"complete", "fail", "requeue"}, lease : Lease]

SystemInit ==
    /\ Init
    /\ \E deployed \in Deployments :
         runner = [w \in Workers |->
                     [limit |-> deployed[w], state |-> "idle", loop |-> "off", batch |-> 0,
                      leases |-> {}, free |-> Concurrency, wakePending |-> FALSE,
                      inflight |-> {}, handing |-> {}, news |-> {}]]
    /\ notices = [w \in Workers |-> 0]
    /\ strays = {}
    /\ happened = {}
    /\ told = [j \in JobIds |-> <<>>]

-------------------------------------------------------------------------------
(* What the scripts do to the rest of the system. *)

Subscribed(w) == runner[w].state \in {"running", "stopping", "requeuing"}

\* The messages one script publishes count as one notice.
Notify == notices' = [w \in Workers |->
    IF published' /\ Subscribed(w) THEN Smaller(notices[w] + 1, MaxNotices) ELSE notices[w]]

NoScript == UNCHANGED <<store, history, notices>>

CompleteScript(l) == \E policy \in CompletedPolicies : Complete(l.job, l.token, policy)
FailScript(l) == FailRetry(l.job, l.token) \/ \E policy \in FailedPolicies : FailFinal(l.job, l.token, policy)

\* What complete, fail and requeue-active answer, and do unless it is "stale".
Answer(op, l) ==
    IF ~Holds(l.job, l.token) THEN "stale"
    ELSE IF op = "complete" THEN "completed"
    ELSE IF op = "requeue" \/ hash[l.job].failures + 1 <= hash[l.job].maxRetries THEN "waiting"
    ELSE "failed"

Execute(op, l) ==
    /\ IF ~Holds(l.job, l.token) THEN NoScript
       ELSE /\ CASE op = "complete" -> CompleteScript(l)
                 [] op = "fail"     -> FailScript(l)
                 [] op = "requeue"  -> RequeueActive(l.job, l.token)
            /\ Notify

-------------------------------------------------------------------------------
(* The claim loop. *)

\* Mutant: a wake-up that finds no parked loop is dropped.
WokenForgetful(r) == IF r.loop = "parked" THEN [r EXCEPT !.loop = "acquire"] ELSE r

\* A parked loop resumes; otherwise the wake-up is remembered.
Woken(r) == IF r.loop = "parked" THEN [r EXCEPT !.loop = "acquire"]
                                 ELSE [r EXCEPT !.wakePending = TRUE]

\* waitForNotification
Park(r) == IF r.wakePending THEN [r EXCEPT !.wakePending = FALSE, !.loop = "acquire"]
                            ELSE [r EXCEPT !.loop = "parked"]

\* The start of a pool: declare the limit, refuse to go on when it is stored
\* under the same version with another value, then subscribe and start.
ConflictIgnored(w) == FALSE
Conflict(w) == runner[w].limit.version = conc.version /\ runner[w].limit # conc

Boot(w) ==
    /\ runner[w].state = "idle"
    /\ IF runner[w].limit.version > conc.version
       THEN Declare(runner[w].limit.limit, runner[w].limit.version) /\ UNCHANGED notices
       ELSE NoScript
    /\ runner' = [runner EXCEPT ![w].state = IF Conflict(w) THEN "stopped" ELSE "declared"]
    /\ UNCHANGED <<strays, happened, told>>

StartRunner(w) ==
    /\ runner[w].state = "declared"
    /\ runner' = [runner EXCEPT ![w].state = "running", ![w].loop = "acquire"]
    /\ UNCHANGED <<store, history, notices, strays, happened, told>>

\* One permit awaited, the free ones up to the batch cap taken with it.
SendClaim(w) ==
    /\ runner[w].loop = "acquire"
    /\ runner[w].state = "running"
    /\ runner[w].free > 0
    /\ LET n == Smaller(ClaimBatch, runner[w].free) IN
       runner' = [runner EXCEPT ![w].loop = "claiming", ![w].batch = n,
                                ![w].free = runner[w].free - n]
    /\ UNCHANGED <<store, history, notices, strays, happened, told>>

\* Mutants: the wait for a permit is given no abort signal; the aborted wait
\* releases a permit it never got.
LeaveLoopUnaborted(w) ==
    /\ runner[w].loop = "acquire"
    /\ runner[w].state # "running"
    /\ runner[w].free > 0
    /\ runner' = [runner EXCEPT ![w].loop = "exited"]
    /\ UNCHANGED <<store, history, notices, strays, happened, told>>

LeaveLoopReleasing(w) ==
    /\ runner[w].loop = "acquire"
    /\ runner[w].state # "running"
    /\ runner' = [runner EXCEPT ![w].loop = "exited", ![w].free = @ + 1]
    /\ UNCHANGED <<store, history, notices, strays, happened, told>>

\* The loop's condition, the aborted wait for a permit and the check behind it.
LeaveLoop(w) ==
    /\ runner[w].loop = "acquire"
    /\ runner[w].state # "running"
    /\ runner' = [runner EXCEPT ![w].loop = "exited"]
    /\ UNCHANGED <<store, history, notices, strays, happened, told>>

ClaimScript(w) ==
    /\ runner[w].loop = "claiming"
    /\ LET n == runner[w].batch IN
       IF BatchSize(n) >= 1
       THEN /\ Claim(n)
            /\ runner' = [runner EXCEPT ![w].loop = "granted",
                 ![w].leases = {[job |-> j, token |-> issued[j] + 1] : j \in Granted(n)}]
       ELSE /\ runner' = [runner EXCEPT ![w].loop = "refused"]
            /\ UNCHANGED <<store, history>>
    /\ UNCHANGED <<notices, strays, happened, told>>

ClaimRefused(w) ==
    /\ runner[w].loop = "refused"
    /\ LET r == runner[w] IN
       runner' = [runner EXCEPT ![w] = Park([r EXCEPT !.free = r.free + r.batch, !.batch = 0])]
    /\ UNCHANGED <<store, history, notices, strays, happened, told>>

\* Mutant: the permits of corrupt and missing entries are not given back.
ClaimGrantedTailKept(w) ==
    /\ runner[w].loop = "granted"
    /\ LET r == runner[w] IN
       runner' = [runner EXCEPT ![w] =
         [r EXCEPT !.loop = "acquire", !.batch = 0, !.leases = {},
                   !.inflight = r.inflight \cup
                     {[lease |-> l, renew |-> TRUE, late |-> FALSE, at |-> "handler"] : l \in r.leases}]]
    /\ UNCHANGED <<store, history, notices, strays, happened, told>>

\* Each granted job keeps one permit; corrupt and missing entries give theirs back.
ClaimGranted(w) ==
    /\ runner[w].loop = "granted"
    /\ LET r == runner[w] IN
       runner' = [runner EXCEPT ![w] =
         [r EXCEPT !.loop = "acquire", !.batch = 0, !.leases = {},
                   !.free = r.free + r.batch - Cardinality(r.leases),
                   !.inflight = r.inflight \cup
                     {[lease |-> l, renew |-> TRUE, late |-> FALSE, at |-> "handler"] : l \in r.leases}]]
    /\ UNCHANGED <<store, history, notices, strays, happened, told>>

PollTimeout(w) ==
    /\ runner[w].loop = "parked"
    /\ runner' = [runner EXCEPT ![w].loop = "acquire"]
    /\ UNCHANGED <<store, history, notices, strays, happened, told>>

Deliver(w) ==
    /\ notices[w] > 0
    /\ Subscribed(w)
    /\ notices' = [notices EXCEPT ![w] = @ - 1]
    /\ runner' = [runner EXCEPT ![w] = Woken(@)]
    /\ UNCHANGED <<store, history, strays, happened, told>>

-------------------------------------------------------------------------------
(* In-flight jobs. *)

Moved(w, e, f) == runner' = [runner EXCEPT ![w].inflight = (@ \ {e}) \cup {f}]

\* Mutant: the permit is not released.
SettleLeaky(w, e) == runner' = [runner EXCEPT ![w].inflight = @ \ {e}]

\* The finally block: the entry goes, its permit is released.
Settle(w, e) == runner' = [runner EXCEPT ![w].inflight = @ \ {e}, ![w].free = @ + 1]

\* The handler returned (ack "complete") or threw (ack "fail"); the renewer
\* stops and the ack is sent, or rejected at once when the client is closed.
HandlerEnds(w, e, ack) ==
    /\ e.at = "handler"
    /\ IF runner[w].state = "stopped" THEN Settle(w, e)
       ELSE Moved(w, e, [e EXCEPT !.at = ack, !.renew = FALSE,
                                  !.late = e.lease \in runner[w].handing])
    /\ UNCHANGED <<store, history, notices, strays, happened, told>>

\* One connection: an ack sent after a requeue is executed after it.
AckScript(w, e) ==
    /\ e.at \in AckSent
    /\ e.late => e.lease \notin runner[w].handing
    /\ Execute(e.at, e.lease)
    /\ Moved(w, e, [e EXCEPT !.at = Answer(e.at, e.lease)])
    /\ UNCHANGED <<strays, happened, told>>

Tell(S, event) == told' = [j \in JobIds |-> IF j \in S THEN Append(told[j], event) ELSE told[j]]

\* Mutant: the answer is not looked at before the event is emitted.
AckAnsweredUnchecked(w, e) ==
    /\ e.at \in {"completed", "waiting", "failed", "stale"}
    /\ IF e.at # "waiting"
       THEN Tell({e.lease.job}, [event |-> IF e.at = "failed" THEN "failed" ELSE "completed",
                                 by |-> w, token |-> e.lease.token])
       ELSE UNCHANGED told
    /\ Settle(w, e)
    /\ UNCHANGED <<store, history, notices, strays, happened>>

AckAnswered(w, e) ==
    /\ e.at \in {"completed", "waiting", "failed", "stale"}
    /\ IF e.at \in {"completed", "failed"}
       THEN Tell({e.lease.job}, [event |-> e.at, by |-> w, token |-> e.lease.token])
       ELSE UNCHANGED told
    /\ Settle(w, e)
    /\ UNCHANGED <<store, history, notices, strays, happened>>

\* A tick of the lease renewer; an answer other than "extended" ends it.
Renew(w, e) ==
    /\ e.renew
    /\ runner[w].state # "stopped"
    /\ IF Holds(e.lease.job, e.lease.token)
       THEN Extend(e.lease.job, e.lease.token) /\ UNCHANGED <<runner, notices>>
       ELSE Moved(w, e, [e EXCEPT !.renew = FALSE]) /\ NoScript
    /\ UNCHANGED <<strays, happened, told>>

\* Mutant: the recovery timer is not started.
SweepNever(w) == FALSE

\* A recovery pass and its answer: the failed jobs' events are emitted here,
\* whoever ran the jobs.
Sweep(w) ==
    /\ runner[w].state = "running"
    /\ \E policy \in FailedPolicies : Recover(policy)
    /\ Notify
    /\ runner' = [runner EXCEPT ![w].news = @ \cup
         {j \in JobIds : outcome[j] = "none" /\ outcome'[j] = "failed"}]
    /\ UNCHANGED <<strays, happened, told>>

SweepAnswered(w) ==
    /\ runner[w].news # {}
    /\ Tell(runner[w].news, [event |-> "failed", by |-> w, token |-> 0])
    /\ runner' = [runner EXCEPT ![w].news = {}]
    /\ UNCHANGED <<store, history, notices, strays, happened>>

-------------------------------------------------------------------------------
(* Shutdown: stop claiming, wait for the loop, hand back what still runs (at *)
(* once, or after a drain that timed out), disconnect.                       *)

StopClaiming(w) ==
    /\ w \notin Steady
    /\ runner[w].state = "running"
    /\ runner' = [runner EXCEPT ![w] = [Woken(@) EXCEPT !.state = "stopping"]]
    /\ UNCHANGED <<store, history, notices, strays, happened, told>>

\* Mutant: the end of the claim loop is not awaited.
ForceRequeueEarly(w) ==
    /\ runner[w].state = "stopping"
    /\ runner' = [runner EXCEPT ![w].state = "requeuing",
                    ![w].handing = {e.lease : e \in runner[w].inflight},
                    ![w].inflight = {[e EXCEPT !.renew = FALSE] : e \in @}]
    /\ UNCHANGED <<store, history, notices, strays, happened, told>>

ForceRequeue(w) ==
    /\ runner[w].state = "stopping"
    /\ runner[w].loop = "exited"
    /\ runner' = [runner EXCEPT ![w].state = "requeuing",
                    ![w].handing = {e.lease : e \in runner[w].inflight},
                    ![w].inflight = {[e EXCEPT !.renew = FALSE] : e \in @}]
    /\ UNCHANGED <<store, history, notices, strays, happened, told>>

\* An ack sent before the requeue is executed before it.
RequeueScript(w, l) ==
    /\ l \in runner[w].handing
    /\ \A e \in runner[w].inflight : e.lease = l /\ e.at \in AckSent => e.late
    /\ Execute("requeue", l)
    /\ runner' = [runner EXCEPT ![w].handing = @ \ {l}]
    /\ UNCHANGED <<strays, happened, told>>

\* The commands of a worker that Redis has not executed.
Pending(w) ==
    LET r == runner[w] IN
    (IF r.loop = "claiming" THEN {[op |-> "claim", count |-> r.batch]} ELSE {})
      \cup {[op |-> e.at, lease |-> e.lease] : e \in {x \in r.inflight : x.at \in AckSent}}
      \cup {[op |-> "requeue", lease |-> l] : l \in r.handing}

Running(r) == {e \in r.inflight : e.at = "handler"}

\* All requeues settled: disconnect, which rejects the acks under way.
Close(w) ==
    /\ runner[w].state = "requeuing"
    /\ runner[w].handing = {}
    /\ \E S \in SUBSET Pending(w) : strays' = strays \cup S
    /\ LET r == runner[w] IN
       runner' = [runner EXCEPT ![w] =
         [r EXCEPT !.state = "stopped", !.inflight = Running(r),
                   !.free = r.free + Cardinality(r.inflight) - Cardinality(Running(r)),
                   !.news = {}]]
    /\ notices' = [notices EXCEPT ![w] = 0]
    /\ UNCHANGED <<store, history, happened, told>>

-------------------------------------------------------------------------------
(* What goes wrong. *)

Accident(kind) ==
    /\ kind \in Accidents \ happened
    /\ happened' = happened \cup {kind}

\* The command connection drops: every command under way rejects, executed or
\* not; the loop returns its permits and parks, the acks are given up.
Drop(w) ==
    /\ Accident("drop")
    /\ runner[w].state \in {"running", "stopping", "requeuing"}
    /\ \E S \in SUBSET Pending(w) : strays' = strays \cup S
    /\ LET r == runner[w]
           kept == [r EXCEPT !.inflight = Running(r), !.handing = {}, !.news = {},
                             !.batch = 0, !.leases = {},
                             !.free = r.free + r.batch
                                        + Cardinality(r.inflight) - Cardinality(Running(r))]
       IN runner' = [runner EXCEPT ![w] =
            IF r.loop \in {"claiming", "granted", "refused"} THEN Park(kept) ELSE kept]
    /\ UNCHANGED <<store, history, notices, told>>

\* Redis executes a command that nobody waits for.
StrayScript(c) ==
    /\ c \in strays
    /\ IF c.op = "claim"
       THEN IF BatchSize(c.count) >= 1 THEN Claim(c.count) /\ UNCHANGED notices ELSE NoScript
       ELSE Execute(c.op, c.lease)
    /\ strays' = strays \ {c}
    /\ UNCHANGED <<runner, happened, told>>

Crash(w) ==
    /\ Accident("crash")
    /\ w \notin Steady
    /\ runner[w].state \in {"running", "stopping", "requeuing"}
    /\ \E S \in SUBSET Pending(w) : strays' = strays \cup S
    /\ runner' = [runner EXCEPT ![w] =
         [@ EXCEPT !.state = "crashed", !.loop = "off", !.batch = 0, !.leases = {},
                   !.free = Concurrency, !.wakePending = FALSE,
                   !.inflight = {}, !.handing = {}, !.news = {}]]
    /\ notices' = [notices EXCEPT ![w] = 0]
    /\ UNCHANGED <<store, history, told>>

\* The subscriber socket is down while notifications are published.
NoticesLost(w) ==
    /\ notices[w] > 0
    /\ Accident("notice")
    /\ notices' = [notices EXCEPT ![w] = 0]
    /\ UNCHANGED <<store, history, runner, strays, told>>

EvictHash ==
    /\ Accident("hash")
    /\ \E j \in JobIds : HashLost(j)
    /\ UNCHANGED <<runner, notices, strays, told>>

LimitRemoved ==
    /\ Accident("remove")
    /\ RemoveLimit
    /\ UNCHANGED <<runner, notices, strays, told>>

-------------------------------------------------------------------------------
Produce ==
    /\ \E j \in JobIds, retries \in RetryBudgets, stalls \in StallBudgets :
           Enqueue(j, retries, stalls)
    /\ Notify
    /\ UNCHANGED <<runner, strays, happened, told>>

Expire(j) == LeaseExpires(j) /\ UNCHANGED process

Job(w, e) ==
    \/ \E ack \in AckSent : HandlerEnds(w, e, ack)
    \/ AckScript(w, e)
    \/ AckAnswered(w, e)
    \/ Renew(w, e)

Loop(w) ==
    \/ SendClaim(w)
    \/ LeaveLoop(w)
    \/ ClaimScript(w)
    \/ ClaimRefused(w)
    \/ ClaimGranted(w)
    \/ PollTimeout(w)

SystemNext ==
    \/ Produce
    \/ \E j \in JobIds : Expire(j)
    \/ \E w \in Workers :
         \/ Boot(w)
         \/ StartRunner(w)
         \/ Loop(w)
         \/ Deliver(w)
         \/ \E e \in runner[w].inflight : Job(w, e)
         \/ Sweep(w)
         \/ SweepAnswered(w)
         \/ StopClaiming(w)
         \/ ForceRequeue(w)
         \/ \E l \in runner[w].handing : RequeueScript(w, l)
         \/ Close(w)
         \/ Drop(w)
         \/ Crash(w)
         \/ NoticesLost(w)
    \/ \E c \in strays : StrayScript(c)
    \/ EvictHash
    \/ LimitRemoved

SystemSpec == SystemInit /\ [][SystemNext]_system

-------------------------------------------------------------------------------
(* Fairness.  The event loop runs what is ready, timers fire, commands on a  *)
(* live connection are executed and answered, messages are delivered, and a  *)
(* lease deadline passes.  Nothing makes producers produce, a worker start   *)
(* or stop, or Redis execute a stray.  That handlers return is an assumption *)
(* of its own, and so is that the steady workers are started.                *)

RunsOn(w) ==
    /\ WF_system(Loop(w))
    /\ WF_system(Deliver(w))
    /\ WF_system(Sweep(w))
    /\ WF_system(SweepAnswered(w))
    /\ WF_system(ForceRequeue(w))
    /\ WF_system(Close(w))
    /\ WF_system(\E l \in runner[w].handing : RequeueScript(w, l))

AcksCarriedOut(w) == \A j \in JobIds : WF_system(\E e \in runner[w].inflight :
    e.lease.job = j /\ (AckScript(w, e) \/ AckAnswered(w, e)))

HandlersReturn == \A w \in Workers, j \in JobIds :
    WF_system(\E e \in runner[w].inflight, ack \in AckSent :
                  e.lease.job = j /\ HandlerEnds(w, e, ack))

SteadyStart == \A w \in Steady : WF_system(Boot(w) \/ StartRunner(w))

LeasesRunOut == \A j \in JobIds : WF_system(Expire(j))

HungFairness == \A w \in Workers : RunsOn(w) /\ AcksCarriedOut(w)
Fairness == HungFairness /\ SteadyStart /\ HandlersReturn /\ LeasesRunOut

\* Enough for every job to end: of the workers that are not steady, only that
\* their handlers return and that the acks they sent are carried out.
OutcomeFairness ==
    /\ \A w \in Steady : RunsOn(w)
    /\ \A w \in Workers : AcksCarriedOut(w)
    /\ SteadyStart /\ HandlersReturn /\ LeasesRunOut

FairSpec == SystemSpec /\ Fairness

-------------------------------------------------------------------------------
\* The variables of the processes have their shape, and a semaphore never has
\* more permits than its maximum.
SystemTypeOK ==
    /\ runner \in [Workers -> Runner]
    /\ notices \in [Workers -> 0..MaxNotices]
    /\ strays \subseteq Commands
    /\ happened \subseteq Accidents

\* Permits are conserved: those free, those held for a claim under way and
\* those of the jobs in flight are all the permits there are, whatever claims
\* fail, come back short or corrupt, and whatever acks are rejected.
PermitsConserved == SystemTypeOK /\ \A w \in Workers :
    runner[w].free + runner[w].batch + Cardinality(runner[w].inflight) = Concurrency

\* A live worker is in charge of every active job: it runs it under the
\* current token, or is about to read the claim that granted it.  Shutdown
\* leaves no job behind, however claims, acks and requeues cross; only a crash
\* or a dropped connection can leave one to the sweep.
InCharge(w, j) ==
    /\ runner[w].state \notin {"stopped", "crashed"}
    /\ [job |-> j, token |-> hash[j].token] \in
           runner[w].leases \cup {e.lease : e \in runner[w].inflight}
NoOrphanedLease == happened \cap {"drop", "crash"} = {} =>
    \A j \in active : Exists(j) => \E w \in Workers : InCharge(w, j)

\* Of all the workers that ever ran a job or swept it, at most one reports its
\* end, once, and what it reports is the job's outcome.
EndReportedOnce == \A j \in JobIds :
    /\ Len(told[j]) <= 1
    /\ \A i \in DOMAIN told[j] : told[j][i].event = outcome[j]

\* No wake-up is lost between an empty claim and the wait that follows it: a
\* worker is parked beside a job it could claim only while a notification is
\* on its way to it.  (Notifications lost with a socket, a connection error
\* and a raised or removed limit are left to the poll interval.)
Lossless ==
    /\ happened \cap {"drop", "notice", "remove"} = {}
    /\ \A v, w \in Workers : runner[v].limit = runner[w].limit
Parked(w) == runner[w].state = "running" /\ runner[w].loop = "parked"
NoLostWakeup == Lossless =>
    \A w \in Workers : Claimable /\ Parked(w) => notices[w] > 0

\* While the limit key is not deleted, the limit a worker was started with is
\* the one in force, or a newer version has replaced it: no two workers ever
\* run under different limits of one version, in whatever order they boot.
LimitInForce == "remove" \notin happened =>
    \A w \in Workers : runner[w].limit # NoLimit /\ runner[w].state \in
        {"declared", "running", "stopping", "requeuing"} =>
            conc.version > runner[w].limit.version \/ conc = runner[w].limit

\* Every enqueued job reaches an outcome as long as one worker goes on,
\* whatever happens to the others, to connections and to notifications.
EventualOutcome == \A j \in JobIds : j \in Range(born) ~> outcome[j] # "none"

\* A forced shutdown ends even if no handler ever returns.
ShutdownCompletes == \A w \in Workers :
    runner[w].state = "stopping" ~> runner[w].state \in {"stopped", "crashed"}

-------------------------------------------------------------------------------
(* What comments and documents say and the code does not do. *)

\* complete.ts:34, "No limit = local-only = nobody is parked, stay silent".
NobodyParkedUnlimited ==
    ~Limited /\ waiting # <<>> => \A w \in Workers : Parked(w) => notices[w] > 0

\* worker-events.mdx:300, onJobFailed "fires exactly once per job, when it
\* fails terminally".
FailureReported == \A j \in JobIds : outcome[j] = "failed" ~> told[j] # <<>>

===============================================================================
