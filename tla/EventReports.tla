----------------------------- MODULE EventReports -----------------------------
(***************************************************************************)
(* What the event handlers of the workers get to hear of a queue: replies  *)
(* of claims, acknowledgements and sweeps are decoded and turned into      *)
(* events some time after their scripts ran, or are lost with the          *)
(* connection.  The hash of some jobs does not decode: their payload is no *)
(* JSON, or fields are missing.                                            *)
(*                                                                         *)
(* Replies under way, runs and acknowledgements are sets, so they stand    *)
(* for any number of workers.  Renewals are left to LeaseExpires, which    *)
(* may or may not happen.                                                  *)
(***************************************************************************)
EXTENDS QueueStore

CONSTANTS
    Garbled,        \* jobs whose hash deserializeJobHash refuses
    MaxLosses       \* bound: replies and acknowledgements lost

ASSUME ReportsAssumption ==
    /\ Garbled \subseteq JobIds
    /\ MaxLosses \in Nat

VARIABLES
    claimed,    \* claim replies under way, each a set of leases and dead pointers
    running,    \* leases whose handler runs
    acked,      \* acknowledgements executed, answers under way
    sweeps,     \* sweep replies under way, each a set of entries
    events,     \* the events emitted for each job's runs
    corrupt,    \* number of "corrupt" worker errors per job
    losses,     \* replies and acknowledgements lost so far
    mislaid     \* history: leases of lost replies

replies == <<claimed, running, acked, sweeps>>
reports == <<events, corrupt, losses, mislaid>>
observed == <<store, history, replies, reports>>

\* A lease as the reply hands it out; token 0 stands for a pointer without a hash.
Lease == [job : JobIds, token : Nat]
DeadPointer(j) == [job |-> j, token |-> 0]

Phases == {"complete", "fail"}
Acked == [lease : Lease, phase : Phases,
          answer : {"completed", "waiting", "failed", "stale", "missing"}]
Entry == [job : JobIds, run : Nat, outcome : {"waiting", "failed", "corrupt"}]
Event == [kind : {"started", "completed", "error", "retry", "failed",
                  "stalledRetry", "stalledFailed"}, run : Nat]
         \cup [kind : {"stale", "ackError"}, run : Nat, phase : Phases]

ReportsInit ==
    /\ Init
    /\ claimed = {}
    /\ running = {}
    /\ acked = {}
    /\ sweeps = {}
    /\ events = [j \in JobIds |-> {}]
    /\ corrupt = [j \in JobIds |-> 0]
    /\ losses = 0
    /\ mislaid = {}

Emit(j, new) == events' = [events EXCEPT ![j] = @ \cup new]
Told(run, kinds) == {[kind |-> k, run |-> run] : k \in kinds}

Lost(leases) ==
    /\ losses < MaxLosses
    /\ losses' = losses + 1
    /\ mislaid' = mislaid \cup leases

-------------------------------------------------------------------------------
(* Claims *)

Claims(count) ==
    /\ Claim(count)
    /\ claimed' = claimed \cup
         {{[job |-> j, token |-> hash'[j].token] : j \in Granted(count)}
            \cup {DeadPointer(j) : j \in Range(SubSeq(waiting, 1, BatchSize(count))) \ Granted(count)}}
    /\ UNCHANGED <<running, acked, sweeps, reports>>

\* Mutant: the marker of a missing hash is taken for a job.
DecodesMarker(l) == l.job \notin Garbled
Decodes(l) == l.token # 0 /\ l.job \notin Garbled

Dispatch(healthy, bad) ==
    /\ running' = running \cup healthy
    /\ events' = [j \in JobIds |-> events[j] \cup
         UNION {Told(l.token, {"started"}) : l \in {x \in healthy : x.job = j}}]
    /\ corrupt' = [j \in JobIds |-> corrupt[j] + Cardinality({l \in bad : l.job = j})]

\* Mutant: one entry that does not decode makes the whole reply corrupt.
ClaimReadTogether(reply) ==
    /\ claimed' = claimed \ {reply}
    /\ IF \A l \in reply : Decodes(l) THEN Dispatch(reply, {}) ELSE Dispatch({}, reply)
    /\ UNCHANGED <<store, history, acked, sweeps, losses, mislaid>>

\* Each entry is decoded by itself: it starts a run or is reported as corrupt.
ClaimRead(reply) ==
    /\ claimed' = claimed \ {reply}
    /\ LET healthy == {l \in reply : Decodes(l)} IN Dispatch(healthy, reply \ healthy)
    /\ UNCHANGED <<store, history, acked, sweeps, losses, mislaid>>

ClaimLost(reply) ==
    /\ Lost(reply)
    /\ claimed' = claimed \ {reply}
    /\ UNCHANGED <<store, history, running, acked, sweeps, events, corrupt>>

-------------------------------------------------------------------------------
(* Acknowledgements *)

Answer(l, phase) ==
    IF ~Exists(l.job) THEN "missing"
    ELSE IF ~Holds(l.job, l.token) THEN "stale"
    ELSE IF phase = "complete" THEN "completed"
    ELSE IF hash[l.job].failures + 1 <= hash[l.job].maxRetries THEN "waiting" ELSE "failed"

\* The handler ends, and the script of its acknowledgement runs.
Ends(l, phase) ==
    /\ running' = running \ {l}
    /\ acked' = acked \cup {[lease |-> l, phase |-> phase, answer |-> Answer(l, phase)]}
    /\ CASE Answer(l, phase) = "completed" -> \E p \in CompletedPolicies : Complete(l.job, l.token, p)
         [] Answer(l, phase) = "waiting"   -> FailRetry(l.job, l.token)
         [] Answer(l, phase) = "failed"    -> \E p \in FailedPolicies : FailFinal(l.job, l.token, p)
         [] OTHER                          -> UNCHANGED <<store, history>>
    /\ UNCHANGED <<claimed, sweeps, reports>>

AckNews(a, kind) == {[kind |-> kind, run |-> a.lease.token, phase |-> a.phase]}

\* Mutant: the answer of fail is not looked at.
HeardUnchecked(a) ==
    CASE a.answer = "completed" -> Told(a.lease.token, {"completed"})
      [] a.answer = "failed"    -> Told(a.lease.token, {"error", "failed"})
      [] a.phase = "fail"       -> Told(a.lease.token, {"error", "retry"})
      [] OTHER                  -> AckNews(a, "stale")

\* The events that follow an answer.
Heard(a) ==
    CASE a.answer = "completed" -> Told(a.lease.token, {"completed"})
      [] a.answer = "waiting"   -> Told(a.lease.token, {"error", "retry"})
      [] a.answer = "failed"    -> Told(a.lease.token, {"error", "failed"})
      [] a.answer = "stale"     -> AckNews(a, "stale")
      [] a.answer = "missing"   -> AckNews(a, "ackError")

AckRead(a) ==
    /\ acked' = acked \ {a}
    /\ Emit(a.lease.job, Heard(a))
    /\ UNCHANGED <<store, history, claimed, running, sweeps, corrupt, losses, mislaid>>

\* The connection drops under an acknowledgement that was executed ...
AnswerLost(a) ==
    /\ Lost({a.lease})
    /\ acked' = acked \ {a}
    /\ Emit(a.lease.job, AckNews(a, "ackError"))
    /\ UNCHANGED <<store, history, claimed, running, sweeps, corrupt>>

\* ... or under one that was not.
AckLost(l, phase) ==
    /\ Lost({l})
    /\ running' = running \ {l}
    /\ Emit(l.job, AckNews([lease |-> l, phase |-> phase], "ackError"))
    /\ UNCHANGED <<store, history, claimed, acked, sweeps, corrupt>>

-------------------------------------------------------------------------------
(* Sweeps *)

\* One entry per job the sweep took out of the active set.
Swept == {[job |-> j, run |-> hash[j].runs,
           outcome |-> IF ~Exists(j) THEN "corrupt"
                       ELSE IF j \in Retried(expired) THEN "waiting" ELSE "failed"]
          : j \in expired \ expired'}

Sweeps ==
    /\ \E policy \in FailedPolicies : Recover(policy)
    /\ sweeps' = sweeps \cup {Swept}
    /\ UNCHANGED <<claimed, running, acked, reports>>

Readable(reply) == \A e \in reply : e.outcome = "corrupt" \/ e.job \notin Garbled

\* One entry that does not decode throws for the whole reply: a "recovery-sweep"
\* worker error is all that is heard of the batch.
SweepThrows(reply) ==
    /\ ~Readable(reply)
    /\ sweeps' = sweeps \ {reply}
    /\ UNCHANGED <<store, history, claimed, running, acked, reports>>

\* Mutant: every entry of a sweep is announced as a retry.
StalledRetried(e) == "stalledRetry"
Stall(e) == IF e.outcome = "waiting" THEN "stalledRetry" ELSE "stalledFailed"

SweepRead(reply) ==
    /\ Readable(reply)
    /\ sweeps' = sweeps \ {reply}
    /\ LET gone == {e \in reply : e.outcome = "corrupt"} IN
       /\ events' = [j \in JobIds |-> events[j] \cup
            UNION {Told(e.run, {Stall(e)}) : e \in {x \in reply \ gone : x.job = j}}]
       /\ corrupt' = [j \in JobIds |-> corrupt[j] + Cardinality({e \in gone : e.job = j})]
    /\ UNCHANGED <<store, history, claimed, running, acked, losses, mislaid>>

SweepLost(reply) ==
    /\ Lost({})
    /\ sweeps' = sweeps \ {reply}
    /\ UNCHANGED <<store, history, claimed, running, acked, events, corrupt>>

-------------------------------------------------------------------------------
Environment ==
    /\ \/ \E j \in JobIds, retries \in RetryBudgets, stalls \in StallBudgets :
             Enqueue(j, retries, stalls)
       \/ \E j \in JobIds : LeaseExpires(j)
       \/ \E j \in JobIds : HashLost(j)
    /\ UNCHANGED <<replies, reports>>

ReportsNext ==
    \/ \E count \in 1..ClaimBatch : Claims(count)
    \/ \E reply \in claimed : ClaimRead(reply) \/ ClaimLost(reply)
    \/ \E l \in running, phase \in Phases : Ends(l, phase) \/ AckLost(l, phase)
    \/ \E a \in acked : AckRead(a) \/ AnswerLost(a)
    \/ Sweeps
    \/ \E reply \in sweeps : SweepRead(reply) \/ SweepThrows(reply) \/ SweepLost(reply)
    \/ Environment

ReportsSpec == ReportsInit /\ [][ReportsNext]_observed

-------------------------------------------------------------------------------
Is(e, kinds) == e.kind \in kinds
Reports(j, kinds) == {e \in events[j] : Is(e, kinds)}

\* Every handler that runs, and every acknowledgement that was answered, belongs
\* to a run whose lease was handed out for a hash that decodes.
ReportsTypeOK ==
    /\ TypeOK
    /\ running \subseteq {l \in Lease : l.token \in 1..issued[l.job] /\ l.job \notin Garbled}
    /\ \A a \in acked : a \in Acked /\ a.lease.token \in 1..issued[a.lease.job]
    /\ \A reply \in claimed : reply \subseteq Lease
    /\ \A reply \in sweeps : reply \subseteq Entry
    /\ \A j \in JobIds : events[j] \subseteq Event /\ corrupt[j] \in Nat
    /\ losses \in 0..MaxLosses /\ mislaid \subseteq Lease

\* A run is judged once: whoever reports it, as completed, retried, failed or
\* stalled, no other event of any worker says something else of the same run.
OneVerdictPerRun == \A j \in JobIds :
    \A a, b \in Reports(j, {"completed", "retry", "failed", "stalledRetry", "stalledFailed"}) :
        a.run = b.run => a = b

\* What is reported has happened, to runs that were handed out: a terminal event is the outcome of the job, and
\* retries are announced no more often than they were counted and allowed.
ReportsBacked == ReportsTypeOK /\ \A j \in JobIds :
    /\ Reports(j, {"completed"}) # {} => outcome[j] = "completed"
    /\ Reports(j, {"failed", "stalledFailed"}) # {} => outcome[j] = "failed"
    /\ Exists(j) =>
         /\ Cardinality(Reports(j, {"error"})) <= hash[j].failures
         /\ Cardinality(Reports(j, {"retry"})) <= hash[j].maxRetries
         /\ Cardinality(Reports(j, {"stalledRetry"})) <=
              Smaller(hash[j].stalls, hash[j].maxStalls)

\* A job is reported as corrupt once if its hash is gone, and, if its hash does
\* not decode, once more for every time it was handed out: never because of a
\* sibling in the same reply.
CorruptCounted == \A j \in JobIds :
    corrupt[j] <= 1 + (IF j \in Garbled THEN issued[j] ELSE 0)

\* An undecodable sibling does not cost a job its run: a healthy job under lease
\* is in a reply under way or in a handler, unless a connection lost the reply.
HealthySiblingsRun == \A j \in active :
    Exists(j) /\ j \notin Garbled =>
        [job |-> j, token |-> hash[j].token] \in (UNION claimed) \cup running \cup mislaid

\* A job that no worker can decode does not haunt the queue: it is handed out at
\* most once more than it may stall, and it ends as failed, never as completed,
\* whatever is lost on the way.
PoisonBounded == \A j \in Garbled :
    /\ Exists(j) => issued[j] <= hash[j].maxStalls + 1
    /\ outcome[j] # "completed"

-------------------------------------------------------------------------------
(* What a comment says and the code does not do. *)

\* worker/src/scheduler/base.ts:144 of recover(): "Returns one entry per processed
\* job with its outcome".  Unless the reply is lost, each healthy entry is heard.
SiblingsReported == [][losses' = losses =>
    \A e \in UNION (sweeps \ sweeps') :
        e.outcome = "corrupt" \/ e.job \in Garbled
          \/ Told(e.run, {Stall(e)}) \subseteq events'[e.job]]_observed

===============================================================================
