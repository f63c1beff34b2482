# Verification of panqueue

panqueue is a job queue on Redis: producers enqueue jobs, worker processes claim
them in batches under leases, run a handler, and acknowledge the result.  All
state that matters is in Redis and every change of it is a Lua script; the worker
adds a concurrent claim loop, lease renewal, recovery sweeps and shutdown around
those scripts.  This directory models that core in TLA+: the scripts, the workers that run
them, and what each process adds around them, which is the worker pool and its
connections, the local semaphore, the timing of leases, the events users hear of,
the producer's client and the validation of payloads.  TLC checks all of it on small
instances.  TLAPS proves every safety property of it for all values of the constants;
liveness is only model-checked.

Paths below are relative to `src/packages/` unless they start with `docs/` or `apps/`.

## 1. The system

### Components

| Component | State it keeps | Operations | Correct if |
|---|---|---|---|
| Queue state and scripts (`client/src/lua`, `worker/src/lua`) | per queue: waiting list, active / completed / failed sorted sets, one hash per job, the concurrency hash, a notify channel | enqueue, claim-global-batch, complete, fail, extend-lock, requeue-active, recover, declare-concurrency-limit | a job is in one place, under one valid lease, within its budgets and the limit, and ends once |
| Retention (`worker/src/lua/retention-lua.ts`, `core/src/retention.ts`) | the two finished indexes | resolve a rule, trim after a job finishes | the newest and youngest stay; index and hashes never part |
| Worker runner (`worker/src/internal/worker-runner.ts`) | lifecycle state, claim loop, wake-up flag, in-flight entries | start, wake, stopClaiming, drainInflight, forceRequeueInflight, finalize | permits conserved, no wake-up lost, shutdown orphans no job, a job's end is reported once |
| Lease renewer, recovery sweep (`worker/src/internal`) | a timer each | start, stop, tick | a live job keeps its lease, a dead worker's job is taken over |
| Semaphore (`worker/src/semaphore.ts`) | permits, waiters | acquire (abortable), tryAcquire, release | no permit lost or invented |
| Concurrency fence (`worker/src/internal/concurrency-fence.ts`) | none | declare, refuse on conflict | workers of one version run under one limit |
| Schedulers (`worker/src/scheduler`) | none | one call per script, decoding of replies | one bad entry does not hide the others |
| Worker pool (`worker/src/worker-pool.ts`) | pool state, connections, runners, degraded flag | start, shutdown | start and shutdown compose in any order, events fire once per outage |
| Connections (`worker/src/redis-connection.ts`, `client/src/redis-connection.ts`) | a socket, a pending connect | connect, disconnect, duplicate | no socket leaks, a closed client stays closed |
| Queue client (`client/src/queue-client.ts`) | none | enqueue, connect, disconnect | one job per successful call |
| Keys, ids, serialization, types (`core/src`) | none | codecs | a hash decodes to what was encoded |
| Definitions and configuration (`worker/src/define-worker.ts`, `config/src`) | none | event types, defaults, typing | events say what happened |
| Docs site, benchmarks, demo, scripts | - | - | out of scope |

### How they interact

Producers and workers never talk to each other: they share the Redis keys of one
queue.  A script is atomic.  A worker process sends scripts over one command
connection and listens on one subscriber connection; a `PUBLISH` inside a script
wakes the claim loops of every subscribed worker.  Inside a process everything is
single-threaded JavaScript, so the interleaving points are the `await`s: a
permit, a reply, a wake-up or poll timeout, the handler, a timer.

### What is hard

* acks, renewals and requeues that arrive after the lease was swept and granted again;
* sweeps of several workers that overlap with each other and with live workers;
* a reply that is lost after its script ran, or a command Redis executes after its
  sender gave it up;
* a notification between an empty claim and the wait that follows it, and permits
  of the global limit that become free without a new pointer in the waiting list;
* shutdown while a claim or an ack is on the wire, with handlers that never return;
* batches that come back short, with corrupt entries, or not at all;
* hashes that are evicted while a list or set still names the job;
* limits that are raised, lowered, deleted, or declared twice under one version;
* start and shutdown of a pool that cross each other and outages of either
  connection, with commands kept by one client's offline queue and rejected by the
  other client;
* events emitted from replies that are read after the job has moved on;
* a job whose hash no worker can decode, alone or in a batch;
* payloads that change while their enqueue awaits the connection;
* retention bounds of zero, equal scores, a clock that is set back.

`PROJECT.json` lists each of these at its line with the properties that watch it.

## 2. The modules

| Module | Models | Depends on |
|---|---|---|
| `Retention` | retention rules, the Lua fragment on an index with scores (`Evicted`), and its coarse form without scores (`Survivors`) | - |
| `RetentionIndex` | one index through a series of finished jobs, rules and clock readings | `Retention` |
| `QueueStore` | the Redis keys of a queue and one action per script | `Retention` |
| `JobLifecycle` | abstract specification: what a queue promises about its jobs | - |
| `QueueStoreInv`, `QueueStoreLifecycle` | the inductive invariant `IInv`; the refinement mapping to `JobLifecycle` | `QueueStore` |
| `WorkerRunner` | worker processes running against `QueueStore` | `QueueStore` |
| `EventReports` | claims, acks and sweeps of any number of workers with replies that are read later, lost or undecodable, and the events that follow | `QueueStore` |
| `Semaphore` | the semaphore with its waiters and aborts | - |
| `LeaseRenewal` | one lease, its renewer and its deadline against a clock | - |
| `WorkerPool` | start, shutdown, connections and connection events of a pool of several queues | - |
| `ClientConnection` | overlapping calls of one producer and its raw client | - |
| `Payload` | validation and serialization of one payload | - |
| `QueueStoreProofs`, `QueueStoreSafety` | proofs about the store: sequences of pointers, one lemma per script, the invariants, the action properties, the refinement | `QueueStoreInv`, `QueueStoreLifecycle` |
| `RetentionProofs` | proofs about one finished index: rank and count under the order of scores, and each finish | `RetentionIndex` |
| `WorkerRunnerProofs`, `WorkerSafetyProofs` | proofs about the workers together with the store | `WorkerRunner`, `QueueStoreSafety` |
| `EventReportsProofs` | proofs about replies and events | `EventReports`, `QueueStoreSafety` |
| `WorkerProcessProofs` | proofs about the parts of a worker process | `Semaphore`, `LeaseRenewal`, `WorkerPool` |
| `ProducerProofs` | proofs about the producer's side | `ClientConnection`, `Payload` |

The MC modules give the instances: `MCQueueStore` (what Redis keeps: `QueueStore`
and `RetentionIndex`), `MCWorkerRunner`, `MCEventReports`, `MCWorkerProcess` (what a
worker process is made of: `Semaphore`, `LeaseRenewal`, `WorkerPool`) and
`MCProducer` (`ClientConnection`, `Payload`).  Where one holds several models that
share no variable, `subject` says which of them a behaviour is about; the others
stay in their initial states, so the run is the union of the models' state graphs
and no product of them.  In `MCEventReports` the variable `lossy` picks one of two
bounds, and in `MCWorkerRunner` the limits the workers are configured with do.

Operators named as mutants in their comments (`UnfencedHolds`, `WokenForgetful`,
...) are used by no action.  Each is a plausible slip in the definition that
follows it, and each property is violated when one of them takes that
definition's place.

### `QueueStore`

`waiting` is the list in RPOP order, `active` and `index` the members of the
sorted sets, `hash` the per-job hashes (status, `runs`, `failures`, `stalls`, the
budgets, the token), `conc` the concurrency hash, `published` whether the last
script published.  `Enqueue`, `Claim`, `Complete`, `FailRetry` / `FailFinal` (the
two ends of `fail.ts`), `Extend`, `RequeueActive`, `Recover` and `Declare` are the
scripts, whole: `Complete` includes retention and the conditional `PUBLISH`,
`Recover` the batch bound, the budget decision and retention.  A script that
returns early ("stale", "missing", "ignored", "conflict", an empty batch) changes
nothing and is no action here.

Abstractions:

* A lock token is the number of the run it was issued for.  The script hashes
  job id, time and `runs`; `HINCRBY runs` alone makes it unique per job.
* Deadlines are the set `expired`: a lease may expire at any moment, a renewal
  re-arms it.  Which of the expired leases a sweep's `LIMIT` selects is left open.
* Callers may present any token ever issued for a job, at any time and again and
  again (`Tokens`).  This covers every delay, duplicate and reordering of acks.
* `HashLost` drops a hash at any time (eviction, manual `DEL`); `RemoveLimit` is
  the `DEL` of the limit that `docs/SPEC.md` describes.
* Payloads, error texts, timestamps and the `delayed` key (reserved, unused by any
  script) are left out.

History variables: `born` (enqueue order), `issued` (tokens issued), `handoffs`
(shutdown requeues), `outcome` (how the job ended).

### `Retention` and `RetentionIndex`

`Evicted` is the fragment of `retention-lua.ts` statement by statement: add, drop
what is at or below `now - ttl`, then the `overflow` lowest by score and member.
`QueueStore` uses `Survivors` instead, which knows the policy but not the scores.
The clock of `RetentionIndex` may go backwards, as Redis' wall clock may; the
property `WithinSurvivors` showed that with a clock set back an old entry can
outlive a ttl of 0, so `Survivors` allows for it.

### `WorkerRunner`

One record per worker process: lifecycle `state`, position `loop` of the claim
loop, `batch` permits held by the claim under way, granted `leases` whose reply is
unread, `free` permits, `wakePending`, `inflight` entries, `handing` (requeues on
the wire) and `news` (sweep results whose reply is unread).  A command is sent,
executed and answered in three steps (`SendClaim`, `ClaimScript`,
`ClaimRefused` / `ClaimGranted`; `HandlerEnds`, `AckScript`, `AckAnswered`;
`ForceRequeue`, `RequeueScript`, `Close`).  Commands of one connection keep their
order, so an ack sent before a requeue of the same job runs before it and one sent
after it runs after it (`late`).

| Code | Actions |
|---|---|
| `worker-pool.ts` `#doStart` with `concurrency-fence.ts` | `Boot`, `StartRunner` |
| `worker-runner.ts` `#claimLoop`, `#waitForNotification`, `wake` | `SendClaim`, `LeaveLoop`, `ClaimScript`, `ClaimRefused`, `ClaimGranted`, `PollTimeout`, `Deliver` |
| `#processJob`, `#acknowledgeJob` | `HandlerEnds`, `AckScript`, `AckAnswered` |
| `lease-renewer.ts` | `Renew` |
| `stalled-recovery-sweep.ts`, `#handleRecovered` | `Sweep`, `SweepAnswered` |
| `stopClaiming`, `forceRequeueInflight`, `#doShutdown` | `StopClaiming`, `ForceRequeue`, `RequeueScript`, `Close` |

`ForceRequeue` may come at once (force mode) or after any handlers have ended
(drain, with or without a timeout that elapses).  The semaphore is a counter: its
only waiter is the claim loop.  "stale" and "missing" answers are one, since
both end a run without a terminal event.  A message that arrives between the
subscription and the start of the runner only makes the first wait return at
once and is not kept.

What may go wrong, each at most once per behaviour (`Accidents`): `drop` (the
command connection drops, what was on the wire is rejected and may or may not be
executed later, as a stray), `crash`, `hash` (a hash is evicted), `notice` (the
notifications for a worker are lost), `remove` (the limit is deleted).

### `EventReports`

Extends `QueueStore` with the replies under way (`claimed`, `acked`, `sweeps`), the
leases whose handler runs, and what was emitted (`events`, `corrupt`).  Since these
are sets, they stand for any number of workers.  `Garbled` is the set of jobs whose
hash `deserializeJobHash` refuses.

| Code | Actions |
|---|---|
| `scheduler/global.ts` `claimBatch`, `decodeClaimEntry`; dispatch in `#claimLoop` | `Claims`, `ClaimRead`, `ClaimLost` |
| `#processJob`, `#acknowledgeJob`, `scheduler/base.ts` `complete`, `fail` | `Ends`, `AckRead`, `AnswerLost`, `AckLost` |
| `scheduler/base.ts` `recover`, `parseRecoveredJobs`; `stalled-recovery-sweep.ts`; `#handleRecovered` | `Sweeps`, `SweepRead`, `SweepThrows`, `SweepLost` |

A claim is decoded entry by entry, a sweep as a whole: that difference is in the
code and is what `HealthySiblingsRun` holds for and `SiblingsReported` fails for.
Renewals and forced requeues are left to `WorkerRunner`; a lease may or may not
expire under a running handler.

### `Semaphore`

`current` and `waiters` are the fields of the class, `caller` the state of each
caller's last promise, `aborted` the signals.  `Acquire`, `TryAcquire`, `Abort` and
`Release` are the methods and the abort listener, each one synchronous call;
`Resume` is the continuation of a settled promise, so calls of others come in
between.  `HandOver` and `PutBack` are the two branches of `release`.

### `LeaseRenewal`

One claimed job in discrete time: `left` until the deadline in Redis, the
renewer's position `at` and its timer or command's `age`, the `run` up to its
acknowledgement, and the sweeps of any worker.  The claim, each renewal and the
acknowledgement take at most `Latency`, a due timer fires at most `Lag` late, and
each renewal may be rejected (`RenewalRejected`), before or after its script ran.
`SurvivesMisses` says for how many rejections in a row the lease lasts:
`Latency + (missed + 1) * (LockRenewMs + Lag + Latency) < LeaseMs`.  At the default
period of a third that is one, with some delay to spare.

### `WorkerPool`

`starting` and `stopping` are the awaits `#doStart` and `#doShutdown` are at;
`socket` and `command` say what the connections do and what has become of each
awaited command: `written`, kept by the offline queue (`queued`), or `rejected` by a
drop or a disconnect.  Claims, acks and requeues only settle here; what they do to
jobs is in `QueueStore`.  Each queue has one runner with one permit.

| Code | Actions |
|---|---|
| `worker-pool.ts` `start`, `#doStart` | `Start`, `CommandConnected`, `SubscriberConnected`, `LimitDeclared`, `ChannelSubscribed`, `StartClosed` |
| `shutdown`, `#doShutdown` | `Shutdown`, `StopClaiming`, `ClaimsStopped`, `Drained`, `DrainTimesOut`, `Requeued`, `Closed` |
| `worker-runner.ts` claim loop and runs | `Claim`, `ClaimSettled`, `Wake`, `HandlerEnds`, `AckSettled` |
| `redis-connection.ts`, `#subscriberHooks` | `SocketOpens`, `AttemptFails`, `Drop` |

Queues are declared and subscribed in any order: the order of the definitions is
the user's.  The constructor's checks (at least one definition, no queue twice,
positive limits) are assumptions on the constants.

### `ClientConnection`

One record per raw client, named by the call whose `connect` made it; `client` and
`promise` are the fields of the class.  `Connect` is the synchronous part of
`connect()`, with its four early ends, `Connected` the end of `#doConnect`, `Send`
the `client` getter and the command without an offline queue, `Lose` what a drop or
a disconnect does to commands on the wire; a `stray` may still be executed.

### `Payload`

A payload is a graph: `kind` of each value and what it `holds`.  `AssertImpl` is the
recursive check with its depth limit, `Stringified` what `JSON.stringify` and
`JSON.parse` make of the graph, defined without reference to the check.  The owner
may change containers while the call awaits its connection (`OwnerChanges`).  That
JSON takes -0 for 0 is left out.

## 3. What the runs check

| Run | Instances | States | Shows |
|---|---|---|---|
| `queue_store` | 2 jobs with budgets {0, 1}, and 3 jobs without retries; batches of 2, limits and versions {1, 2}, four policies. An index of 4 jobs, 4 clock readings, 10 rules | 287 thousand | `Placement`, `LeaseFence`, `LeaseAccounting`, `BudgetsRespected`, `NoJobVanishes`, `LimitFence`, `OutcomeFinal`, `GlobalLimit`, `CapacityAnnounced`, `FifoFirstRun`, the inductive `IInv` (which holds `TypeOK`), and that the scripts implement `JobLifecycle`; of retention `NothingDangles` and `TrimmedByRule` |
| `worker_safety` | 2 workers: 1 job that may be retried or stall once, a crash and a drop; at a limit of 1, 2 jobs and a crash, or 1 job, a crash and a lost hash; 2 of the configurations limit 1 under version 1, 2 under 1, 2 under 2, booting in either order, and the limit deleted | 1.3 million | `NoOrphanedLease`, `EndReportedOnce`, `NoLostWakeup`, `LimitInForce` |
| `worker_shutdown` | 1 worker with 2 permits, 2 jobs, a drop and a lost hash | 0.4 million | `PermitsConserved`, `ShutdownCompletes` without any assumption on handlers |
| `worker_recovery` | limit 1: 2 workers, 1 job and a crash with a drop or with lost notices; 1 worker, 2 jobs, a drop and a lost hash | 0.4 million | `EventualOutcome`, also when the only permit is held by a job whose claim or ack reply was lost |
| `event_reports` | 2 jobs, one undecodable: with a retry and nothing lost, or without retries, a lost reply and lost hashes | 3.5 million | `OneVerdictPerRun`, `ReportsBacked`, `CorruptCounted`, `HealthySiblingsRun`, `PoisonBounded` |
| `worker_process` | 4 callers of 2 permits; a lease of 30 with the default period, latency and lag 1, up to 3 rejections; 2 queues with limits in all shutdown modes | 101 thousand | `SemaphoreExact` (`QueueExact`, `PermitsExact`, `NoIdlePermit`), `Served`; `SurvivesMisses`, `NoFalseAlarm`, `LossNoticed`; `AllOrNothing` (`NoHalfStart`, `NothingLeftRunning`), `DrainComplete`, `AlarmExact`, `CallsSettle` (`StartSettles`, `ShutdownSettles`) |
| `producer` | 1 connect, 2 enqueues, 2 disconnects; graphs of 4 values, depth limit 2, one change | 336 thousand | `ConnectionsOwned` (`OneConnection`, `NothingLeftOpen`), `OutcomeTellsFate` with `StoredOnce`, `CallsEnd`, `SelfHeals`; `CheckExact` (`AcceptedIsFaithful`, `RejectedForCause`) |
| `completion_silence` | as `queue_store` | - | violated: `complete` does publish (finding) |
| `limit_removed` | 2 workers, 2 jobs, limit 1, the limit deleted | - | violated: a worker stays parked (finding) |
| `failure_event` | 2 workers, 1 job, a drop | - | violated: `onJobFailed` may never fire (finding) |
| `pool_start_hangs` | 2 queues, fairness | - | violated: `start()` may stay pending in an outage (finding) |
| `event_siblings` | as `event_reports` | - | violated: one undecodable entry hides the others' outcome (finding) |

Each type invariant is checked as part of a property that needs it: `SystemTypeOK` in
`PermitsConserved`, `ReportsTypeOK` in `ReportsBacked`, `PoolTypeOK` in `AlarmExact`, and
so on.

### Why the bounds are enough

Two jobs are the least for which order, a second place, a partial batch and a
trimmed index exist; three are the least for a contended limit of two, and there
the budgets are cut since contention does not depend on them.  Budgets 0 and 1
reach both sides of each comparison.  Limits 1 and 2 under versions 1 and 2 give a
raise, a lowering, a repeat and a conflict.  One handover per job (`MaxHandoffs`) is
a bound in `queue_store`; in the worker runs it is at least the number of workers
that can stop while holding the job, so it cuts nothing there.
`MaxNotices = 1` is exact up to coalescing: a second notice of the same wake-up
would only make an already awake loop check once more.  Times of the retention
instance span more than its largest ttl.

An accident of each kind happens at most once per behaviour, and each worker
instance allows the kinds its row names: this is the bound that hides behaviours (a
second crash, two drops).  A crash and a drop do combine, as do a crash and a lost
hash, and a crash and lost notices.  Two workers are enough for `LimitInForce`,
which relates two workers at a time: Redis keeps a single limit, and a third
declaration can only repeat, replace or be refused by it as the second can.
In the two-job instance of `worker_recovery` the worker that may stop never
starts, since the one-job instance has its interference.

Four callers over two permits leave two waiters, so that an abort can hit the
older, the newer or a served one.  A lease of 30 with a period of 10 survives two
rejections with delays of 1 to spare or not, and not three, so both sides of the
bound in `SurvivesMisses` occur.  Two queues give a conflict after a
success, a subscription after a success and a claim under way beside a loop that has
exited; the three attempts of a first dial are the code's number.  One connect, two
enqueues and two disconnects let first calls share a dial, lose it to a disconnect,
and repeat the disconnect.  Four values build chains longer than depth limit 2
allows, cycles, and shared values; graphs in which all four are containers are left out,
since a leaf ends any chain as well.  The limit is 64 in the code, and nothing
depends on the number.  `MaxLosses` bounds lost replies.

Deadlock is not checked (`CHECK_DEADLOCK FALSE`) where the system may stop: a queue
whose jobs have ended and whose workers are stopped has nothing to do, and neither
has a producer whose calls have ended.

### Fairness

`RunsOn(w)` assumes of a live process and a live connection: the event loop runs
what is ready, timers fire, sent commands are executed and answered, published
messages are delivered.  `AcksCarriedOut` says the same of acknowledgements, per
job, so that one job's progress cannot hide another's.  `HandlersReturn` assumes that
handlers return; `LeasesRunOut` that time passes a lease's deadline if nothing renews
it; `SteadyStart` that the workers in `Steady` are started.  All are weak fairness.
Nothing is assumed of producers, of the decision to stop, of accidents or of strays.

* `HungFairness`, used for `ShutdownCompletes`, is `RunsOn` and `AcksCarriedOut`
  alone: handlers that hang do not delay a forced shutdown.
* `OutcomeFairness`, used for `EventualOutcome`, asks `RunsOn` only of one worker that is
  never stopped (`Steady`), since the code promises no progress without a worker.
  Of the other worker it assumes that handlers return and sent acks are carried out: a
  handler that hangs there renews its lease for ever, and the code sets it no limit.
* `SemaphoreFairness`: settled promises resume, and whoever holds a permit returns
  it (`#processJob` releases in `finally`).  Nothing is assumed of new calls.
* `RenewalFairness`: time passes, due timers fire, Redis executes and answers, unless
  the command is rejected; `MaxMisses` ends the rejections in a row.
* `PoolFairness`: dials end, a cut network closes its sockets, continuations that can
  run do, the drain's timeout comes.  Nothing is assumed of handlers, of the network
  or of calls; `CallsSettle` supposes in its statement that
  Redis stays reachable from some point on, which is what it needs.
* `ClientFairness`: the same for the producer; `CallsEnd` needs no reachable Redis.

A lasting Redis outage is outside `RunsOn`; it is in `WorkerPool`.

## 4. What is proved

Each theorem holds for every value of the constants that the `ASSUME`s of its modules
admit: any finite set of jobs, any batch size, budgets, limits and policies, any set of
workers, any concurrency, any finite set of callers, any lease, period and delays, any
queues, calls and drops, any finite graph of values and any depth limit.

### The store

* `TypeCorrect`: `Spec => []TypeOK`.
* `Invariant`: `Spec => []IInv`.
* `PlacementHolds`, `LeaseFenceHolds`, `LeaseAccountingHolds`,
  `BudgetsRespectedHolds`, `NoJobVanishesHolds`: the state invariants.
* `FifoFirstRunHolds`: `Spec => []FifoFirstRun`.
* `GlobalLimitHolds`, `LimitFenceHolds`, `CapacityAnnouncedHolds`,
  `OutcomeFinalHolds`: the action properties.
* `Refinement`: `Spec => ImplementsLifecycle`.

The argument.  None of the five invariants is inductive.  A stale ack is harmless
because a token in a hash means that its job is active and that the token is the
last one issued; a sweep is harmless because a job in the active set is in no
other collection; both depend on each other, and on every script clearing the
token when it moves a job.  `IInv` states this job by job (`Apart`, `Consistent`,
`Accounted`, `WithinBudgets`, `Recorded`, `Absent`) together with the injectivity
of the waiting list.  `QueueStoreSafety` has one lemma per script that `IInv` is
preserved; `QueueStoreProofs` supplies what taking a prefix of, or appending to, an
injective sequence does to its range.  `SurvivorsBound` says that retention lists
only the old entries and the new ones; what exactly stays does not matter to the
invariant.  The action properties follow from `IInv` in the
current state.  The refinement maps a job to its outcome if it has one and
to the status in its hash otherwise, the lease to `issued` and the limit to `conc`,
and shows each script to be one lifecycle step or a stutter; a batched claim is
one `Grant` of a set, a sweep one `Release`.

`FifoFirstRun` compares what jobs have been issued and says nothing of the list, so it
is not inductive even with `IInv`.  `InLine` adds where the jobs stand: one that was
never run is in the list ahead of every job enqueued after it, and those were not run
either.  A claim takes a prefix of the list, which cannot pass such a job by; a retry, a
sweep or a requeue appends a job, which leaves the order of the others alone.

### Retention

* `NothingDanglesHolds`: `IndexSpec => []NothingDangles`.
* `TrimmedByRuleHolds`: `IndexSpec => TrimmedByRule`.

The fragment trims by age and by the number of entries too many; the rule speaks of
the newest entries.  The two agree because scores with members in case of ties order a
finite index totally, so an entry's rank (the number of entries before it) is a bijection
from the index to 0 .. size - 1: `OldestCount` says that the n entries of lowest
rank are n in number, and `TrimKeeps` and `NewestStay` that those left are the ones with
fewer than `count` behind them.  `TrimCount` and `FinishWithin` give the size of what
stays, and with it that `Survivors`, which `QueueStore` uses, covers every
outcome of the fragment, for any clock.  `RuleAssumption` says of the rules what their
types say: absent, a boolean, or bounds that are numbers, and a default that is there.

### The workers with the store

* `SystemIsStore`: `SystemSpec => Spec`, and `SystemLifecycle`:
  `SystemSpec => ImplementsLifecycle`.
* `PermitsConservedHolds`: `SystemSpec => []PermitsConserved`.
* `LimitInForceHolds`: `SystemSpec => []LimitInForce`.

The argument.  `QueueStore` lets callers present any token that was issued; a worker
system uses the store as specified only if it presents no other.  `SystemInv` therefore
adds to `IInv` that every lease a worker holds (`Held`: granted, in flight, or being handed
back) and every stray command carries an issued token (`AllIssued`, `StraysIssued`).
It also says where a worker's permits are (`Orderly`): a lease is at one place only, the
permits add up, and a claim under way or answered has at least as many permits as the
leases it was granted, without which its return could take `free` below zero.
`IssuedGrows` says that no script takes a token back.  The lemmas `...Keeps` say of each
action that the worker that takes it stays orderly and comes by no lease it did not
hold, `ClaimScriptGrants` that a claim's new leases are issued by the step itself, and
`StrayIsStep`, `JobIsStep`, `StoreStep` that Redis sees one script or nothing.
`SystemIsStore` follows, and with it every theorem of the store holds of a queue with its
workers, drops and crashes included.  `LimitInForce` is inductive beside `SystemInv`: a
configuration never changes (`LimitsStay`), a worker gets under way only by `Boot`, and the
stored limit gives way only to a newer version (`LimitMoves`).

* `NoOrphanedLeaseHolds`: `SystemSpec => []NoOrphanedLease`.
* `EndReportedOnceHolds`: `SystemSpec => []EndReportedOnce`.
* `NoLostWakeupHolds`: `SystemSpec => []NoLostWakeup`.

The effect lemmas of `WorkerSafetyProofs` reduce each action to what it does to the worker
that takes it and to the store; `ActiveLease` in `QueueStoreSafety` says that a job active
after a step was active under the same lease before or was just granted a new one, and
`NeverCurrentAgain` that a spent lease stays spent.

* For `NoOrphanedLease`, `LeaseInv` says of each worker (`Careful`) that a run whose
  answer came back holds a lease that is spent, that a worker hands jobs back only when
  its loop has ended, and that it is then handing back every lease that is still
  current.  `CarriesOn` and `GrantIsCarried` show that a lease is never let go of while
  it is current: it is in the reply to a claim, in flight, or being handed back.
* For `EndReportedOnce`, `ReportInv` says who owes a report (`Owes`: a run with a final answer
  unread, or a sweep result unread).  At most one worker owes one for a job, that job
  has its outcome and no report yet, and what has been told was told once and is
  the outcome.
* For `NoLostWakeup`, `WakeInv` looks at a loop before it is parked: one whose claim was
  refused and that has no wake-up pending counts as dozing, for it parks without looking
  again.  A dozing worker beside a job it could claim has a notification on its way.
  Scripts that make a claim possible publish (`CapacityAnnounced`), and a refused claim
  means that at that moment none was (`RefusedWhenFull`).

### The events

* `OneVerdictPerRunHolds`, `ReportsBackedHolds`, `CorruptCountedHolds`, `HealthySiblingsRunHolds`,
  `PoisonBoundedHolds`: the state invariants of `EventReports`, of `ReportsSpec`.
* `ReportsIsStore`: `ReportsSpec => Spec`, and `ReportsLifecycle`: `ReportsSpec => ImplementsLifecycle`.

A property of the events alone is never inductive: what will be emitted is already in
replies on their way.  So the invariant `ReportsInv` speaks of `Due`, the events that were
emitted and those that will be once a reply is read.  Reading a reply then changes
nothing, losing one only takes away, and the verdict falls when the script is
executed (`DueStep`): that ends the run, so the token can draw no second one.  `Judged`
bounds the events by the counters of the hash and by the outcome, `Followed` says where
a healthy job under lease is, `Poisoned` that a job no worker can decode is only ever
swept, so that `maxStalls` bounds its runs, and `CorruptBacked` counts reports given and
reports in unread replies against hand-outs, and against one removal of a pointer
whose hash is gone.

### Within a process

* `SemaphoreExactHolds`: `SemaphoreSpec => []SemaphoreExact`.  It is inductive as it stands:
  the exact queue makes a release find a live waiter, the exact counter makes a permit
  put back somebody's.
* `SurvivesMissesHolds` and `NoFalseAlarmHolds`: `RenewalSpec => []SurvivesMisses`,
  `RenewalSpec => []NoFalseAlarm`.  The invariant `RenewalInv` says which positions of the
  renewer and the run go together (`Phases`), bounds in each of them the time since the
  deadline was last moved (`InTime`), and keeps after a sweep that it came late
  (`SweptLate`), so that a later rejection cannot excuse it.

* `AllOrNothingHolds`, `DrainCompleteHolds`, `AlarmExactHolds`: of `PoolSpec`.  Each invariant relates an
  await to what the connections have done.  `StartCounts`: one declaration or subscription
  is awaited at a time, and what is done, awaited and still to do make up the whole, so
  the start that ends has done all of it.  `Crossing` says which positions of `start()`
  and `shutdown()` go together and `LoopsFollow` which loops they allow; `DrainCounts`
  that a drain awaits every run there is, since no loop is left to begin another;
  `AlarmCounts` ties the alarms to the flag and the flag to the subscriber's socket.

### The producer

* `ConnectionsOwnedHolds`, `OutcomeTellsFateHolds`: of `ClientSpec`.  `Owned`: the open sockets are
  the kept client's and the one of the connect under way, and while there is a promise no
  client is kept.  `Fate` says of each position of a call whether its script was executed.
* `CheckExactHolds`: `PayloadSpec => []CheckExact`.  `LevelIs` and `AssertImplIs` show that the two
  recursions have solutions, so that the functions obey their equations.  `AcceptedLevels`
  goes down the levels: each value on level n passed the check at depth n, hence
  there is no level `MaxDepth + 1`.  `RefusedForCause` goes up from that level to the
  root.  The depth limit finds every cycle because of `ShortOrEndless`: a walk as long as
  there are values meets one of them twice and can be walked on from there, so a graph
  with a last level has fewer levels than values.  The inductions use `SetInduction`,
  which speaks of a set of numbers and follows from there being no infinite descent.

### Only model-checked

All liveness properties (`ShutdownCompletes`, `EventualOutcome`, `Served`, `LossNoticed`, `CallsSettle`,
`CallsEnd`, `SelfHeals`), which are outside the prover's reach.  Every other property of the
passing runs is stated by a theorem.

## 5. Findings

Five statements in the repository differ from what the code does.  Each has a run
that shows it and `PROJECT.json` quotes both sides.  None of them breaks a safety
property of the queue's state.

* `complete` publishes although the specification document says it does not
  (`completion_silence`);
* after the limit is deleted a worker can stay parked beside waiting jobs until its
  poll interval ends (`limit_removed`);
* `onJobFailed` never fires for a job whose connection drops before the reply of the
  script that failed it (`failure_event`);
* `start()` stays pending if Redis goes away between its first connect and its last
  subscription (`pool_start_hangs`);
* one undecodable job hides the stall events of the whole batch (`event_siblings`).

Statements that the models contradict as well, seen while modelling and given no run:

* the default renewal period leaves one retry when any time passes between the
  attempts, and `worker/src/define-worker.ts:239-240` speaks of two;
* a `ClientConnectionError` is called retryable (`client/src/errors.ts:10-12`), also
  when the client was closed for good;
* `unfinishedJobs` (`worker-pool.ts:55`) counts jobs whose acknowledgement is still on
  the wire and succeeds;
* a corrupt job is reported on every grant, not once (`scheduler/global.ts:54-55`,
  `define-worker.ts:106`);
* an error thrown by a handler whose lease was swept reaches no event
  (`define-worker.ts:161`);
* `onJobRetry` may be emitted after the retry has begun elsewhere
  (`define-worker.ts:167-168`);
* a payload its owner changes while `enqueue` awaits the connection is stored
  unchecked, or its `TypeError` is reported as a connection error
  (`apps/docs/content/docs/client-overview.mdx:28` and `:127`).

## 6. Not modelled, and the plan

Next, in this order:

1. That the runner's `free` counter is what `Semaphore` promises: the claim loop as
   one caller of it, by refinement.
2. More of the pool beside `WorkerRunner`: one outage seen by all queues of a process.

Not modelled:

* single fields of a job hash (timestamps, error texts): no script decides on them;
* option types, the concurrency shorthand, the config's identity function: no state;
* host, port, TLS and backoff times: the models leave every delay open;
* event handlers that throw: `#safeEmit` catches and only reports them;
* the documentation site, benchmarks, demo and packaging scripts: not part of the
  queue.
