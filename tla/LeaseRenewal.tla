----------------------------- MODULE LeaseRenewal -----------------------------
(***************************************************************************)
(* The timing of one claimed job's lease: the renewer's timer in the       *)
(* worker, its extend-lock commands, the acknowledgement behind them on    *)
(* the same connection, the deadline in Redis and the sweeps that look for *)
(* expired ones.  Time is discrete and every delay is bounded: what the    *)
(* properties promise holds under these bounds and no others.              *)
(***************************************************************************)
EXTENDS Integers

CONSTANTS
    LeaseMs,        \* leaseMs
    LockRenewMs,    \* lockRenewMs after defaulting; 0 turns renewal off
    Latency,        \* bound: a command is answered or rejected this soon, outages included
    Lag,            \* bound: the event loop runs a due timer this late
    MaxMisses       \* bound: failed renewals in a row

ASSUME RenewalAssumption ==
    /\ LeaseMs \in Nat \ {0}
    /\ LockRenewMs \in Nat
    /\ Latency \in Nat
    /\ Lag \in Nat
    /\ MaxMisses \in Nat

\* lockRenewMs when the option is left out.
DefaultLockRenewMs(leaseMs) == IF leaseMs < 3 THEN 1 ELSE leaseMs \div 3

VARIABLES
    left,       \* time to the lease's deadline in Redis, 0 once it has come
    at,         \* where the renewer is
    age,        \* time since its timer was armed, or since its command was sent
    run,        \* the run of the job in the worker
    wait,       \* time since the acknowledgement was sent
    missed,     \* renewals rejected since the deadline was last moved
    swept,      \* recovery has taken the job away
    alarm       \* the worker was told "lease-lost"

renewal == <<left, at, age, run, wait, missed, swept, alarm>>

\* The command under way: the claim, or a renewal sent and then executed.
OnTheWire == {"claimed", "sent", "extended", "refused"}

RenewalInit ==
    /\ left = 0
    /\ at = "off"
    /\ age = 0
    /\ run = "unclaimed"
    /\ wait = 0
    /\ missed = 0
    /\ swept = FALSE
    /\ alarm = FALSE

-------------------------------------------------------------------------------

\* start(), and every later arming of the timer.
Arm == at' = "armed" /\ age' = 0

\* The claim script grants the lease.
LeaseGranted ==
    /\ run = "unclaimed"
    /\ run' = "running"
    /\ at' = "claimed"
    /\ left' = LeaseMs
    /\ UNCHANGED <<age, wait, missed, swept, alarm>>

\* The claim's answer starts the run and the renewer.
ClaimAnswered ==
    /\ at = "claimed"
    /\ IF LockRenewMs > 0 THEN Arm ELSE at' = "off" /\ UNCHANGED age
    /\ UNCHANGED <<left, run, wait, missed, swept, alarm>>

TimerFires ==
    /\ at = "armed"
    /\ age >= LockRenewMs
    /\ at' = "sent"
    /\ age' = 0
    /\ UNCHANGED <<left, run, wait, missed, swept, alarm>>

\* Mutant: the deadline is moved on from where it was.
ExtendFromDeadline ==
    /\ at = "sent"
    /\ at' = "extended"
    /\ left' = left + LeaseMs
    /\ missed' = 0
    /\ UNCHANGED <<age, run, wait, swept, alarm>>

\* The extend-lock script: a new deadline, unless the token or the job is gone.
ExtendLock ==
    /\ at = "sent"
    /\ IF swept \/ run = "acked"
       THEN at' = "refused" /\ UNCHANGED <<left, missed>>
       ELSE at' = "extended" /\ left' = LeaseMs /\ missed' = 0
    /\ UNCHANGED <<age, run, wait, swept, alarm>>

\* Mutant: the timer is armed again although stop() was called meanwhile.
NextRenewalUnstopped == Arm

\* The tail of a tick: the next timer, unless the run has stopped the renewer.
NextRenewal ==
    IF run = "running" THEN Arm ELSE at' = "off" /\ UNCHANGED age

Renewed ==
    /\ at = "extended"
    /\ NextRenewal
    /\ UNCHANGED <<left, run, wait, missed, swept, alarm>>

\* Mutant: an answer other than "extended" is taken for success.
LeaseLostUnseen ==
    /\ at = "refused"
    /\ NextRenewal
    /\ UNCHANGED <<left, run, wait, missed, swept, alarm>>

LeaseLost ==
    /\ at = "refused"
    /\ alarm' = TRUE
    /\ at' = "off"
    /\ UNCHANGED <<left, age, run, wait, missed, swept>>

\* Mutant: a rejected renewal is the last one.
RejectedForGood ==
    /\ at \in {"sent", "extended", "refused"}
    /\ missed < MaxMisses
    /\ at' = "off"
    /\ missed' = IF at = "extended" THEN missed ELSE missed + 1
    /\ UNCHANGED <<left, age, run, wait, swept, alarm>>

\* The command or its answer is lost: the error is reported, the next try comes
\* a full period later.
RenewalRejected ==
    /\ at \in {"sent", "extended", "refused"}
    /\ missed < MaxMisses
    /\ NextRenewal
    /\ missed' = IF at = "extended" THEN missed ELSE missed + 1
    /\ UNCHANGED <<left, run, wait, swept, alarm>>

\* The handler returns or throws: stop(), then the acknowledgement is sent.
RunEnds ==
    /\ run = "running"
    /\ at # "claimed"
    /\ run' = "acking"
    /\ at' = IF at = "armed" THEN "off" ELSE at
    /\ UNCHANGED <<left, age, wait, missed, swept, alarm>>

\* The complete or fail script, behind a renewal sent before it.
AckScript ==
    /\ run = "acking"
    /\ at # "sent"
    /\ run' = IF swept THEN "stale" ELSE "acked"
    /\ UNCHANGED <<left, at, age, wait, missed, swept, alarm>>

AckRejected ==
    /\ run = "acking"
    /\ run' = "unknown"
    /\ UNCHANGED <<left, at, age, wait, missed, swept, alarm>>

\* The recover script of any worker: a deadline that has come counts as expired.
Sweep ==
    /\ left = 0
    /\ ~ swept
    /\ run \notin {"unclaimed", "acked"}
    /\ swept' = TRUE
    /\ UNCHANGED <<left, at, age, run, wait, missed, alarm>>

\* Time passes, as long as nothing has to happen first.
Tick ==
    /\ run # "unclaimed"
    /\ at \in OnTheWire => age < Latency
    /\ at = "armed" => age < LockRenewMs + Lag
    /\ run = "acking" => wait < Latency
    /\ left' = IF left > 0 THEN left - 1 ELSE 0
    /\ age' = IF at = "off" THEN age ELSE age + 1
    /\ wait' = IF run = "acking" THEN wait + 1 ELSE wait
    /\ UNCHANGED <<at, run, missed, swept, alarm>>

RenewalNext ==
    \/ LeaseGranted \/ ClaimAnswered \/ TimerFires \/ ExtendLock
    \/ Renewed \/ LeaseLost \/ RenewalRejected
    \/ RunEnds \/ AckScript \/ AckRejected
    \/ Sweep \/ Tick

RenewalSpec == RenewalInit /\ [][RenewalNext]_renewal

\* Time passes, timers fire when due, Redis answers or the command is rejected.
RenewalFairness ==
    /\ WF_renewal(Tick) /\ WF_renewal(ClaimAnswered) /\ WF_renewal(TimerFires)
    /\ WF_renewal(ExtendLock) /\ WF_renewal(Renewed \/ LeaseLost)
FairRenewalSpec == RenewalSpec /\ RenewalFairness

-------------------------------------------------------------------------------

\* The longest time between two moves of the deadline when n renewals in a row
\* are rejected between them.
Gap == LockRenewMs + Lag + Latency
Stretch(n) == Latency + (n + 1) * Gap

\* Types and the bounds on delays.
RenewalTypeOK ==
    /\ left \in 0..LeaseMs
    /\ at \in OnTheWire \cup {"armed", "off"}
    /\ age \in Nat
    /\ at \in OnTheWire => age <= Latency
    /\ at = "armed" => age <= LockRenewMs + Lag
    /\ run \in {"unclaimed", "running", "acking", "acked", "stale", "unknown"}
    /\ wait \in 0..Latency
    /\ missed \in 0..MaxMisses
    /\ swept \in BOOLEAN
    /\ alarm \in BOOLEAN

\* The lease of a run lasts, up to the execution of its acknowledgement, through
\* as many rejected renewals as fit into it with their delays: the next period
\* counts from the answer to the last command, a rejected one waits a full period
\* for its retry, and a deadline that has come is already expired
\* (lease-renewer.ts:66, worker-runner.ts:88).
SurvivesMisses == RenewalTypeOK /\
    (LockRenewMs > 0 /\ Stretch(missed) < LeaseMs /\ run \in {"running", "acking"} => left > 0)

\* A worker is told that it lost a lease only when recovery took the job: the
\* renewer never mistakes its own finished job, whose token the ack erased, for a
\* lost one (stop() before the ack, and after it no new timer).
NoFalseAlarm == alarm => swept

\* A worker whose job was taken away learns it from a later renewal, although the
\* renewals may fail a while, unless the handler ends before.
LossNoticed == swept /\ run = "running" /\ LockRenewMs > 0 ~> alarm \/ run # "running"

===============================================================================
