---------------------------- MODULE MCWorkerProcess ----------------------------
(***************************************************************************)
(* Small instances of what a worker process is made of besides its         *)
(* runners' scripts: the local semaphore, the renewal of one lease and the *)
(* pool with its connections.  They share no variable, so a behaviour is   *)
(* of one of them while the others stay as they began.                     *)
(***************************************************************************)
EXTENDS Semaphore, LeaseRenewal, WorkerPool

CONSTANT Subjects  \* those of the three that are run

VARIABLE subject   \* the one a behaviour is about

processVars == <<semaphore, renewal, pool, subject>>

MCLockRenewMs == DefaultLockRenewMs(LeaseMs)

ProcessInit ==
    /\ SemaphoreInit
    /\ RenewalInit
    /\ PoolInit
    /\ subject \in Subjects
    /\ subject # "pool" => reachable

SemaphoreStep == subject = "semaphore" /\ SemaphoreNext /\ UNCHANGED <<renewal, pool, subject>>
RenewalStep   == subject = "renewal" /\ RenewalNext /\ UNCHANGED <<semaphore, pool, subject>>
PoolStep      == subject = "pool" /\ PoolNext /\ UNCHANGED <<semaphore, renewal, subject>>

\* What has not been called or claimed yet is asked for no step.
ProcessSpec ==
    /\ ProcessInit
    /\ [][SemaphoreStep \/ RenewalStep \/ PoolStep]_processVars
    /\ SemaphoreFairness
    /\ RenewalFairness
    /\ PoolFairness

===============================================================================
