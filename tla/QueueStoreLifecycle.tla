-------------------------- MODULE QueueStoreLifecycle --------------------------
(* How the Redis state of a queue maps to the life of its jobs. *)
EXTENDS QueueStoreInv

\* A job that ended is in the phase it ended in, even if retention or eviction
\* removed its hash; any other job is where its status says.
Phase == [j \in JobIds |-> IF outcome[j] # "none" THEN outcome[j] ELSE hash[j].status]

Capacity == IF Limited THEN conc.limit ELSE 0

Lifecycle == INSTANCE JobLifecycle WITH phase <- Phase, lease <- issued, limit <- Capacity

\* The scripts of a queue, in any order and with any late, repeated or stale
\* call, implement the lifecycle: every step of them is a step of it or none.
ImplementsLifecycle == Lifecycle!Spec

===============================================================================
