---------------------------- MODULE MCWorkerRunner ----------------------------
(***************************************************************************)
(* Small instances of WorkerRunner for TLC.  One run can hold several      *)
(* small instances: the limits the processes are configured with tell      *)
(* which one a behaviour belongs to, and that one's bounds apply to it.    *)
(***************************************************************************)
EXTENDS WorkerRunner, TLC

DeletePolicy == [mode |-> "delete", ttl |-> -1, count |-> -1]
MCPolicies   == {DeletePolicy}

At(n, v)   == [limit |-> n, version |-> v]
Unlimited  == [w \in Workers |-> NoLimit]
OneAtATime == [w \in Workers |-> At(1, 1)]

NobodyLimited == {Unlimited}
AllAtOne      == {OneAtATime}
Rollouts      == {d \in [Workers -> {At(1, 1), At(2, 1), At(2, 2)}] :
                    \A v, w \in Workers : v # w => d[v] # d[w]}
EachOf        == {Unlimited, OneAtATime} \cup Rollouts
WithOrWithout == {Unlimited, OneAtATime}

Configured(d) == \A w \in Workers : runner[w].limit = d[w]

\* The bounds of an instance: jobs produced (their ids in a fixed order), with
\* how many retries and stalls together, and what may go wrong.
First == CHOOSE j \in JobIds : TRUE
Within(jobs, budget, accidents) ==
    /\ Len(born) <= jobs
    /\ born # <<>> => born[1] = First
    /\ \A j \in JobIds : Exists(j) => hash[j].maxRetries + hash[j].maxStalls = budget
    /\ happened \subseteq accidents

\* One job that may be retried or stall once, two unlimited workers, a
\* crash and a drop; two jobs and two workers at a limit of one with a crash, or
\* one of the jobs and a lost hash too; two versions of one deployment booting in
\* either order.
SafetyBounds ==
    \/ Configured(Unlimited) /\ Within(1, 1, {"drop", "crash"})
    \/ Configured(OneAtATime) /\ (Within(2, 0, {"crash"}) \/ Within(1, 0, {"crash", "hash"}))
    \/ (\E d \in Rollouts : Configured(d)) /\ Within(0, 0, {"remove"})
SafetySpec == SystemInit /\ [][SystemNext /\ SafetyBounds']_system

\* One worker with two permits and two jobs.
ShutdownBounds == born # <<>> => born[1] = First
ShutdownSpec == SystemInit /\ [][SystemNext /\ ShutdownBounds']_system /\ HungFairness

\* Two workers at a limit of one, one of which may crash, with a job and one more
\* accident; two jobs and the worker that goes on.  Only what fairness never
\* demands is bounded.
OutcomeBounds ==
    /\ born # <<>> => born[1] = First
    /\ \/ /\ Len(born) <= 1
          /\ happened \subseteq {"crash", "drop"} \/ happened \subseteq {"crash", "notice"}
       \/ /\ \A w \in Workers \ Steady : runner[w].state = "idle"
          /\ happened \subseteq {"drop", "hash"}
OutcomeSpec == SystemInit /\ [][SystemNext /\ OutcomeBounds']_system /\ OutcomeFairness

Symmetry == Permutations(Workers)
===============================================================================
