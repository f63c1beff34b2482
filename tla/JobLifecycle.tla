----------------------------- MODULE JobLifecycle -----------------------------
(***************************************************************************)
(* What a panqueue queue promises its producers and workers, without       *)
(* lists, sets, hashes, tokens or clocks: a job is leased to one run at a  *)
(* time, leases are numbered and never granted twice, a run ends once, a   *)
(* job that ended stays ended, and a grant respects the capacity limit.    *)
(***************************************************************************)
EXTENDS Naturals, FiniteSets

CONSTANT JobIds

VARIABLES
    phase,  \* where each job is in its life
    lease,  \* the number of the last lease granted for it
    limit   \* how many jobs may be active, 0 = any number

vars == <<phase, lease, limit>>

InPhase(p) == {j \in JobIds : phase[j] = p}

Moved(S, p) == [j \in JobIds |-> IF j \in S THEN p ELSE phase[j]]

Init ==
    /\ phase = [j \in JobIds |-> "none"]
    /\ lease = [j \in JobIds |-> 0]
    /\ limit = 0

Submit(j) ==
    /\ phase[j] = "none"
    /\ phase' = Moved({j}, "waiting")
    /\ UNCHANGED <<lease, limit>>

\* A batch of waiting jobs gets fresh leases, within the limit.
Grant(S) ==
    /\ S \subseteq InPhase("waiting")
    /\ limit # 0 => Cardinality(InPhase("active") \cup S) <= limit
    /\ phase' = Moved(S, "active")
    /\ lease' = [j \in JobIds |-> IF j \in S THEN lease[j] + 1 ELSE lease[j]]
    /\ UNCHANGED limit

Complete(j) ==
    /\ phase[j] = "active"
    /\ phase' = Moved({j}, "completed")
    /\ UNCHANGED <<lease, limit>>

\* Runs end without success: some jobs wait for another run, some have failed.
Release(back, dead) ==
    /\ back \cup dead \subseteq InPhase("active")
    /\ back \cap dead = {}
    /\ phase' = [j \in JobIds |-> IF j \in back THEN "waiting"
                                  ELSE IF j \in dead THEN "failed" ELSE phase[j]]
    /\ UNCHANGED <<lease, limit>>

\* A job whose data is gone is not run again.
Lose(j) ==
    /\ phase[j] \in {"waiting", "active"}
    /\ phase' = Moved({j}, "lost")
    /\ UNCHANGED <<lease, limit>>

SetLimit ==
    /\ limit' \in Nat
    /\ UNCHANGED <<phase, lease>>

Next ==
    \/ \E j \in JobIds : Submit(j) \/ Complete(j) \/ Lose(j)
    \/ \E S \in SUBSET JobIds : Grant(S)
    \/ \E back, dead \in SUBSET JobIds : Release(back, dead)
    \/ SetLimit

Spec == Init /\ [][Next]_vars

===============================================================================
