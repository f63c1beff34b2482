---------------------------- MODULE QueueStoreInv ----------------------------
(***************************************************************************)
(* The inductive invariant of QueueStore, job by job: where a job's hash,  *)
(* its pointers, its lock token and its history must agree.                *)
(***************************************************************************)
EXTENDS QueueStore

\* A job id is in at most one of the four collections.
Apart(j) ==
    /\ j \in Range(waiting) => j \notin active
    /\ j \in Range(waiting) \/ j \in active =>
         j \notin index["completed"] /\ j \notin index["failed"]
    /\ j \in index["completed"] => j \notin index["failed"]

\* Status, place, token and outcome go together.
Consistent(j) ==
    \/ /\ hash[j].status = "waiting" /\ j \in Range(waiting)
       /\ hash[j].token = 0 /\ outcome[j] = "none"
    \/ /\ hash[j].status = "active" /\ j \in active
       /\ hash[j].token = hash[j].runs /\ hash[j].runs # 0 /\ outcome[j] = "none"
    \/ /\ hash[j].status = "completed" /\ j \in index["completed"]
       /\ hash[j].token = 0 /\ outcome[j] = "completed"
    \/ /\ hash[j].status = "failed" /\ j \in index["failed"]
       /\ hash[j].token = 0 /\ outcome[j] = "failed"

Accounted(j) ==
    hash[j].runs = hash[j].failures + hash[j].stalls + handoffs[j]
                     + (IF hash[j].status \in {"active", "completed"} THEN 1 ELSE 0)

WithinBudgets(j) ==
    IF hash[j].status = "failed"
    THEN \/ hash[j].failures = hash[j].maxRetries + 1 /\ hash[j].stalls <= hash[j].maxStalls
         \/ hash[j].failures <= hash[j].maxRetries /\ hash[j].stalls = hash[j].maxStalls + 1
    ELSE hash[j].failures <= hash[j].maxRetries /\ hash[j].stalls <= hash[j].maxStalls

Recorded(j) ==
    hash[j] # NoHash => /\ j \in Range(born)
                        /\ hash[j].runs = issued[j]
                        /\ Consistent(j)
                        /\ Accounted(j)
                        /\ WithinBudgets(j)

\* Before its enqueue an id appears nowhere; a hash goes only with an outcome.
Absent(j) ==
    /\ hash[j] = NoHash /\ j \in Range(born) => outcome[j] # "none"
    /\ j \notin Range(born) =>
         /\ hash[j] = NoHash /\ issued[j] = 0 /\ handoffs[j] = 0 /\ outcome[j] = "none"
         /\ j \notin Range(waiting) /\ j \notin active
         /\ j \notin index["completed"] /\ j \notin index["failed"]

JobInv(j) == Apart(j) /\ Recorded(j) /\ Absent(j)

IInv == TypeOK /\ IsInjective(waiting) /\ \A j \in JobIds : JobInv(j)

===============================================================================
