------------------------------ MODULE QueueStore ------------------------------
(***************************************************************************)
(* The Redis state of one panqueue queue and the Lua scripts that change   *)
(* it.  Redis runs a script atomically, so each script is one action.      *)
(*                                                                         *)
(* An operator named in a comment as a mutant, or defined just above the   *)
(* operator whose name it extends, is a wrong variant that no action uses: *)
(* it stands for a plausible slip in the code (a dropped fence, a counter  *)
(* not written) that the properties below must notice.                     *)
(*                                                                         *)
(* Time is abstracted to what the scripts ask of it: which leases have     *)
(* passed their deadline ("expired").  A lock token is the number of the   *)
(* run it was issued for (the script hashes jobId, now and runs, and runs  *)
(* alone never repeats for a job), 0 when the hash has no lockToken field. *)
(* Any caller may present any token ever issued, late or twice.            *)
(***************************************************************************)
EXTENDS Sequences, SequencesExt, Retention

CONSTANTS
    JobIds,             \* the ids generateJobId() can return
    ClaimBatch,         \* the largest count a claim asks for (claimBatchCap)
    RecoverBatch,       \* recoverBatchSize of the sweeps
    RetryBudgets,       \* the maxRetries values producers choose from
    StallBudgets,       \* the maxStalls values producers choose from
    Limits,             \* the global limits deployments declare
    Versions,           \* the versions they declare them under
    CompletedPolicies,  \* resolved retention of completed jobs
    FailedPolicies,     \* resolved retention of failed jobs
    MaxHandoffs         \* bound: shutdown requeues per job

ASSUME JobIdsAssumption == IsFiniteSet(JobIds)
ASSUME BatchAssumption ==
    /\ ClaimBatch \in Nat \ {0}
    /\ RecoverBatch \in Nat \ {0}
    /\ MaxHandoffs \in Nat
ASSUME BudgetAssumption == RetryBudgets \subseteq Nat /\ StallBudgets \subseteq Nat
ASSUME LimitAssumption ==
    /\ Limits \subseteq Nat \ {0}
    /\ Versions \subseteq Nat \ {0}
ASSUME PolicyAssumption ==
    /\ CompletedPolicies \subseteq Policies
    /\ FailedPolicies \subseteq Policies

VARIABLES
    waiting,    \* the waiting list, oldest first: LPUSH appends, RPOP takes the head
    active,     \* members of the active ZSET
    expired,    \* those whose lease deadline has passed
    hash,       \* the per-job hashes
    index,      \* members of the completed and failed ZSETs
    conc,       \* the concurrency hash: limit and version, version 0 = absent
    published,  \* whether the last script published to the notify channel
    \* history variables
    born,       \* job ids in the order of their enqueue
    issued,     \* number of lock tokens issued per job
    handoffs,   \* number of requeue_active outcomes per job
    outcome     \* how the job ended

store == <<waiting, active, expired, hash, index, conc, published>>
history == <<born, issued, handoffs, outcome>>
vars == <<store, history>>

Statuses == {"none", "waiting", "active", "completed", "failed"}
Outcomes == {"none", "completed", "failed", "lost"}

JobHash == [status : Statuses, runs : Nat, failures : Nat, stalls : Nat,
            maxRetries : Nat, maxStalls : Nat, token : Nat]

NoHash == [status |-> "none", runs |-> 0, failures |-> 0, stalls |-> 0,
           maxRetries |-> 0, maxStalls |-> 0, token |-> 0]

NoLimit == [limit |-> 0, version |-> 0]

Exists(j) == hash[j] # NoHash

Limited == conc.version # 0

\* A script that frees a permit wakes the claim loops parked at the limit.
SilentRelease == FALSE
PermitWanted == Limited /\ waiting # <<>>

\* The fence of complete, fail, extend-lock and requeue-active: the job's
\* hash is there and still carries the caller's token.
UnfencedHolds(j, token) == Exists(j)
Holds(j, token) == Exists(j) /\ hash[j].token = token

-------------------------------------------------------------------------------
\* Finalise the jobs "new" with status s; h is the hash function the script
\* has written so far.
Retain(policy, s, new, h) ==
    \E kept \in Survivors(policy, index[s], new) :
        /\ index' = [index EXCEPT ![s] = kept]
        /\ hash' = [j \in JobIds |->
                      IF j \in (index[s] \cup new) \ kept THEN NoHash ELSE h[j]]

\* The fields a script writes when a run ends with status s.
SettledTokenKept(h, s) == [h EXCEPT !.status = s]
Settled(h, s) == [h EXCEPT !.status = s, !.token = 0]
FailedUncounted(h, s) == [h EXCEPT !.status = s, !.token = 0]
Failed(h, s)  == [h EXCEPT !.status = s, !.token = 0, !.failures = h.failures + 1]
StalledCountDown(h, s) == [h EXCEPT !.status = s, !.token = 0, !.stalls = h.stalls - 1]
Stalled(h, s) == [h EXCEPT !.status = s, !.token = 0, !.stalls = h.stalls + 1]

Announced(s, new) == [j \in JobIds |-> IF j \in new THEN s ELSE outcome[j]]

-------------------------------------------------------------------------------
Init ==
    /\ waiting = <<>>
    /\ active = {}
    /\ expired = {}
    /\ hash = [j \in JobIds |-> NoHash]
    /\ index = [s \in {"completed", "failed"} |-> {}]
    /\ conc = NoLimit
    /\ published = FALSE
    /\ born = <<>>
    /\ issued = [j \in JobIds |-> 0]
    /\ handoffs = [j \in JobIds |-> 0]
    /\ outcome = [j \in JobIds |-> "none"]

\* A generated id is new, unless it collides with a hash that still exists.
Generated(j) == j \notin Range(born) \/ Exists(j)

\* Mutant: LPUSH and LPOP, a stack.
EnqueueNewestFirst(j, retries, stalls) ==
    /\ Generated(j)
    /\ ~Exists(j)
    /\ hash' = [hash EXCEPT ![j] = [NoHash EXCEPT !.status = "waiting",
                                     !.maxRetries = retries, !.maxStalls = stalls]]
    /\ waiting' = <<j>> \o waiting
    /\ published' = TRUE
    /\ born' = Append(born, j)
    /\ UNCHANGED <<active, expired, index, conc, issued, handoffs, outcome>>

Enqueue(j, retries, stalls) ==
    /\ Generated(j)
    /\ ~Exists(j)
    /\ hash' = [hash EXCEPT ![j] =
                  [NoHash EXCEPT !.status = "waiting",
                                 !.maxRetries = retries, !.maxStalls = stalls]]
    /\ waiting' = Append(waiting, j)
    /\ published' = TRUE
    /\ born' = Append(born, j)
    /\ UNCHANGED <<active, expired, index, conc, issued, handoffs, outcome>>

FreeIgnoringActive(count) == IF Limited THEN conc.limit ELSE count
Free(count) == IF Limited THEN conc.limit - Cardinality(active) ELSE count

\* How many pointers a claim for "count" jobs pops, and which of them lead to
\* a hash; the others are dropped (reported as corrupt).
BatchSize(count) == Smaller(Smaller(count, Free(count)), Len(waiting))
GrantedUnchecked(count) == Range(SubSeq(waiting, 1, BatchSize(count)))
Granted(count) == {j \in Range(SubSeq(waiting, 1, BatchSize(count))) : Exists(j)}

Run(h) == [h EXCEPT !.status = "active", !.runs = h.runs + 1, !.token = h.runs + 1]

\* The RPOP loop as one step: pointers are never duplicated (Placement), so
\* its iterations are independent.
Claim(count) ==
    /\ BatchSize(count) >= 1
    /\ waiting' = SubSeq(waiting, BatchSize(count) + 1, Len(waiting))
    /\ hash' = [j \in JobIds |-> IF j \in Granted(count) THEN Run(hash[j]) ELSE hash[j]]
    /\ active' = active \cup Granted(count)
    /\ issued' = [j \in JobIds |->
                    IF j \in Granted(count) THEN hash[j].runs + 1 ELSE issued[j]]
    /\ published' = FALSE
    /\ UNCHANGED <<expired, index, conc, born, handoffs, outcome>>

Complete(j, token, policy) ==
    /\ Holds(j, token)
    /\ active' = active \ {j}
    /\ expired' = expired \ {j}
    /\ Retain(policy, "completed", {j}, [hash EXCEPT ![j] = Settled(hash[j], "completed")])
    /\ published' = PermitWanted
    /\ outcome' = Announced("completed", {j})
    /\ UNCHANGED <<waiting, conc, born, issued, handoffs>>

FailRetry(j, token) ==
    /\ Holds(j, token)
    /\ hash[j].failures + 1 <= hash[j].maxRetries
    /\ active' = active \ {j}
    /\ expired' = expired \ {j}
    /\ hash' = [hash EXCEPT ![j] = Failed(hash[j], "waiting")]
    /\ waiting' = Append(waiting, j)
    /\ published' = TRUE
    /\ UNCHANGED <<index, conc, history>>

FailFinal(j, token, policy) ==
    /\ Holds(j, token)
    /\ hash[j].failures + 1 > hash[j].maxRetries
    /\ active' = active \ {j}
    /\ expired' = expired \ {j}
    /\ Retain(policy, "failed", {j}, [hash EXCEPT ![j] = Failed(hash[j], "failed")])
    /\ published' = PermitWanted
    /\ outcome' = Announced("failed", {j})
    /\ UNCHANGED <<waiting, conc, born, issued, handoffs>>

\* Re-arms an expired lease too, as long as no sweep has taken it.
Extend(j, token) ==
    /\ Holds(j, token)
    /\ j \in active
    /\ expired' = expired \ {j}
    /\ published' = FALSE
    /\ UNCHANGED <<waiting, active, hash, index, conc, history>>

RequeueActive(j, token) ==
    /\ handoffs[j] < MaxHandoffs
    /\ Holds(j, token)
    /\ active' = active \ {j}
    /\ expired' = expired \ {j}
    /\ hash' = [hash EXCEPT ![j] = Settled(hash[j], "waiting")]
    /\ waiting' = Append(waiting, j)
    /\ published' = TRUE
    /\ handoffs' = [handoffs EXCEPT ![j] = @ + 1]
    /\ UNCHANGED <<index, conc, born, issued, outcome>>

\* The expired leases one sweep takes, in an order the deadlines decide.
Candidates ==
    {S \in SUBSET expired : Cardinality(S) = Smaller(RecoverBatch, Cardinality(expired))}

PresentUnchecked(swept) == swept
Present(swept) == {j \in swept : Exists(j)}
RetriedOnceMore(swept) == {j \in Present(swept) : hash[j].stalls <= hash[j].maxStalls}
Retried(swept) == {j \in Present(swept) : hash[j].stalls + 1 <= hash[j].maxStalls}
Dead(swept)    == Present(swept) \ Retried(swept)

Recovered(swept) == [j \in JobIds |->
    IF j \in Retried(swept) THEN Stalled(hash[j], "waiting")
    ELSE IF j \in Dead(swept) THEN Stalled(hash[j], "failed")
    ELSE hash[j]]

Recover(policy) == \E swept \in Candidates :
    /\ swept # {}
    /\ active' = active \ swept
    /\ expired' = expired \ swept
    /\ \E order \in SetToSeqs(Retried(swept)) : waiting' = waiting \o order
    /\ IF Dead(swept) = {} THEN index' = index /\ hash' = Recovered(swept)
                           ELSE Retain(policy, "failed", Dead(swept), Recovered(swept))
    /\ published' = (Retried(swept) # {} \/ PermitWanted)
    /\ outcome' = Announced("failed", Dead(swept))
    /\ UNCHANGED <<conc, born, issued, handoffs>>

\* Mutant: a second declaration under the stored version overwrites the first.
DeclareUnfenced(limit, version) ==
    /\ version >= conc.version
    /\ conc' = [limit |-> limit, version |-> version]
    /\ published' = FALSE
    /\ UNCHANGED <<waiting, active, expired, hash, index, history>>

Declare(limit, version) ==
    /\ version > conc.version
    /\ conc' = [limit |-> limit, version |-> version]
    /\ published' = FALSE
    /\ UNCHANGED <<waiting, active, expired, hash, index, history>>

-------------------------------------------------------------------------------
(* The environment: the clock, and what an operator or Redis eviction does. *)

LeaseExpires(j) ==
    /\ j \in active \ expired
    /\ expired' = expired \cup {j}
    /\ published' = FALSE
    /\ UNCHANGED <<waiting, active, hash, index, conc, history>>

\* The hash of a job goes away while a list or a set still names the job.
HashLost(j) ==
    /\ Exists(j)
    /\ hash' = [hash EXCEPT ![j] = NoHash]
    /\ outcome' = [outcome EXCEPT ![j] = IF @ = "none" THEN "lost" ELSE @]
    /\ published' = FALSE
    /\ UNCHANGED <<waiting, active, expired, index, conc, born, issued, handoffs>>

\* DEL {q}:concurrency, the documented way to remove a limit.
RemoveLimit ==
    /\ Limited
    /\ conc' = NoLimit
    /\ published' = FALSE
    /\ UNCHANGED <<waiting, active, expired, hash, index, history>>

-------------------------------------------------------------------------------
\* The tokens a caller can hold: every one issued so far.
Tokens(j) == 1..issued[j]

Ack(j) == \E token \in Tokens(j) :
    \/ \E policy \in CompletedPolicies : Complete(j, token, policy)
    \/ FailRetry(j, token)
    \/ \E policy \in FailedPolicies : FailFinal(j, token, policy)
    \/ Extend(j, token)
    \/ RequeueActive(j, token)

Next ==
    \/ \E j \in JobIds, retries \in RetryBudgets, stalls \in StallBudgets :
           Enqueue(j, retries, stalls)
    \/ \E count \in 1..ClaimBatch : Claim(count)
    \/ \E j \in JobIds : Ack(j)
    \/ \E policy \in FailedPolicies : Recover(policy)
    \/ \E limit \in Limits, version \in Versions : Declare(limit, version)
    \/ \E j \in JobIds : LeaseExpires(j)
    \/ \E j \in JobIds : HashLost(j)
    \/ RemoveLimit

Spec == Init /\ [][Next]_vars

-------------------------------------------------------------------------------
Pointers == Range(waiting)
IndexSets == index["completed"] \cup index["failed"]

\* Every variable has the shape its Redis key has.
TypeOK ==
    /\ waiting \in Seq(JobIds)
    /\ active \subseteq JobIds
    /\ expired \subseteq active
    /\ hash \in [JobIds -> JobHash]
    /\ index \in [{"completed", "failed"} -> SUBSET JobIds]
    /\ conc \in [limit : Nat, version : Nat]
    /\ published \in BOOLEAN
    /\ born \in Seq(JobIds)
    /\ issued \in [JobIds -> Nat]
    /\ handoffs \in [JobIds -> Nat]
    /\ outcome \in [JobIds -> Outcomes]

\* A job id is in at most one of the waiting list, the active set and the two
\* indexes, at most once, whatever acks arrive late or twice and whatever
\* sweeps run beside them; a hash names the place its job is really in.
NoDuplicatePointer == IsInjective(waiting)
OnePlace ==
    /\ Pointers \cap active = {}
    /\ (Pointers \cup active) \cap IndexSets = {}
    /\ index["completed"] \cap index["failed"] = {}
StatusNamesPlace == \A j \in JobIds : Exists(j) =>
    CASE hash[j].status = "waiting"   -> j \in Pointers
      [] hash[j].status = "active"    -> j \in active
      [] hash[j].status = "completed" -> j \in index["completed"]
      [] hash[j].status = "failed"    -> j \in index["failed"]
      [] OTHER                        -> FALSE
Placement == NoDuplicatePointer /\ OnePlace /\ StatusNamesPlace

\* A hash carries a lock token exactly while its job is in the active set, and
\* it is the last token issued: an older lease can never be acknowledged,
\* extended or handed back, and extend-lock's "token matches but the job is
\* not active" branch is never taken.
LeaseFence == \A j \in JobIds : Exists(j) =>
    /\ hash[j].token # 0 <=> j \in active
    /\ hash[j].token # 0 => hash[j].token = issued[j]
    /\ hash[j].runs = issued[j]

\* Every run of a job is accounted for exactly once: as a handler failure, a
\* stall, a shutdown hand-back, the run in progress or the one that completed.
LeaseAccounting == \A j \in JobIds : Exists(j) =>
    hash[j].runs = hash[j].failures + hash[j].stalls + handoffs[j]
                     + (IF hash[j].status \in {"active", "completed"} THEN 1 ELSE 0)

\* A job that can still run has exceeded neither budget; a failed one has
\* exceeded exactly one of them, by one.
BudgetsRespected == \A j \in JobIds : Exists(j) =>
    IF hash[j].status = "failed"
    THEN \/ hash[j].failures = hash[j].maxRetries + 1 /\ hash[j].stalls <= hash[j].maxStalls
         \/ hash[j].failures <= hash[j].maxRetries /\ hash[j].stalls = hash[j].maxStalls + 1
    ELSE hash[j].failures <= hash[j].maxRetries /\ hash[j].stalls <= hash[j].maxStalls

\* No job vanishes: an enqueued job has an outcome, or its hash exists and it
\* is waiting or active, so some claim or some sweep will reach it.
NoJobVanishes == \A j \in Range(born) :
    outcome[j] = "none" <=> hash[j].status \in {"waiting", "active"}

\* First runs are granted in enqueue order: a job has run only if every job
\* enqueued before it has run or its hash is gone.  Retries go to the back of
\* the list, so they never overtake a job that has not run.
FifoFirstRun == \A i, k \in DOMAIN born :
    i < k /\ issued[born[k]] > 0 => issued[born[i]] > 0 \/ ~Exists(born[i])

-------------------------------------------------------------------------------
\* However claims, sweeps, late acks and renewals interleave, a step that adds
\* to the active set leaves it within the declared global limit.  (A lower
\* limit may find more jobs active than it allows; they are let finish.)
GlobalLimit ==
    [][(Limited /\ ~(active' \subseteq active)) => Cardinality(active') <= conc.limit]_vars

\* The stored limit is replaced only under a higher version, or removed.
LimitFence ==
    [][conc' # conc => conc'.version > conc.version \/ conc' = NoLimit]_vars

\* Whether a claim would find both a pointer and a free global permit.
Claimable == waiting # <<>> /\ (~Limited \/ Cardinality(active) < conc.limit)

\* No script makes a job claimable in silence: a step under an unchanged limit
\* after which a claim can succeed and before which it could not publishes a
\* notification, so a parked claim loop hears of it.
CapacityAnnounced ==
    [][(conc' = conc /\ ~Claimable /\ Claimable') => published']_vars

\* An outcome is final: a job that completed, failed or was lost is never
\* requeued, claimed, or given another outcome or another hash.
OutcomeFinal ==
    [][\A j \in JobIds : outcome[j] # "none" =>
          /\ outcome'[j] = outcome[j]
          /\ j \in active' => j \in active
          /\ j \in Range(waiting)' => j \in Range(waiting)
          /\ ~Exists(j) => ~Exists(j)']_vars

-------------------------------------------------------------------------------
\* What docs/SPEC.md:623 says and the code does not do: "The `complete` script
\* does not `PUBLISH` to `notify`".
CompletionSilent ==
    [][\A j \in JobIds : outcome[j] = "none" /\ outcome'[j] = "completed" => ~published']_vars

===============================================================================
