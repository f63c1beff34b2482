-------------------------- MODULE QueueStoreSafety --------------------------
(***************************************************************************)
(* The inductive invariant of a queue's Redis state is preserved by every  *)
(* script, and implies the safety properties the runs check; no step       *)
(* exceeds the global limit, weakens its fence, frees capacity in silence, *)
(* changes the outcome of a job, or makes a spent lease current again;     *)
(* first runs are granted in enqueue order; and each script is a step of   *)
(* the abstract lifecycle, or none.                                        *)
(***************************************************************************)
EXTENDS QueueStoreLifecycle, QueueStoreProofs

\* The fields of a hash after a run began or ended.
LEMMA HashFields ==
    ASSUME NEW h \in JobHash, NEW s \in Statuses
    PROVE  /\ Settled(h, s).status = s /\ Settled(h, s).token = 0
           /\ Settled(h, s).runs = h.runs /\ Settled(h, s).failures = h.failures
           /\ Settled(h, s).stalls = h.stalls
           /\ Settled(h, s).maxRetries = h.maxRetries /\ Settled(h, s).maxStalls = h.maxStalls
           /\ Failed(h, s).status = s /\ Failed(h, s).token = 0
           /\ Failed(h, s).runs = h.runs /\ Failed(h, s).failures = h.failures + 1
           /\ Failed(h, s).stalls = h.stalls
           /\ Failed(h, s).maxRetries = h.maxRetries /\ Failed(h, s).maxStalls = h.maxStalls
           /\ Stalled(h, s).status = s /\ Stalled(h, s).token = 0
           /\ Stalled(h, s).runs = h.runs /\ Stalled(h, s).failures = h.failures
           /\ Stalled(h, s).stalls = h.stalls + 1
           /\ Stalled(h, s).maxRetries = h.maxRetries /\ Stalled(h, s).maxStalls = h.maxStalls
           /\ Run(h).status = "active" /\ Run(h).token = h.runs + 1
           /\ Run(h).runs = h.runs + 1 /\ Run(h).failures = h.failures
           /\ Run(h).stalls = h.stalls
           /\ Run(h).maxRetries = h.maxRetries /\ Run(h).maxStalls = h.maxStalls
BY DEF JobHash, Settled, Failed, Stalled, Run

\* The fields of a hash are of their types; a hash with a status exists.
LEMMA HashShape ==
    ASSUME NEW h \in JobHash
    PROVE  /\ h.runs \in Nat /\ h.failures \in Nat /\ h.stalls \in Nat
           /\ h.maxRetries \in Nat /\ h.maxStalls \in Nat /\ h.token \in Nat
           /\ h.status # "none" => h # NoHash
BY DEF JobHash, NoHash

\* Who presents the token a hash carries holds the lease of a running job.
LEMMA HolderIsActive ==
    ASSUME TypeOK, NEW j \in JobIds, JobInv(j), NEW token \in Tokens(j), Holds(j, token)
    PROVE  /\ hash[j].status = "active" /\ j \in active /\ outcome[j] = "none"
           /\ j \notin Range(waiting)
           /\ j \notin index["completed"] /\ j \notin index["failed"]
           /\ hash[j] # NoHash /\ j \in Range(born) /\ hash[j].runs = issued[j]
           /\ Accounted(j) /\ WithinBudgets(j) /\ token = issued[j]
<1>1. token # 0 /\ hash[j] # NoHash /\ hash[j].token = token
  BY DEF Tokens, Holds, Exists, TypeOK
<1>2. Consistent(j) /\ Accounted(j) /\ WithinBudgets(j) /\ j \in Range(born) /\ hash[j].runs = issued[j]
  BY <1>1 DEF JobInv, Recorded
<1>3. hash[j].status = "active" /\ j \in active /\ outcome[j] = "none" /\ hash[j].token = hash[j].runs
  BY <1>1, <1>2 DEF Consistent
<1> QED BY <1>1, <1>2, <1>3 DEF JobInv, Apart

\* A job whose hash, places and history a step leaves alone keeps its invariant.
LEMMA Untouched ==
    ASSUME NEW i \in JobIds, JobInv(i),
           hash'[i] = hash[i],
           i \in Range(waiting)' <=> i \in Range(waiting),
           i \in active' <=> i \in active,
           i \in index'["completed"] <=> i \in index["completed"],
           i \in index'["failed"] <=> i \in index["failed"],
           i \in Range(born)' <=> i \in Range(born),
           issued'[i] = issued[i], handoffs'[i] = handoffs[i], outcome'[i] = outcome[i]
    PROVE  JobInv(i)'
BY DEF JobInv, Apart, Recorded, Consistent, Accounted, WithinBudgets, Absent

-------------------------------------------------------------------------------
\* An empty Redis satisfies the invariant.
LEMMA InvInit == Init => IInv
<1> SUFFICES ASSUME Init PROVE IInv
  OBVIOUS
<1>1. TypeOK
  BY TypeInit
<1>2. Range(waiting) = {} /\ IsInjective(waiting) /\ Range(born) = {}
  BY DEF Init, Range, IsInjective
<1>3. ASSUME NEW j \in JobIds PROVE JobInv(j)
  BY <1>2 DEF Init, JobInv, Apart, Recorded, Absent
<1> QED BY <1>1, <1>2, <1>3 DEF IInv

\* A new id is nowhere yet, so its one pointer and its hash agree.
LEMMA InvEnqueue ==
    ASSUME IInv, NEW j \in JobIds, NEW retries \in RetryBudgets, NEW stalls \in StallBudgets,
           Enqueue(j, retries, stalls)
    PROVE  IInv'
<1>1. TypeOK /\ TypeOK' /\ \A i \in JobIds : JobInv(i)
  BY TypeEnqueue DEF IInv
<1>2. hash[j] = NoHash /\ j \notin Range(born)
  BY DEF Enqueue, Generated, Exists
<1>3. /\ issued[j] = 0 /\ handoffs[j] = 0 /\ outcome[j] = "none"
      /\ j \notin Range(waiting) /\ j \notin active
      /\ j \notin index["completed"] /\ j \notin index["failed"]
  BY <1>1, <1>2 DEF JobInv, Absent
<1>4. Range(waiting)' = Range(waiting) \cup {j} /\ Range(born)' = Range(born) \cup {j}
  BY <1>1, AppendElements DEF Enqueue, TypeOK
<1>5. IsInjective(waiting)'
  BY <1>1, <1>3, AppendInjection DEF Enqueue, TypeOK, IInv
<1>6. ASSUME NEW i \in JobIds PROVE JobInv(i)'
  <2>1. CASE i # j
    BY <1>1, <1>4, <2>1, Untouched DEF Enqueue, TypeOK
  <2>2. CASE i = j
    <3>1. /\ hash'[j].status = "waiting" /\ hash'[j].runs = 0 /\ hash'[j].failures = 0
          /\ hash'[j].stalls = 0 /\ hash'[j].token = 0
          /\ hash'[j].maxRetries = retries /\ hash'[j].maxStalls = stalls
      BY <1>1 DEF Enqueue, TypeOK, NoHash
    <3>2. retries \in Nat /\ stalls \in Nat
      BY BudgetAssumption
    <3>3. /\ issued'[j] = 0 /\ handoffs'[j] = 0 /\ outcome'[j] = "none" /\ j \notin active'
          /\ j \notin index'["completed"] /\ j \notin index'["failed"]
      BY <1>3 DEF Enqueue
    <3>4. Apart(j)' /\ Absent(j)'
      BY <1>4, <3>1, <3>3 DEF Apart, Absent, NoHash
    <3>5. Consistent(j)' /\ Accounted(j)' /\ WithinBudgets(j)'
      BY <1>4, <3>1, <3>2, <3>3 DEF Consistent, Accounted, WithinBudgets
    <3> QED BY <1>4, <2>2, <3>1, <3>3, <3>4, <3>5 DEF JobInv, Recorded
  <2> QED BY <2>1, <2>2
<1> QED BY <1>1, <1>5, <1>6 DEF IInv

\* A claimed job leaves the list for the active set with a fresh token;
\* a pointer without a hash is dropped.
LEMMA InvClaim ==
    ASSUME IInv, NEW count \in 1..ClaimBatch, Claim(count)
    PROVE  IInv'
<1>1. TypeOK /\ TypeOK' /\ \A i \in JobIds : JobInv(i)
  BY TypeClaim DEF IInv
<1>2. /\ Granted(count) \subseteq Range(waiting)
      /\ Range(waiting)' \subseteq Range(waiting)
      /\ \A j \in Range(waiting) : Exists(j) => j \in Range(waiting)' \/ j \in Granted(count)
      /\ IsInjective(waiting)'
      /\ Granted(count) \cap Range(waiting)' = {}
  BY <1>1, ClaimSplit DEF IInv
<1>3. \A j \in Granted(count) : hash[j] # NoHash
  BY DEF Granted, Exists
<1>4. UNCHANGED <<index, born, handoffs, outcome>> /\ Range(born)' = Range(born)
  BY DEF Claim
<1>5. ASSUME NEW i \in JobIds PROVE JobInv(i)'
  <2>1. CASE i \in Granted(count)
    <3>1. hash[i] # NoHash /\ i \in Range(waiting) /\ i \notin Range(waiting)' /\ JobInv(i)
      BY <1>1, <1>2, <1>3, <2>1
    <3>2. /\ Consistent(i) /\ Accounted(i) /\ WithinBudgets(i)
          /\ i \in Range(born) /\ hash[i].runs = issued[i]
      BY <3>1 DEF JobInv, Recorded
    <3>3. /\ i \notin active /\ i \notin index["completed"] /\ i \notin index["failed"]
          /\ hash[i].status = "waiting" /\ outcome[i] = "none"
      BY <3>1, <3>2 DEF JobInv, Apart, Consistent
    <3>4. hash'[i] = Run(hash[i]) /\ issued'[i] = hash[i].runs + 1 /\ i \in active'
      BY <2>1 DEF Claim
    <3>5. /\ hash'[i].status = "active" /\ hash'[i].token = hash[i].runs + 1
          /\ hash'[i].runs = hash[i].runs + 1 /\ hash'[i].failures = hash[i].failures
          /\ hash'[i].stalls = hash[i].stalls
          /\ hash'[i].maxRetries = hash[i].maxRetries /\ hash'[i].maxStalls = hash[i].maxStalls
      BY <1>1, <3>4, HashFields DEF TypeOK, Statuses
    <3>6. hash[i].runs \in Nat /\ hash[i].failures \in Nat /\ hash[i].stalls \in Nat /\ handoffs[i] \in Nat
      BY <1>1, HashShape DEF TypeOK
    <3>7. Apart(i)' /\ Absent(i)'
      BY <1>4, <3>1, <3>2, <3>3, <3>4, <3>5 DEF Apart, Absent, NoHash
    <3>8. Consistent(i)'
      BY <1>4, <3>3, <3>4, <3>5, <3>6 DEF Consistent
    <3>9. Accounted(i)' /\ WithinBudgets(i)'
      BY <1>4, <3>2, <3>3, <3>5, <3>6 DEF Accounted, WithinBudgets
    <3> QED BY <1>4, <3>2, <3>4, <3>5, <3>7, <3>8, <3>9 DEF JobInv, Recorded
  <2>2. CASE i \notin Granted(count)
    <3>1. hash'[i] = hash[i] /\ issued'[i] = issued[i] /\ (i \in active' <=> i \in active)
      BY <2>2 DEF Claim
    <3>2. CASE i \in Range(waiting)' <=> i \in Range(waiting)
      BY <1>1, <1>4, <3>1, <3>2, Untouched
    <3>3. CASE i \in Range(waiting) /\ i \notin Range(waiting)'
      <4>1. hash[i] = NoHash
        BY <1>2, <2>2, <3>3 DEF Exists
      <4> QED BY <1>1, <1>4, <3>1, <3>3, <4>1 DEF JobInv, Apart, Recorded, Absent
    <3> QED BY <1>2, <3>2, <3>3
  <2> QED BY <2>1, <2>2
<1> QED BY <1>1, <1>2, <1>5 DEF IInv

-------------------------------------------------------------------------------
\* Retention trims a finished job that is not being settled now: its hash and
\* its index entry go together, and its outcome is already recorded.
LEMMA RetainBystander ==
    ASSUME TypeOK, NEW s \in {"completed", "failed"}, NEW new, NEW kept,
           kept \subseteq index[s] \cup new, index' = [index EXCEPT ![s] = kept],
           NEW i \in JobIds, i \notin new, JobInv(i),
           hash'[i] = IF i \in (index[s] \cup new) \ kept THEN NoHash ELSE hash[i],
           i \in Range(waiting)' <=> i \in Range(waiting),
           i \in active' <=> i \in active,
           i \in Range(born)' <=> i \in Range(born),
           issued'[i] = issued[i], handoffs'[i] = handoffs[i], outcome'[i] = outcome[i]
    PROVE  JobInv(i)'
<1>1. /\ index'[s] = kept
      /\ \A r \in {"completed", "failed"} : r # s => index'[r] = index[r]
  BY DEF TypeOK
<1>2. CASE i \in index[s] \ kept
  <2>1. /\ i \notin Range(waiting) /\ i \notin active
        /\ \A r \in {"completed", "failed"} : r # s => i \notin index[r]
    BY <1>2 DEF JobInv, Apart
  <2>2. hash'[i] = NoHash /\ i \notin index'["completed"] /\ i \notin index'["failed"]
    BY <1>1, <1>2, <2>1
  <2>3. i \in Range(born)
    BY <1>2 DEF JobInv, Absent
  <2>4. outcome[i] # "none"
    BY <2>1, <2>3 DEF JobInv, Recorded, Consistent, Absent
  <2> QED BY <2>1, <2>2, <2>3, <2>4 DEF JobInv, Apart, Recorded, Absent
<1>3. CASE i \notin index[s] \ kept
  <2>1. hash'[i] = hash[i] /\ (i \in kept <=> i \in index[s])
    BY <1>3
  <2>2. /\ i \in index'["completed"] <=> i \in index["completed"]
        /\ i \in index'["failed"] <=> i \in index["failed"]
    BY <1>1, <2>1
  <2> QED BY <2>1, <2>2, Untouched
<1> QED BY <1>2, <1>3

\* A job settled now is kept with its final hash or removed with it.
LEMMA RetainFinished ==
    ASSUME TypeOK, TypeOK', NEW s \in {"completed", "failed"}, NEW new, NEW kept,
           kept \subseteq index[s] \cup new, index' = [index EXCEPT ![s] = kept],
           NEW i \in JobIds, i \in new, NEW f \in JobHash,
           hash'[i] = IF i \in (index[s] \cup new) \ kept THEN NoHash ELSE f,
           f.status = s, f.token = 0, f.runs = issued'[i],
           s = "completed" => f.runs = f.failures + f.stalls + handoffs'[i] + 1,
           s = "failed" => f.runs = f.failures + f.stalls + handoffs'[i],
           IF s = "failed"
           THEN \/ f.failures = f.maxRetries + 1 /\ f.stalls <= f.maxStalls
                \/ f.failures <= f.maxRetries /\ f.stalls = f.maxStalls + 1
           ELSE f.failures <= f.maxRetries /\ f.stalls <= f.maxStalls,
           i \notin Range(waiting)', i \notin active',
           i \notin index["completed"], i \notin index["failed"],
           i \in Range(born)', outcome'[i] = s
    PROVE  JobInv(i)'
<1>1. /\ index'[s] = kept
      /\ \A r \in {"completed", "failed"} : r # s => i \notin index'[r]
  BY DEF TypeOK
<1>2. CASE i \in kept
  <2>1. hash'[i] = f
    BY <1>2
  <2>2. Apart(i)' /\ Absent(i)'
    BY <1>1, <1>2 DEF Apart, Absent
  <2>3. Consistent(i)'
    BY <1>1, <1>2, <2>1 DEF Consistent
  <2>4. Accounted(i)' /\ WithinBudgets(i)'
    <3>1. f.failures \in Nat /\ f.stalls \in Nat /\ handoffs'[i] \in Nat
      BY HashShape DEF TypeOK
    <3> QED BY <2>1, <3>1 DEF Accounted, WithinBudgets
  <2> QED BY <2>1, <2>2, <2>3, <2>4 DEF JobInv, Recorded
<1>3. CASE i \notin kept
  <2>1. hash'[i] = NoHash
    BY <1>3
  <2> QED BY <1>1, <1>3, <2>1 DEF JobInv, Apart, Recorded, Absent
<1> QED BY <1>2, <1>3

\* complete settles one running job; retention may remove finished ones.
LEMMA InvComplete ==
    ASSUME IInv, NEW j \in JobIds, NEW token \in Tokens(j), NEW policy \in CompletedPolicies,
           Complete(j, token, policy)
    PROVE  IInv'
<1>1. TypeOK /\ TypeOK' /\ \A i \in JobIds : JobInv(i)
  BY TypeAck DEF IInv, Ack
<1>2. /\ hash[j].status = "active" /\ j \in active /\ j \notin Range(waiting)
      /\ j \notin index["completed"] /\ j \notin index["failed"]
      /\ j \in Range(born) /\ hash[j].runs = issued[j] /\ Accounted(j) /\ WithinBudgets(j)
  BY <1>1, HolderIsActive DEF Complete
<1> DEFINE h == [hash EXCEPT ![j] = Settled(hash[j], "completed")]
<1>3. h \in [JobIds -> JobHash]
  <2>1. Settled(hash[j], "completed") \in JobHash
    BY <1>1, HashUpdates DEF TypeOK, Statuses
  <2> QED BY <1>1, <2>1 DEF TypeOK
<1>4. PICK kept \in SUBSET JobIds : Retained(kept, "completed", {j}, h)
  <2>1. /\ Retain(policy, "completed", {j}, h)
        /\ policy \in Policies /\ {j} \in SUBSET JobIds
        /\ index \in [{"completed", "failed"} -> SUBSET JobIds]
    BY <1>1, PolicyAssumption DEF Complete, TypeOK
  <2> HIDE DEF h
  <2> QED BY <1>3, <2>1, RetainEffect
<1>5. /\ UNCHANGED <<waiting, born, issued, handoffs>>
      /\ Range(waiting)' = Range(waiting) /\ Range(born)' = Range(born)
      /\ active' = active \ {j}
      /\ outcome' = [i \in JobIds |-> IF i \in {j} THEN "completed" ELSE outcome[i]]
  BY DEF Complete, Announced
<1>6. ASSUME NEW i \in JobIds, i # j PROVE JobInv(i)'
  <2>1. hash'[i] = IF i \in (index["completed"] \cup {j}) \ kept THEN NoHash ELSE hash[i]
    BY <1>1, <1>4, <1>6 DEF TypeOK, Retained
  <2>2. /\ i \in active' <=> i \in active
        /\ outcome'[i] = outcome[i] /\ i \notin {j}
    BY <1>5, <1>6
  <2> HIDE DEF h
  <2> QED BY <1>1, <1>4, <1>5, <2>1, <2>2, RetainBystander DEF Retained
<1>7. JobInv(j)'
  <2> DEFINE f == Settled(hash[j], "completed")
  <2>1. hash'[j] = IF j \in (index["completed"] \cup {j}) \ kept THEN NoHash ELSE f
    BY <1>1, <1>4 DEF TypeOK, Retained
  <2>2. /\ f \in JobHash /\ f.status = "completed" /\ f.token = 0 /\ f.runs = hash[j].runs
        /\ f.failures = hash[j].failures /\ f.stalls = hash[j].stalls
        /\ f.maxRetries = hash[j].maxRetries /\ f.maxStalls = hash[j].maxStalls
    BY <1>1, HashUpdates, HashFields DEF TypeOK, Statuses
  <2> HIDE DEF f, h
  <2>3. /\ f.runs = issued'[j]
        /\ f.runs = f.failures + f.stalls + handoffs'[j] + 1
        /\ f.failures <= f.maxRetries /\ f.stalls <= f.maxStalls
    BY <1>2, <1>5, <2>2 DEF Accounted, WithinBudgets
  <2> QED BY <1>1, <1>2, <1>4, <1>5, <2>1, <2>2, <2>3, RetainFinished DEF Retained
<1> QED BY <1>1, <1>5, <1>6, <1>7 DEF IInv

\* fail settles a job whose failure budget is exceeded by this run.
LEMMA InvFailFinal ==
    ASSUME IInv, NEW j \in JobIds, NEW token \in Tokens(j), NEW policy \in FailedPolicies,
           FailFinal(j, token, policy)
    PROVE  IInv'
<1>1. TypeOK /\ TypeOK' /\ \A i \in JobIds : JobInv(i)
  BY TypeAck DEF IInv, Ack
<1>2. /\ hash[j].status = "active" /\ j \in active /\ j \notin Range(waiting)
      /\ j \notin index["completed"] /\ j \notin index["failed"]
      /\ j \in Range(born) /\ hash[j].runs = issued[j] /\ Accounted(j) /\ WithinBudgets(j)
  BY <1>1, HolderIsActive DEF FailFinal
<1> DEFINE h == [hash EXCEPT ![j] = Failed(hash[j], "failed")]
<1>3. h \in [JobIds -> JobHash]
  <2>1. Failed(hash[j], "failed") \in JobHash
    BY <1>1, HashUpdates DEF TypeOK, Statuses
  <2> QED BY <1>1, <2>1 DEF TypeOK
<1>4. PICK kept \in SUBSET JobIds : Retained(kept, "failed", {j}, h)
  <2>1. /\ Retain(policy, "failed", {j}, h)
        /\ policy \in Policies /\ {j} \in SUBSET JobIds
        /\ index \in [{"completed", "failed"} -> SUBSET JobIds]
    BY <1>1, PolicyAssumption DEF FailFinal, TypeOK
  <2> HIDE DEF h
  <2> QED BY <1>3, <2>1, RetainEffect
<1>5. /\ UNCHANGED <<waiting, born, issued, handoffs>>
      /\ Range(waiting)' = Range(waiting) /\ Range(born)' = Range(born)
      /\ active' = active \ {j}
      /\ outcome' = [i \in JobIds |-> IF i \in {j} THEN "failed" ELSE outcome[i]]
  BY DEF FailFinal, Announced
<1>6. ASSUME NEW i \in JobIds, i # j PROVE JobInv(i)'
  <2>1. hash'[i] = IF i \in (index["failed"] \cup {j}) \ kept THEN NoHash ELSE hash[i]
    BY <1>1, <1>4, <1>6 DEF TypeOK, Retained
  <2>2. /\ i \in active' <=> i \in active
        /\ outcome'[i] = outcome[i] /\ i \notin {j}
    BY <1>5, <1>6
  <2> HIDE DEF h
  <2> QED BY <1>1, <1>4, <1>5, <2>1, <2>2, RetainBystander DEF Retained
<1>7. JobInv(j)'
  <2> DEFINE f == Failed(hash[j], "failed")
  <2>1. hash'[j] = IF j \in (index["failed"] \cup {j}) \ kept THEN NoHash ELSE f
    BY <1>1, <1>4 DEF TypeOK, Retained
  <2>2. /\ f \in JobHash /\ f.status = "failed" /\ f.token = 0 /\ f.runs = hash[j].runs
        /\ f.failures = hash[j].failures + 1 /\ f.stalls = hash[j].stalls
        /\ f.maxRetries = hash[j].maxRetries /\ f.maxStalls = hash[j].maxStalls
    BY <1>1, HashUpdates, HashFields DEF TypeOK, Statuses
  <2> HIDE DEF f, h
  <2>3. /\ f.runs = issued'[j]
        /\ f.runs = f.failures + f.stalls + handoffs'[j]
        /\ f.failures = f.maxRetries + 1 /\ f.stalls <= f.maxStalls
    <3>1. /\ hash[j].failures \in Nat /\ hash[j].maxRetries \in Nat /\ hash[j].stalls \in Nat
          /\ handoffs[j] \in Nat /\ hash[j].failures + 1 > hash[j].maxRetries
      BY <1>1, HashShape DEF TypeOK, FailFinal
    <3>2. /\ hash[j].runs = hash[j].failures + hash[j].stalls + handoffs[j] + 1
          /\ hash[j].failures <= hash[j].maxRetries /\ hash[j].stalls <= hash[j].maxStalls
      BY <1>2 DEF Accounted, WithinBudgets
    <3>3. f.runs = issued'[j] /\ handoffs'[j] = handoffs[j]
      BY <1>2, <1>5, <2>2
    <3>4. f.runs = f.failures + f.stalls + handoffs[j]
      BY <2>2, <3>1, <3>2
    <3>5. f.failures = f.maxRetries + 1
      BY <2>2, <3>1, <3>2
    <3>6. f.stalls <= f.maxStalls
      BY <2>2, <3>2
    <3> QED BY <3>3, <3>4, <3>5, <3>6
  <2>4. /\ kept \subseteq index["failed"] \cup {j}
        /\ index' = [index EXCEPT !["failed"] = kept]
    BY <1>4 DEF Retained
  <2>5. j \notin Range(waiting)' /\ j \notin active' /\ j \in Range(born)' /\ outcome'[j] = "failed"
    BY <1>2, <1>5
  <2> QED BY <1>1, <1>2, <2>1, <2>2, <2>3, <2>4, <2>5, RetainFinished
<1> QED BY <1>1, <1>5, <1>6, <1>7 DEF IInv

\* The counters of a run that ended: one of two grew by one.
LEMMA OneCounterMore ==
    ASSUME NEW h \in JobHash, NEW f \in JobHash, NEW hands \in Nat, NEW hands1 \in Nat,
           f.runs = h.runs, f.stalls = h.stalls,
           h.runs = h.failures + h.stalls + hands + 1,
           hands1 + f.failures = hands + h.failures + 1
    PROVE  f.runs = f.failures + f.stalls + hands1
<1>1. /\ h.failures \in Nat /\ h.stalls \in Nat /\ h.runs \in Nat
      /\ f.failures \in Nat /\ f.stalls \in Nat /\ f.runs \in Nat
  BY HashShape
<1> QED BY <1>1

\* A run that goes back to the waiting list, accounted for by one counter.
LEMMA BackInLine ==
    ASSUME IInv, TypeOK', NEW j \in JobIds, NEW token \in Tokens(j), Holds(j, token),
           NEW f \in JobHash, hash' = [hash EXCEPT ![j] = f],
           f.status = "waiting", f.token = 0, f.runs = hash[j].runs,
           f.failures \in {hash[j].failures, hash[j].failures + 1}, f.failures <= f.maxRetries,
           f.stalls = hash[j].stalls,
           f.maxRetries = hash[j].maxRetries, f.maxStalls = hash[j].maxStalls,
           handoffs'[j] + f.failures = handoffs[j] + hash[j].failures + 1,
           \A i \in JobIds : i # j => handoffs'[i] = handoffs[i],
           active' = active \ {j}, waiting' = Append(waiting, j),
           UNCHANGED <<index, born, issued, outcome>>
    PROVE  IInv'
<1>1. TypeOK /\ \A i \in JobIds : JobInv(i)
  BY DEF IInv
<1>2. /\ hash[j].status = "active" /\ j \in active /\ j \notin Range(waiting)
      /\ j \notin index["completed"] /\ j \notin index["failed"] /\ outcome[j] = "none"
      /\ j \in Range(born) /\ hash[j].runs = issued[j] /\ Accounted(j) /\ WithinBudgets(j)
  BY <1>1, HolderIsActive
<1>3. Range(waiting)' = Range(waiting) \cup {j} /\ Range(born)' = Range(born)
  BY <1>1, AppendElements DEF TypeOK
<1>4. IsInjective(waiting)'
  BY <1>1, <1>2, AppendInjection DEF TypeOK, IInv
<1>5. ASSUME NEW i \in JobIds, i # j PROVE JobInv(i)'
  <2>1. hash'[i] = hash[i] /\ (i \in active' <=> i \in active)
    BY <1>1, <1>5 DEF TypeOK
  <2> QED BY <1>1, <1>3, <1>5, <2>1, Untouched
<1>6. JobInv(j)'
  <2>1. hash'[j] = f /\ handoffs'[j] \in Nat /\ handoffs[j] \in Nat
    BY <1>1 DEF TypeOK
  <2>2. /\ hash[j].failures \in Nat /\ hash[j].stalls \in Nat /\ hash[j].runs \in Nat
        /\ f.failures \in Nat /\ f.stalls \in Nat /\ f # NoHash
    BY <1>1, HashShape DEF TypeOK
  <2>3. Apart(j)' /\ Absent(j)'
    BY <1>2, <1>3, <2>1, <2>2 DEF Apart, Absent
  <2>4. Consistent(j)'
    BY <1>2, <1>3, <2>1 DEF Consistent
  <2>5. Accounted(j)'
    <3>1. hash[j].runs = hash[j].failures + hash[j].stalls + handoffs[j] + 1
      BY <1>2 DEF Accounted
    <3>2. f.runs = f.failures + f.stalls + handoffs'[j]
      BY <1>1, <2>1, <3>1, OneCounterMore DEF TypeOK
    <3> DEFINE total == f.failures + f.stalls + handoffs'[j]
    <3>3. total \in Nat /\ f.runs = total
      BY <2>1, <2>2, <3>2
    <3> HIDE DEF total
    <3>4. f.runs = total + (IF f.status \in {"active", "completed"} THEN 1 ELSE 0)
      BY <3>3
    <3> QED BY <2>1, <3>4 DEF Accounted, total
  <2>6. WithinBudgets(j)'
    BY <1>2, <2>1 DEF WithinBudgets
  <2> QED BY <1>2, <1>3, <2>1, <2>3, <2>4, <2>5, <2>6 DEF JobInv, Recorded
<1> QED BY <1>4, <1>5, <1>6 DEF IInv

\* fail puts a job whose failure is within budget back in line.
LEMMA InvFailRetry ==
    ASSUME IInv, NEW j \in JobIds, NEW token \in Tokens(j), FailRetry(j, token)
    PROVE  IInv'
<1>1. TypeOK /\ TypeOK' /\ hash[j] \in JobHash /\ Failed(hash[j], "waiting") \in JobHash
  BY TypeAck, HashUpdates DEF IInv, Ack, TypeOK, Statuses
<1> DEFINE f == Failed(hash[j], "waiting")
<1>2. /\ f.status = "waiting" /\ f.token = 0 /\ f.runs = hash[j].runs
      /\ f.failures = hash[j].failures + 1 /\ f.stalls = hash[j].stalls
      /\ f.maxRetries = hash[j].maxRetries /\ f.maxStalls = hash[j].maxStalls
  BY <1>1, HashFields DEF Statuses
<1>3. /\ hash[j].failures \in Nat /\ handoffs[j] \in Nat
      /\ hash[j].failures + 1 <= hash[j].maxRetries
  BY <1>1, HashShape DEF TypeOK, FailRetry
<1>4. /\ Holds(j, token) /\ hash' = [hash EXCEPT ![j] = f]
      /\ active' = active \ {j} /\ waiting' = Append(waiting, j)
      /\ UNCHANGED <<index, born, issued, handoffs, outcome>>
  BY DEF FailRetry, history
<1> HIDE DEF f
<1>5. handoffs'[j] + f.failures = handoffs[j] + hash[j].failures + 1
  BY <1>2, <1>3, <1>4
<1> QED BY <1>1, <1>2, <1>3, <1>4, <1>5, BackInLine DEF f

\* A hand-back puts a running job back in line and spends no budget.
LEMMA InvRequeueActive ==
    ASSUME IInv, NEW j \in JobIds, NEW token \in Tokens(j), RequeueActive(j, token)
    PROVE  IInv'
<1>1. TypeOK /\ TypeOK' /\ hash[j] \in JobHash /\ Settled(hash[j], "waiting") \in JobHash
  BY TypeAck, HashUpdates DEF IInv, Ack, TypeOK, Statuses
<1> DEFINE f == Settled(hash[j], "waiting")
<1>2. /\ f.status = "waiting" /\ f.token = 0 /\ f.runs = hash[j].runs
      /\ f.failures = hash[j].failures /\ f.stalls = hash[j].stalls
      /\ f.maxRetries = hash[j].maxRetries /\ f.maxStalls = hash[j].maxStalls
  BY <1>1, HashFields DEF Statuses
<1>3. hash[j].failures \in Nat /\ handoffs[j] \in Nat
  BY <1>1, HashShape DEF TypeOK
<1>4. /\ Holds(j, token) /\ hash' = [hash EXCEPT ![j] = f]
      /\ active' = active \ {j} /\ waiting' = Append(waiting, j)
      /\ handoffs' = [handoffs EXCEPT ![j] = handoffs[j] + 1]
      /\ UNCHANGED <<index, born, issued, outcome>>
  BY DEF RequeueActive
<1>5. hash[j].failures <= hash[j].maxRetries
  BY <1>1, <1>4, HolderIsActive DEF IInv, WithinBudgets
<1> HIDE DEF f
<1>6. /\ handoffs'[j] + f.failures = handoffs[j] + hash[j].failures + 1
      /\ \A i \in JobIds : i # j => handoffs'[i] = handoffs[i]
  BY <1>1, <1>2, <1>3, <1>4 DEF TypeOK
<1> QED BY <1>1, <1>2, <1>4, <1>5, <1>6, BackInLine DEF f

\* extend-lock changes no job.
LEMMA InvExtend ==
    ASSUME IInv, NEW j \in JobIds, NEW token \in Tokens(j), Extend(j, token)
    PROVE  IInv'
<1>1. TypeOK' /\ \A i \in JobIds : JobInv(i)
  BY TypeAck DEF IInv, Ack
<1>2. UNCHANGED <<waiting, active, hash, index, born, issued, handoffs, outcome>>
  BY DEF Extend, history
<1>3. \A i \in JobIds : JobInv(i)'
  BY <1>1, <1>2, Untouched
<1> QED BY <1>1, <1>2, <1>3 DEF IInv

\* The jobs a sweep takes that still have a hash are running; with the stall
\* counted they are within the stall budget (retried) or one beyond it (dead).
LEMMA SweptIsActive ==
    ASSUME IInv, NEW swept \in Candidates, NEW i \in swept
    PROVE  /\ i \in JobIds /\ i \in active /\ i \notin Range(waiting)
           /\ i \notin index["completed"] /\ i \notin index["failed"] /\ i \in Range(born)
           /\ hash[i] # NoHash =>
                /\ hash[i].runs = issued[i] /\ outcome[i] = "none"
                /\ hash[i].runs = hash[i].failures + hash[i].stalls + handoffs[i] + 1
                /\ hash[i].failures <= hash[i].maxRetries /\ hash[i].stalls <= hash[i].maxStalls
<1>1. TypeOK /\ i \in JobIds /\ i \in active /\ JobInv(i)
  BY SweepFacts DEF IInv
<1>2. /\ i \notin Range(waiting) /\ i \notin index["completed"] /\ i \notin index["failed"]
      /\ i \in Range(born)
  BY <1>1 DEF JobInv, Apart, Absent
<1>3. ASSUME hash[i] # NoHash
      PROVE  /\ hash[i].runs = issued[i] /\ outcome[i] = "none"
             /\ hash[i].runs = hash[i].failures + hash[i].stalls + handoffs[i] + 1
             /\ hash[i].failures <= hash[i].maxRetries /\ hash[i].stalls <= hash[i].maxStalls
  <2>1. Consistent(i) /\ Accounted(i) /\ WithinBudgets(i) /\ hash[i].runs = issued[i]
    BY <1>1, <1>3 DEF JobInv, Recorded
  <2>2. hash[i].status = "active" /\ outcome[i] = "none"
    BY <1>2, <2>1 DEF Consistent
  <2> QED BY <2>1, <2>2 DEF Accounted, WithinBudgets
<1> QED BY <1>1, <1>2, <1>3

\* The counters of a run that ended in a stall.
LEMMA OneStallMore ==
    ASSUME NEW h \in JobHash, NEW s \in Statuses, NEW hands \in Nat,
           h.runs = h.failures + h.stalls + hands + 1,
           h.failures <= h.maxRetries, h.stalls <= h.maxStalls
    PROVE  /\ Stalled(h, s) \in JobHash
           /\ Stalled(h, s).status = s /\ Stalled(h, s).token = 0
           /\ Stalled(h, s).runs = h.runs
           /\ Stalled(h, s).runs = Stalled(h, s).failures + Stalled(h, s).stalls + hands
           /\ Stalled(h, s).failures <= Stalled(h, s).maxRetries
           /\ h.stalls + 1 <= h.maxStalls => Stalled(h, s).stalls <= Stalled(h, s).maxStalls
           /\ ~(h.stalls + 1 <= h.maxStalls) => Stalled(h, s).stalls = Stalled(h, s).maxStalls + 1
<1>1. /\ h.failures \in Nat /\ h.stalls \in Nat /\ h.runs \in Nat /\ h.maxStalls \in Nat
  BY HashShape
<1>2. /\ Stalled(h, s).status = s /\ Stalled(h, s).token = 0
      /\ Stalled(h, s).runs = h.runs /\ Stalled(h, s).failures = h.failures
      /\ Stalled(h, s).stalls = h.stalls + 1
      /\ Stalled(h, s).maxRetries = h.maxRetries /\ Stalled(h, s).maxStalls = h.maxStalls
  BY HashFields
<1>3. Stalled(h, s) \in JobHash
  BY HashUpdates
<1> HIDE DEF Stalled
<1> QED BY <1>1, <1>2, <1>3

\* A stalled job within its budget is back in the waiting list.
LEMMA RetriedJob ==
    ASSUME IInv, TypeOK', NEW swept \in Candidates, NEW i \in Retried(swept),
           hash'[i] = Stalled(hash[i], "waiting"), i \in Range(waiting)', i \notin active',
           i \notin index'["completed"], i \notin index'["failed"],
           outcome'[i] = outcome[i], issued'[i] = issued[i], handoffs'[i] = handoffs[i],
           i \in Range(born)'
    PROVE  JobInv(i)'
<1>1. /\ i \in swept /\ i \in JobIds /\ hash[i] # NoHash
      /\ hash[i].stalls + 1 <= hash[i].maxStalls
  BY SweepFacts DEF Retried, Present, Exists, IInv
<1>2. hash[i] \in JobHash /\ handoffs[i] \in Nat
  BY <1>1 DEF IInv, TypeOK
<1> DEFINE f == Stalled(hash[i], "waiting")
<1>3. /\ f \in JobHash /\ f.status = "waiting" /\ f.token = 0 /\ f.runs = hash[i].runs
      /\ f.runs = f.failures + f.stalls + handoffs[i]
      /\ f.failures <= f.maxRetries /\ f.stalls <= f.maxStalls
  BY <1>1, <1>2, SweptIsActive, OneStallMore DEF Statuses
<1>4. f.runs = issued[i] /\ outcome[i] = "none"
  BY <1>1, <1>3, SweptIsActive
<1>5. f # NoHash /\ f.failures \in Nat /\ f.stalls \in Nat
  BY <1>3, HashShape
<1> HIDE DEF f
<1>6. hash'[i] = f
  BY DEF f
<1>7. Apart(i)' /\ Absent(i)'
  BY <1>5, <1>6 DEF Apart, Absent
<1>8. Consistent(i)'
  BY <1>3, <1>4, <1>6 DEF Consistent
<1>9. Accounted(i)' /\ WithinBudgets(i)'
  BY <1>2, <1>3, <1>5, <1>6 DEF Accounted, WithinBudgets
<1> QED BY <1>3, <1>4, <1>6, <1>7, <1>8, <1>9 DEF JobInv, Recorded

\* A pointer without a hash leaves the active set and nothing else changes.
LEMMA CorruptJob ==
    ASSUME IInv, NEW swept \in Candidates, NEW i \in swept, hash[i] = NoHash, hash'[i] = NoHash,
           i \notin Range(waiting)', i \notin active',
           i \notin index'["completed"], i \notin index'["failed"],
           outcome'[i] = outcome[i], i \in Range(born)'
    PROVE  JobInv(i)'
<1>1. JobInv(i) /\ i \in Range(born)
  BY SweptIsActive DEF IInv
<1> QED BY <1>1 DEF JobInv, Apart, Recorded, Absent

\* A sweep leaves each expired lease retried, dead or dropped.
LEMMA InvRecover ==
    ASSUME IInv, NEW policy \in FailedPolicies, Recover(policy)
    PROVE  IInv'
<1>1. TypeOK /\ TypeOK' /\ \A i \in JobIds : JobInv(i)
  BY TypeRecover DEF IInv
<1>2. PICK swept \in Candidates :
        /\ active' = active \ swept
        /\ \E order \in SetToSeqs(Retried(swept)) : waiting' = waiting \o order
        /\ IF Dead(swept) = {} THEN index' = index /\ hash' = Recovered(swept)
                               ELSE Retain(policy, "failed", Dead(swept), Recovered(swept))
        /\ outcome' = Announced("failed", Dead(swept))
        /\ UNCHANGED <<conc, born, issued, handoffs>>
  BY Zenon DEF Recover
<1> DEFINE retried == Retried(swept)
           dead == Dead(swept)
           written == Recovered(swept)
<1>3. PICK order \in SetToSeqs(Retried(swept)) : waiting' = waiting \o order
  BY <1>2
<1>4. /\ swept \subseteq JobIds /\ retried \subseteq swept /\ dead \subseteq swept
      /\ retried \cap dead = {}
      /\ order \in Seq(JobIds) /\ IsInjective(order) /\ Range(order) = retried
      /\ \A i \in swept : hash[i] # NoHash => i \in retried \/ i \in dead
      /\ \A i \in retried \cup dead : hash[i] # NoHash
  BY <1>1, SweepFacts DEF Retried, Dead, Present, Exists
<1>5. Range(waiting)' = Range(waiting) \cup retried /\ Range(born)' = Range(born)
  BY <1>1, <1>2, <1>3, <1>4, RangeConcatenation DEF TypeOK
<1>6. IsInjective(waiting)'
  <2>1. Range(waiting) \cap Range(order) = {}
    BY <1>4, SweptIsActive
  <2> QED BY <1>1, <1>3, <1>4, <2>1, ConcatInjection DEF IInv, TypeOK
<1>7. written \in [JobIds -> JobHash]
  BY <1>1, HashUpdates DEF TypeOK, Recovered, Statuses
<1>8. PICK kept \in SUBSET JobIds : Retained(kept, "failed", dead, written)
  <2>1. CASE dead = {}
    <3>1. index["failed"] \in SUBSET JobIds
      BY <1>1 DEF TypeOK
    <3>2. /\ index' = [index EXCEPT !["failed"] = index["failed"]]
          /\ hash' = written
      BY <1>1, <1>2, <2>1 DEF TypeOK
    <3> QED BY <2>1, <3>1, <3>2 DEF Retained
  <2>2. CASE dead # {}
    <3>1. /\ Retain(policy, "failed", dead, written)
          /\ policy \in Policies /\ dead \in SUBSET JobIds
          /\ index \in [{"completed", "failed"} -> SUBSET JobIds]
      BY <1>1, <1>2, <1>4, <2>2, PolicyAssumption DEF TypeOK
    <3> HIDE DEF dead, written
    <3> QED BY <1>7, <3>1, RetainEffect
  <2> QED BY <2>1, <2>2
<1>9. ASSUME NEW i \in JobIds
      PROVE  /\ hash'[i] = IF i \in (index["failed"] \cup dead) \ kept THEN NoHash ELSE written[i]
             /\ written[i] = IF i \in retried THEN Stalled(hash[i], "waiting")
                             ELSE IF i \in dead THEN Stalled(hash[i], "failed") ELSE hash[i]
             /\ outcome'[i] = IF i \in dead THEN "failed" ELSE outcome[i]
             /\ issued'[i] = issued[i] /\ handoffs'[i] = handoffs[i]
             /\ i \in active' <=> i \in active /\ i \notin swept
             /\ index' = [index EXCEPT !["failed"] = kept] /\ kept \subseteq index["failed"] \cup dead
  BY <1>2, <1>8 DEF Retained, Recovered, Announced
<1>10. index'["failed"] = kept /\ index'["completed"] = index["completed"]
  BY <1>1, <1>8 DEF Retained, TypeOK
<1> HIDE DEF retried, dead, written
<1>11. ASSUME NEW i \in JobIds PROVE JobInv(i)'
  <2>1. CASE i \in retried
    <3>1. /\ i \notin index["completed"] /\ i \notin index["failed"] /\ i \notin dead
          /\ i \in Range(born) /\ i \in swept
      BY <1>4, <2>1, SweptIsActive
    <3>2. hash'[i] = Stalled(hash[i], "waiting") /\ outcome'[i] = outcome[i]
      BY <1>9, <2>1, <3>1
    <3>3. i \notin index'["completed"] /\ i \notin index'["failed"]
      BY <1>9, <1>10, <3>1
    <3> QED BY <1>1, <1>5, <1>9, <2>1, <3>1, <3>2, <3>3, RetriedJob DEF retried
  <2>2. CASE i \in dead
    <3>1. /\ i \in swept /\ i \notin retried /\ hash[i] # NoHash
          /\ i \notin Range(waiting) /\ i \notin index["completed"] /\ i \notin index["failed"]
          /\ i \in Range(born) /\ hash[i].runs = issued[i]
          /\ hash[i].runs = hash[i].failures + hash[i].stalls + handoffs[i] + 1
          /\ hash[i].failures <= hash[i].maxRetries /\ hash[i].stalls <= hash[i].maxStalls
      BY <1>4, <2>2, SweptIsActive
    <3>2. ~(hash[i].stalls + 1 <= hash[i].maxStalls)
      BY <2>2 DEF dead, Dead, Retried
    <3>3. hash[i] \in JobHash /\ handoffs[i] \in Nat
      BY <1>1 DEF TypeOK
    <3> DEFINE f == Stalled(hash[i], "failed")
    <3>4. /\ f \in JobHash /\ f.status = "failed" /\ f.token = 0 /\ f.runs = hash[i].runs
          /\ f.runs = f.failures + f.stalls + handoffs[i]
          /\ f.failures <= f.maxRetries /\ f.stalls = f.maxStalls + 1
      BY <3>1, <3>2, <3>3, OneStallMore DEF Statuses
    <3>5. hash'[i] = IF i \in (index["failed"] \cup dead) \ kept THEN NoHash ELSE f
      BY <1>9, <2>2, <3>1
    <3> HIDE DEF f
    <3>6. /\ f.runs = issued'[i] /\ f.runs = f.failures + f.stalls + handoffs'[i]
          /\ outcome'[i] = "failed" /\ i \notin Range(waiting)' /\ i \notin active'
          /\ i \in Range(born)'
      BY <1>5, <1>9, <2>2, <3>1, <3>4
    <3> QED BY <1>1, <1>9, <2>2, <3>1, <3>4, <3>5, <3>6, RetainFinished
  <2>3. CASE i \in swept /\ i \notin retried /\ i \notin dead
    <3>1. /\ hash[i] = NoHash /\ i \notin Range(waiting)
          /\ i \notin index["completed"] /\ i \notin index["failed"] /\ i \in Range(born)
      BY <1>4, <2>3, SweptIsActive
    <3>2. /\ hash'[i] = NoHash /\ outcome'[i] = outcome[i] /\ i \notin active'
          /\ i \notin Range(waiting)' /\ i \in Range(born)'
          /\ i \notin index'["completed"] /\ i \notin index'["failed"]
      BY <1>5, <1>9, <1>10, <2>3, <3>1
    <3> QED BY <2>3, <3>1, <3>2, CorruptJob
  <2>4. CASE i \notin swept
    <3>1. i \notin retried /\ i \notin dead
      BY <1>4, <2>4
    <3>2. /\ hash'[i] = IF i \in (index["failed"] \cup dead) \ kept THEN NoHash ELSE hash[i]
          /\ outcome'[i] = outcome[i] /\ issued'[i] = issued[i] /\ handoffs'[i] = handoffs[i]
          /\ i \in active' <=> i \in active
          /\ i \in Range(waiting)' <=> i \in Range(waiting)
          /\ i \in Range(born)' <=> i \in Range(born)
      BY <1>5, <1>9, <2>4, <3>1
    <3> QED BY <1>1, <1>9, <3>1, <3>2, RetainBystander
  <2> QED BY <2>1, <2>2, <2>3, <2>4
<1> QED BY <1>1, <1>6, <1>11 DEF IInv

\* Losing a hash records an outcome for a job that had none.
LEMMA InvHashLost ==
    ASSUME IInv, NEW j \in JobIds, HashLost(j)
    PROVE  IInv'
<1>1. TypeOK /\ \A i \in JobIds : JobInv(i)
  BY DEF IInv
<1>2. TypeOK'
  BY <1>1, TypeNext DEF Next
<1>3. /\ hash[j] # NoHash /\ hash' = [hash EXCEPT ![j] = NoHash]
      /\ outcome' = [outcome EXCEPT ![j] = IF outcome[j] = "none" THEN "lost" ELSE outcome[j]]
      /\ UNCHANGED <<waiting, active, index, born, issued, handoffs>>
  BY DEF HashLost, Exists
<1>4. ASSUME NEW i \in JobIds, i # j PROVE JobInv(i)'
  <2>1. hash'[i] = hash[i] /\ outcome'[i] = outcome[i]
    BY <1>1, <1>3, <1>4 DEF TypeOK
  <2> QED BY <1>1, <1>3, <2>1, Untouched
<1>5. JobInv(j)'
  <2>1. hash'[j] = NoHash /\ outcome'[j] # "none"
    BY <1>1, <1>3 DEF TypeOK
  <2>2. j \in Range(born) /\ JobInv(j)
    BY <1>1, <1>3 DEF JobInv, Recorded
  <2> QED BY <1>3, <2>1, <2>2 DEF JobInv, Apart, Recorded, Absent
<1> QED BY <1>2, <1>3, <1>4, <1>5 DEF IInv

\* A step that touches neither the jobs nor their history.
LEMMA InvElsewhere ==
    ASSUME IInv, TypeOK', UNCHANGED <<waiting, active, hash, index, born, issued, handoffs, outcome>>
    PROVE  IInv'
<1>1. \A i \in JobIds : JobInv(i)'
  BY Untouched DEF IInv
<1> QED BY <1>1 DEF IInv

\* Every script and every event of the environment keeps the invariant.
LEMMA InvNext == IInv /\ [Next]_vars => IInv'
<1> SUFFICES ASSUME IInv, [Next]_vars PROVE IInv'
  OBVIOUS
<1>0. TypeOK'
  BY TypeNext DEF IInv
<1>1. ASSUME NEW j \in JobIds, NEW retries \in RetryBudgets, NEW stalls \in StallBudgets,
             Enqueue(j, retries, stalls)
      PROVE  IInv'
  BY <1>1, InvEnqueue
<1>2. ASSUME NEW count \in 1..ClaimBatch, Claim(count) PROVE IInv'
  BY <1>2, InvClaim
<1>3. ASSUME NEW j \in JobIds, Ack(j) PROVE IInv'
  <2>1. PICK token \in Tokens(j) :
          \/ \E policy \in CompletedPolicies : Complete(j, token, policy)
          \/ FailRetry(j, token)
          \/ \E policy \in FailedPolicies : FailFinal(j, token, policy)
          \/ Extend(j, token)
          \/ RequeueActive(j, token)
    BY <1>3, Zenon DEF Ack
  <2> QED BY <2>1, InvComplete, InvFailRetry, InvFailFinal, InvExtend, InvRequeueActive
<1>4. ASSUME NEW policy \in FailedPolicies, Recover(policy) PROVE IInv'
  BY <1>4, InvRecover
<1>5. ASSUME NEW limit \in Limits, NEW version \in Versions, Declare(limit, version) PROVE IInv'
  BY <1>0, <1>5, InvElsewhere DEF Declare, history
<1>6. ASSUME NEW j \in JobIds, LeaseExpires(j) PROVE IInv'
  BY <1>0, <1>6, InvElsewhere DEF LeaseExpires, history
<1>7. ASSUME NEW j \in JobIds, HashLost(j) PROVE IInv'
  BY <1>7, InvHashLost
<1>8. CASE RemoveLimit
  BY <1>0, <1>8, InvElsewhere DEF RemoveLimit, history
<1>9. CASE UNCHANGED vars
  BY <1>0, <1>9, InvElsewhere DEF vars, store, history
<1> QED BY <1>1, <1>2, <1>3, <1>4, <1>5, <1>6, <1>7, <1>8, <1>9 DEF Next

-------------------------------------------------------------------------------
\* The invariant holds in every reachable state of a queue.
THEOREM Invariant == Spec => []IInv
BY InvInit, InvNext, PTL DEF Spec

\* Whatever acks, sweeps and claims interleave, a job is in one place, once,
\* and its status names that place.
THEOREM PlacementHolds == Spec => []Placement
<1>1. IInv => Placement
  <2> SUFFICES ASSUME IInv PROVE Placement
    OBVIOUS
  <2>1. \A j \in JobIds : Apart(j) /\ Recorded(j)
    BY DEF IInv, JobInv
  <2>2. /\ Range(waiting) \subseteq JobIds /\ active \subseteq JobIds
        /\ index["completed"] \subseteq JobIds /\ index["failed"] \subseteq JobIds
    BY RangeOfSeq DEF IInv, TypeOK
  <2>3. OnePlace
    BY <2>1, <2>2 DEF OnePlace, Apart, Pointers, IndexSets
  <2>4. StatusNamesPlace
    BY <2>1 DEF StatusNamesPlace, Recorded, Consistent, Exists, Pointers
  <2> QED BY <2>3, <2>4 DEF Placement, NoDuplicatePointer, IInv
<1> QED BY <1>1, Invariant, PTL

\* A lock token is in a hash exactly while its job is active, and only the last
\* token issued is: an older lease is fenced out of every script.
THEOREM LeaseFenceHolds == Spec => []LeaseFence
<1>1. IInv => LeaseFence
  <2> SUFFICES ASSUME IInv, NEW j \in JobIds, Exists(j)
               PROVE  /\ hash[j].token # 0 <=> j \in active
                      /\ hash[j].token # 0 => hash[j].token = issued[j]
                      /\ hash[j].runs = issued[j]
    BY DEF LeaseFence
  <2>1. Apart(j) /\ Consistent(j) /\ hash[j].runs = issued[j]
    BY DEF IInv, JobInv, Recorded, Exists
  <2> QED BY <2>1 DEF Apart, Consistent
<1> QED BY <1>1, Invariant, PTL

\* The counters of a job account for each of its runs exactly once.
THEOREM LeaseAccountingHolds == Spec => []LeaseAccounting
<1>1. IInv => LeaseAccounting
  BY DEF IInv, JobInv, Recorded, Accounted, LeaseAccounting, Exists
<1> QED BY <1>1, Invariant, PTL

\* Retries stop when, and only when, a budget is exceeded.
THEOREM BudgetsRespectedHolds == Spec => []BudgetsRespected
<1>1. IInv => BudgetsRespected
  BY DEF IInv, JobInv, Recorded, WithinBudgets, BudgetsRespected, Exists
<1> QED BY <1>1, Invariant, PTL

\* A job without an outcome is waiting or active: none is dropped silently.
THEOREM NoJobVanishesHolds == Spec => []NoJobVanishes
<1>1. IInv => NoJobVanishes
  <2> SUFFICES ASSUME IInv, NEW j \in Range(born)
               PROVE  outcome[j] = "none" <=> hash[j].status \in {"waiting", "active"}
    BY DEF NoJobVanishes
  <2>1. j \in JobIds /\ JobInv(j)
    BY RangeOfSeq DEF IInv, TypeOK
  <2>2. CASE hash[j] = NoHash
    BY <2>1, <2>2 DEF JobInv, Absent, NoHash
  <2>3. CASE hash[j] # NoHash
    BY <2>1, <2>3 DEF JobInv, Recorded, Consistent
  <2> QED BY <2>2, <2>3
<1> QED BY <1>1, Invariant, PTL

-------------------------------------------------------------------------------
\* A claim is granted at most as many jobs as it pops pointers.
LEMMA GrantedSize ==
    ASSUME TypeOK, NEW count \in 1..ClaimBatch, BatchSize(count) >= 1
    PROVE  IsFiniteSet(Granted(count)) /\ Cardinality(Granted(count)) <= BatchSize(count)
<1> DEFINE k == BatchSize(count)
           popped == SubSeq(waiting, 1, k)
<1>1. k \in 1..Len(waiting) /\ Len(waiting) \in Nat /\ k \in Nat
  BY ClaimBatchSize, LenProperties DEF TypeOK
<1>2. popped \in Seq(JobIds) /\ Len(popped) = k
  BY <1>1, SubSeqProperties, ElementOfSeq DEF TypeOK
<1>3. popped \in [1..k -> Range(popped)]
  BY <1>2, LenProperties DEF Range
<1>4. popped \in Surjection(1..k, Range(popped))
  BY <1>3 DEF Surjection, Range
<1>5. IsFiniteSet(1..k) /\ Cardinality(1..k) = k
  BY <1>1, FS_Interval
<1>6. IsFiniteSet(Range(popped)) /\ Cardinality(Range(popped)) <= k
  BY <1>4, <1>5, FS_Surjection
<1>7. Granted(count) \subseteq Range(popped)
  BY DEF Granted
<1> HIDE DEF popped
<1> QED BY <1>1, <1>6, <1>7, FS_Subset, FS_CardinalityType

\* Under a limit, a claim leaves at most that many jobs active.
LEMMA ClaimWithinLimit ==
    ASSUME TypeOK, NEW count \in 1..ClaimBatch, Claim(count), Limited
    PROVE  Cardinality(active') <= conc.limit
<1>1. IsFiniteSet(active) /\ Cardinality(active) \in Nat /\ conc.limit \in Nat
  BY JobSetSize DEF TypeOK
<1>2. /\ IsFiniteSet(Granted(count)) /\ Cardinality(Granted(count)) \in Nat
      /\ Cardinality(Granted(count)) <= BatchSize(count)
  BY GrantedSize, FS_CardinalityType DEF Claim
<1>3. BatchSize(count) <= conc.limit - Cardinality(active) /\ BatchSize(count) \in Int
  BY ClaimBatchSize DEF Claim, Free
<1>4. /\ Cardinality(active \cup Granted(count))
           = Cardinality(active) + Cardinality(Granted(count)) - Cardinality(active \cap Granted(count))
      /\ Cardinality(active \cap Granted(count)) \in Nat
  BY <1>1, <1>2, FS_Union, FS_Intersection, FS_CardinalityType
<1>5. Cardinality(active \cup Granted(count)) <= conc.limit
  BY <1>1, <1>2, <1>3, <1>4
<1> QED BY <1>5 DEF Claim

\* A claim never takes the number of active jobs beyond the declared limit,
\* and no other script adds to the active set.
THEOREM GlobalLimitHolds == Spec => GlobalLimit
<1>1. TypeOK /\ [Next]_vars =>
        [(Limited /\ ~(active' \subseteq active)) => Cardinality(active') <= conc.limit]_vars
  <2> SUFFICES ASSUME TypeOK, Next, Limited, ~(active' \subseteq active)
               PROVE  Cardinality(active') <= conc.limit
    OBVIOUS
  <2>1. ASSUME NEW count \in 1..ClaimBatch, Claim(count) PROVE Cardinality(active') <= conc.limit
    BY <2>1, ClaimWithinLimit
  <2>2. ASSUME NEW j \in JobIds, Ack(j) PROVE FALSE
    BY <2>2 DEF Ack, Complete, FailRetry, FailFinal, Extend, RequeueActive
  <2>3. ASSUME NEW policy \in FailedPolicies, Recover(policy) PROVE FALSE
    BY <2>3 DEF Recover
  <2>4. ASSUME \/ \E j \in JobIds, retries \in RetryBudgets, stalls \in StallBudgets :
                    Enqueue(j, retries, stalls)
               \/ \E limit \in Limits, version \in Versions : Declare(limit, version)
               \/ \E j \in JobIds : LeaseExpires(j) \/ HashLost(j)
               \/ RemoveLimit
        PROVE FALSE
    BY <2>4 DEF Enqueue, Declare, LeaseExpires, HashLost, RemoveLimit
  <2> QED BY <2>1, <2>2, <2>3, <2>4 DEF Next
<1> QED BY <1>1, TypeCorrect, PTL DEF Spec, GlobalLimit

\* The declared limit changes only under a higher version, or is removed.
THEOREM LimitFenceHolds == Spec => LimitFence
<1>1. [Next]_vars => [conc' # conc => conc'.version > conc.version \/ conc' = NoLimit]_vars
  <2> SUFFICES ASSUME Next, conc' # conc
               PROVE  conc'.version > conc.version \/ conc' = NoLimit
    OBVIOUS
  <2>1. \/ \E limit \in Limits, version \in Versions : Declare(limit, version)
        \/ RemoveLimit
    BY DEF Next, Enqueue, Claim, Ack, Complete, FailRetry, FailFinal, Extend, RequeueActive,
           Recover, LeaseExpires, HashLost
  <2> QED BY <2>1 DEF Declare, RemoveLimit
<1> QED BY <1>1, PTL DEF Spec, LimitFence

-------------------------------------------------------------------------------
\* A claim that pops anything was possible before it ran.
LEMMA ClaimNeedsClaimable ==
    ASSUME TypeOK, NEW count \in 1..ClaimBatch, Claim(count)
    PROVE  Claimable
<1>1. /\ BatchSize(count) \in 1..Len(waiting) /\ BatchSize(count) <= Free(count)
      /\ Len(waiting) \in Nat
  BY ClaimBatchSize, LenProperties DEF Claim, TypeOK
<1>2. waiting # <<>>
  BY <1>1
<1>3. Cardinality(active) \in Nat /\ conc.limit \in Nat
  BY JobSetSize DEF TypeOK
<1>4. ASSUME Limited PROVE Cardinality(active) < conc.limit
  BY <1>1, <1>3, <1>4 DEF Free
<1> QED BY <1>2, <1>4 DEF Claimable

\* A script that leaves the waiting list alone can make a claim possible only
\* by freeing a permit of a declared limit.
LEMMA FreedPermit ==
    ASSUME UNCHANGED <<waiting, conc>>, ~Claimable, Claimable'
    PROVE  PermitWanted
BY DEF Claimable, Limited, PermitWanted

\* A sweep that retries nothing leaves the waiting list alone.
LEMMA SilentSweep ==
    ASSUME TypeOK, NEW swept \in Candidates, Retried(swept) = {},
           NEW order \in SetToSeqs(Retried(swept))
    PROVE  waiting \o order = waiting
<1>1. order \in Seq(JobIds) /\ Range(order) = {}
  BY SweepFacts
<1>2. order = <<>>
  <2>1. DOMAIN order = {} /\ Len(order) \in Nat /\ DOMAIN order = 1..Len(order)
    <3>1. DOMAIN order = {}
      BY <1>1 DEF Range
    <3> QED BY <1>1, <3>1, LenProperties
  <2>2. Len(order) = 0
    BY <2>1
  <2> QED BY <1>1, <2>2, EmptySeq
<1> QED BY <1>2, ConcatEmptySeq DEF TypeOK

\* Work or capacity never appears in silence: the step that makes a claim
\* possible publishes to the notify channel.
LEMMA CapacityPublishes ==
    ASSUME TypeOK, Next, conc' = conc, ~Claimable, Claimable'
    PROVE  published'
<1>1. ASSUME NEW j \in JobIds, NEW retries \in RetryBudgets, NEW stalls \in StallBudgets,
             Enqueue(j, retries, stalls)
      PROVE  published'
  BY <1>1 DEF Enqueue
<1>2. ASSUME NEW count \in 1..ClaimBatch, Claim(count) PROVE FALSE
  BY <1>2, ClaimNeedsClaimable
<1>3. ASSUME NEW j \in JobIds, Ack(j) PROVE published'
  <2>1. PICK token \in Tokens(j) :
          \/ \E policy \in CompletedPolicies : Complete(j, token, policy)
          \/ FailRetry(j, token)
          \/ \E policy \in FailedPolicies : FailFinal(j, token, policy)
          \/ Extend(j, token)
          \/ RequeueActive(j, token)
    BY <1>3, Zenon DEF Ack
  <2>2. CASE \E policy \in CompletedPolicies : Complete(j, token, policy)
    BY <2>2, FreedPermit DEF Complete
  <2>3. CASE \E policy \in FailedPolicies : FailFinal(j, token, policy)
    BY <2>3, FreedPermit DEF FailFinal
  <2>4. CASE FailRetry(j, token) \/ RequeueActive(j, token)
    BY <2>4 DEF FailRetry, RequeueActive
  <2>5. CASE Extend(j, token)
    BY <2>5 DEF Extend, Claimable, Limited
  <2> QED BY <2>1, <2>2, <2>3, <2>4, <2>5
<1>4. ASSUME NEW policy \in FailedPolicies, Recover(policy) PROVE published'
  <2>1. PICK swept \in Candidates :
          /\ \E order \in SetToSeqs(Retried(swept)) : waiting' = waiting \o order
          /\ published' = (Retried(swept) # {} \/ PermitWanted)
    BY <1>4, Zenon DEF Recover
  <2>2. CASE Retried(swept) = {}
    <3>1. waiting' = waiting
      BY <2>1, <2>2, SilentSweep
    <3>2. PermitWanted
      BY <3>1, FreedPermit
    <3> QED BY <2>1, <3>2
  <2>3. CASE Retried(swept) # {}
    BY <2>1, <2>3
  <2> QED BY <2>2, <2>3
<1>5. ASSUME NEW limit \in Limits, NEW version \in Versions, Declare(limit, version)
      PROVE  FALSE
  <2>1. conc' = conc /\ conc'.version = version /\ version > conc.version
    BY <1>5 DEF Declare
  <2>2. conc.version \in Nat /\ version \in Nat
    BY LimitAssumption DEF TypeOK
  <2> QED BY <2>1, <2>2
<1>6. ASSUME \E j \in JobIds : LeaseExpires(j) \/ HashLost(j) PROVE FALSE
  BY <1>6 DEF LeaseExpires, HashLost, Claimable, Limited
<1>7. ASSUME RemoveLimit PROVE FALSE
  BY <1>7 DEF RemoveLimit, Limited, NoLimit
<1> QED BY <1>1, <1>2, <1>3, <1>4, <1>5, <1>6, <1>7 DEF Next

\* So a claim loop parked beside an empty or full queue is always told.
THEOREM CapacityAnnouncedHolds == Spec => CapacityAnnounced
<1>1. TypeOK /\ [Next]_vars =>
        [(conc' = conc /\ ~Claimable /\ Claimable') => published']_vars
  BY CapacityPublishes
<1> QED BY <1>1, TypeCorrect, PTL DEF Spec, CapacityAnnounced

-------------------------------------------------------------------------------
\* What a step leaves of a job that has an outcome.
Sealed(j) ==
    /\ outcome'[j] = outcome[j]
    /\ j \in active' => j \in active
    /\ j \in Range(waiting)' => j \in Range(waiting)
    /\ ~Exists(j) => ~Exists(j)'

\* A job whose hash exists and that is waiting or running has no outcome yet.
LEMMA PendingHasNoOutcome ==
    ASSUME IInv, NEW j \in JobIds, Exists(j), j \in Range(waiting) \/ j \in active
    PROVE  outcome[j] = "none"
BY DEF IInv, JobInv, Apart, Recorded, Consistent, Exists

\* Retention may delete the hash of a finished job and revives none.
LEMMA RetainSeals ==
    ASSUME TypeOK, NEW policy \in Policies, NEW s \in {"completed", "failed"},
           NEW new \in SUBSET JobIds, NEW h \in [JobIds -> JobHash], Retain(policy, s, new, h),
           NEW j \in JobIds, h[j] = hash[j]
    PROVE  ~Exists(j) => ~Exists(j)'
<1>1. PICK kept \in SUBSET JobIds : Retained(kept, s, new, h)
  BY RetainEffect DEF TypeOK
<1> QED BY <1>1 DEF Retained, Exists

\* No late ack, sweep or claim revives a finished job.
LEMMA OutcomeSeals ==
    ASSUME IInv, Next, NEW j \in JobIds, outcome[j] # "none"
    PROVE  Sealed(j)
<1>0. TypeOK /\ JobInv(j)
  BY DEF IInv
<1>1. ASSUME NEW i \in JobIds, NEW retries \in RetryBudgets, NEW stalls \in StallBudgets,
             Enqueue(i, retries, stalls)
      PROVE  Sealed(j)
  <2>1. i # j
    BY <1>0, <1>1 DEF Enqueue, Generated, Exists, JobInv, Absent
  <2>2. Range(waiting)' = Range(waiting) \cup {i}
    BY <1>0, <1>1, AppendElements DEF Enqueue, TypeOK
  <2> QED BY <1>0, <1>1, <2>1, <2>2 DEF Enqueue, Sealed, Exists, TypeOK
<1>2. ASSUME NEW count \in 1..ClaimBatch, Claim(count) PROVE Sealed(j)
  <2>1. Granted(count) \subseteq Range(waiting) /\ Range(waiting)' \subseteq Range(waiting)
    BY <1>0, <1>2, ClaimSplit
  <2>2. j \notin Granted(count)
    BY <2>1, PendingHasNoOutcome DEF Granted
  <2> QED BY <1>0, <1>2, <2>1, <2>2 DEF Claim, Sealed, Exists, TypeOK
<1>3. ASSUME NEW i \in JobIds, Ack(i) PROVE Sealed(j)
  <2>1. PICK token \in Tokens(i) :
          \/ \E policy \in CompletedPolicies : Complete(i, token, policy)
          \/ FailRetry(i, token)
          \/ \E policy \in FailedPolicies : FailFinal(i, token, policy)
          \/ Extend(i, token)
          \/ RequeueActive(i, token)
    BY <1>3, Zenon DEF Ack
  <2>2. i # j
    <3>1. Holds(i, token)
      BY <2>1 DEF Complete, FailRetry, FailFinal, Extend, RequeueActive
    <3>2. outcome[i] = "none"
      BY <3>1, HolderIsActive DEF IInv
    <3> QED BY <3>2
  <2>3. Range(Append(waiting, i)) = Range(waiting) \cup {i}
    BY <1>0, AppendElements DEF TypeOK
  <2>4. ASSUME NEW f \in JobHash
        PROVE  /\ [hash EXCEPT ![i] = f] \in [JobIds -> JobHash]
               /\ [hash EXCEPT ![i] = f][j] = hash[j]
    BY <1>0, <2>2 DEF TypeOK
  <2>5. /\ Settled(hash[i], "completed") \in JobHash /\ Failed(hash[i], "failed") \in JobHash
        /\ Failed(hash[i], "waiting") \in JobHash /\ Settled(hash[i], "waiting") \in JobHash
    BY <1>0, HashUpdates DEF TypeOK, Statuses
  <2>6. ASSUME NEW policy \in CompletedPolicies, Complete(i, token, policy) PROVE Sealed(j)
    <3>1. ~Exists(j) => ~Exists(j)'
      BY <1>0, <2>4, <2>5, <2>6, RetainSeals, PolicyAssumption DEF Complete
    <3> QED BY <2>2, <2>6, <3>1 DEF Complete, Sealed, Announced
  <2>7. ASSUME NEW policy \in FailedPolicies, FailFinal(i, token, policy) PROVE Sealed(j)
    <3>1. ~Exists(j) => ~Exists(j)'
      BY <1>0, <2>4, <2>5, <2>7, RetainSeals, PolicyAssumption DEF FailFinal
    <3> QED BY <2>2, <2>7, <3>1 DEF FailFinal, Sealed, Announced
  <2>8. CASE FailRetry(i, token)
    BY <2>2, <2>3, <2>4, <2>5, <2>8 DEF FailRetry, Sealed, Exists, history
  <2>9. CASE RequeueActive(i, token)
    BY <2>2, <2>3, <2>4, <2>5, <2>9 DEF RequeueActive, Sealed, Exists
  <2>10. CASE Extend(i, token)
    BY <2>10 DEF Extend, Sealed, Exists, history
  <2> QED BY <2>1, <2>6, <2>7, <2>8, <2>9, <2>10
<1>4. ASSUME NEW policy \in FailedPolicies, Recover(policy) PROVE Sealed(j)
  <2>1. PICK swept \in Candidates :
          /\ active' = active \ swept
          /\ \E order \in SetToSeqs(Retried(swept)) : waiting' = waiting \o order
          /\ IF Dead(swept) = {} THEN index' = index /\ hash' = Recovered(swept)
                                 ELSE Retain(policy, "failed", Dead(swept), Recovered(swept))
          /\ outcome' = Announced("failed", Dead(swept))
    BY <1>4, Zenon DEF Recover
  <2>2. PICK order \in SetToSeqs(Retried(swept)) : waiting' = waiting \o order
    BY <2>1
  <2>3. /\ order \in Seq(JobIds) /\ Range(order) = Retried(swept)
        /\ Retried(swept) \subseteq swept /\ Dead(swept) \subseteq swept /\ swept \subseteq JobIds
    BY <1>0, SweepFacts
  <2>4. j \notin Retried(swept) /\ j \notin Dead(swept)
    <3>1. ASSUME j \in Retried(swept) \/ j \in Dead(swept) PROVE FALSE
      <4>1. j \in swept /\ hash[j] # NoHash
        BY <2>3, <3>1 DEF Retried, Dead, Present, Exists
      <4> QED BY <4>1, SweptIsActive
    <3> QED BY <3>1
  <2>5. j \in Range(waiting)' => j \in Range(waiting)
    BY <1>0, <2>2, <2>3, <2>4, RangeConcatenation DEF TypeOK
  <2>6. Recovered(swept) \in [JobIds -> JobHash] /\ Recovered(swept)[j] = hash[j]
    BY <1>0, <2>4, HashUpdates DEF Recovered, TypeOK, Statuses
  <2>7. ~Exists(j) => ~Exists(j)'
    <3>1. CASE Dead(swept) = {}
      BY <2>1, <2>6, <3>1 DEF Exists
    <3>2. CASE Dead(swept) # {}
      BY <1>0, <2>1, <2>3, <2>6, <3>2, RetainSeals, PolicyAssumption
    <3> QED BY <3>1, <3>2
  <2> QED BY <2>1, <2>4, <2>5, <2>7 DEF Sealed, Announced
<1>5. ASSUME NEW i \in JobIds, HashLost(i) PROVE Sealed(j)
  BY <1>0, <1>5 DEF HashLost, Sealed, Exists, TypeOK
<1>6. ASSUME \/ \E limit \in Limits, version \in Versions : Declare(limit, version)
             \/ \E i \in JobIds : LeaseExpires(i)
             \/ RemoveLimit
      PROVE  Sealed(j)
  BY <1>6 DEF Declare, LeaseExpires, RemoveLimit, Sealed, Exists, history
<1> QED BY <1>1, <1>2, <1>3, <1>4, <1>5, <1>6 DEF Next

\* So an outcome is final.
THEOREM OutcomeFinalHolds == Spec => OutcomeFinal
<1>1. IInv /\ [Next]_vars =>
        [\A j \in JobIds : outcome[j] # "none" => Sealed(j)]_vars
  BY OutcomeSeals
<1> QED BY <1>1, Invariant, PTL DEF Spec, OutcomeFinal, Sealed

-------------------------------------------------------------------------------
(* Leases: who may still acknowledge a run. *)

\* A hash that retention leaves in place is the one the script wrote.
LEMMA RetainKeeps ==
    ASSUME TypeOK, NEW policy \in Policies, NEW s \in {"completed", "failed"},
           NEW new \in SUBSET JobIds, NEW h \in [JobIds -> JobHash], Retain(policy, s, new, h),
           NEW j \in JobIds, Exists(j)'
    PROVE  hash'[j] = h[j]
<1>1. PICK kept \in SUBSET JobIds : Retained(kept, s, new, h)
  BY RetainEffect DEF TypeOK
<1> QED BY <1>1 DEF Retained, Exists

\* An active job was active under the same lease before, or was just granted
\* under a new one.
SameLease(j) == /\ j \in active /\ Exists(j) /\ hash'[j].token = hash[j].token
                /\ issued'[j] = issued[j]
NewLease(j) == issued'[j] = issued[j] + 1 /\ hash'[j].token = issued'[j]

LEMMA ActiveLease ==
    ASSUME IInv, [Next]_vars, NEW j \in JobIds, j \in active', Exists(j)'
    PROVE  SameLease(j) \/ NewLease(j)
<1>1. TypeOK /\ JobInv(j) /\ hash \in [JobIds -> JobHash]
  BY DEF IInv, TypeOK
<1>2. ASSUME NEW i \in JobIds, NEW retries \in RetryBudgets, NEW stalls \in StallBudgets,
             Enqueue(i, retries, stalls)
      PROVE  SameLease(j)
  <2>1. j \in active /\ i # j
    BY <1>1, <1>2 DEF Enqueue, Generated, JobInv, Absent
  <2> QED BY <1>1, <1>2, <2>1 DEF Enqueue, SameLease, Exists
<1>3. ASSUME NEW count \in 1..ClaimBatch, Claim(count) PROVE SameLease(j) \/ NewLease(j)
  <2>1. CASE j \in Granted(count)
    <3>1. hash[j].runs = issued[j]
      BY <1>1, <2>1 DEF Granted, Exists, JobInv, Recorded
    <3>2. issued'[j] = issued[j] + 1 /\ hash'[j] = Run(hash[j])
      BY <1>3, <2>1, <3>1 DEF Claim
    <3>3. Run(hash[j]).token = issued[j] + 1
      <4>1. hash[j] \in JobHash /\ "active" \in Statuses
        BY <1>1 DEF Statuses
      <4> QED BY <3>1, <4>1, HashFields
    <3> QED BY <3>2, <3>3 DEF NewLease
  <2>2. CASE j \notin Granted(count)
    BY <1>1, <1>3, <2>2 DEF Claim, SameLease, Exists
  <2> QED BY <2>1, <2>2
<1>4. ASSUME NEW i \in JobIds, Ack(i) PROVE SameLease(j)
  <2>1. PICK token \in Tokens(i) :
          \/ \E policy \in CompletedPolicies : Complete(i, token, policy)
          \/ FailRetry(i, token)
          \/ \E policy \in FailedPolicies : FailFinal(i, token, policy)
          \/ Extend(i, token)
          \/ RequeueActive(i, token)
    BY <1>4, Zenon DEF Ack
  <2>2. CASE Extend(i, token)
    BY <2>2 DEF Extend, SameLease, Exists, history
  <2>3. CASE ~Extend(i, token)
    <3>1. active' = active \ {i}
      BY <2>1, <2>3 DEF Complete, FailRetry, FailFinal, RequeueActive
    <3>2. i # j /\ j \in active
      BY <3>1
    <3>3. ASSUME NEW f \in JobHash
          PROVE  /\ [hash EXCEPT ![i] = f] \in [JobIds -> JobHash]
                 /\ [hash EXCEPT ![i] = f][j] = hash[j]
      BY <1>1, <3>2
    <3>4. /\ Settled(hash[i], "completed") \in JobHash /\ Failed(hash[i], "failed") \in JobHash
          /\ Failed(hash[i], "waiting") \in JobHash /\ Settled(hash[i], "waiting") \in JobHash
      BY <1>1, HashUpdates DEF Statuses
    <3>5. hash'[j] = hash[j]
      <4>1. ASSUME NEW policy \in CompletedPolicies, Complete(i, token, policy)
            PROVE  hash'[j] = hash[j]
        <5> DEFINE h == [hash EXCEPT ![i] = Settled(hash[i], "completed")]
        <5>1. Retain(policy, "completed", {i}, h) /\ policy \in Policies
          BY <4>1, PolicyAssumption DEF Complete
        <5>2. h \in [JobIds -> JobHash] /\ h[j] = hash[j]
          BY <3>3, <3>4
        <5> HIDE DEF h
        <5> QED BY <1>1, <5>1, <5>2, RetainKeeps
      <4>2. ASSUME NEW policy \in FailedPolicies, FailFinal(i, token, policy)
            PROVE  hash'[j] = hash[j]
        <5> DEFINE h == [hash EXCEPT ![i] = Failed(hash[i], "failed")]
        <5>1. Retain(policy, "failed", {i}, h) /\ policy \in Policies
          BY <4>2, PolicyAssumption DEF FailFinal
        <5>2. h \in [JobIds -> JobHash] /\ h[j] = hash[j]
          BY <3>3, <3>4
        <5> HIDE DEF h
        <5> QED BY <1>1, <5>1, <5>2, RetainKeeps
      <4>3. CASE FailRetry(i, token) \/ RequeueActive(i, token)
        BY <3>3, <3>4, <4>3 DEF FailRetry, RequeueActive
      <4> QED BY <2>1, <2>3, <4>1, <4>2, <4>3
    <3>6. UNCHANGED issued
      BY <2>1, <2>3 DEF Complete, FailRetry, FailFinal, RequeueActive, history
    <3> QED BY <3>2, <3>5, <3>6 DEF SameLease, Exists
  <2> QED BY <2>2, <2>3
<1>5. ASSUME NEW policy \in FailedPolicies, Recover(policy) PROVE SameLease(j)
  <2>1. PICK swept \in Candidates :
          /\ active' = active \ swept
          /\ IF Dead(swept) = {} THEN index' = index /\ hash' = Recovered(swept)
                                 ELSE Retain(policy, "failed", Dead(swept), Recovered(swept))
          /\ UNCHANGED issued
    BY <1>5, Zenon DEF Recover
  <2>2. Retried(swept) \subseteq swept /\ Dead(swept) \subseteq swept /\ swept \subseteq JobIds
    BY <1>1, SweepFacts
  <2>3. j \in active /\ j \notin swept
    BY <2>1
  <2>4. Recovered(swept) \in [JobIds -> JobHash] /\ Recovered(swept)[j] = hash[j]
    BY <1>1, <2>2, <2>3, HashUpdates DEF Recovered, Statuses
  <2>5. hash'[j] = hash[j]
    <3>1. CASE Dead(swept) = {}
      BY <2>1, <2>4, <3>1
    <3>2. CASE Dead(swept) # {}
      BY <1>1, <2>1, <2>2, <2>4, <3>2, RetainKeeps, PolicyAssumption
    <3> QED BY <3>1, <3>2
  <2> QED BY <2>1, <2>3, <2>5 DEF SameLease, Exists
<1>6. ASSUME NEW i \in JobIds, HashLost(i) PROVE SameLease(j)
  BY <1>1, <1>6 DEF HashLost, SameLease, Exists
<1>7. ASSUME \/ \E limit \in Limits, version \in Versions : Declare(limit, version)
             \/ \E i \in JobIds : LeaseExpires(i)
             \/ RemoveLimit
             \/ UNCHANGED vars
      PROVE  SameLease(j)
  BY <1>7 DEF Declare, LeaseExpires, RemoveLimit, SameLease, Exists, history, vars, store
<1> QED BY <1>2, <1>3, <1>4, <1>5, <1>6, <1>7 DEF Next

\* The tokens of a job only grow.
LEMMA TokensGrow ==
    ASSUME IInv, [Next]_vars, NEW j \in JobIds
    PROVE  issued[j] \in Nat /\ issued'[j] \in Nat /\ issued'[j] >= issued[j]
<1>1. issued \in [JobIds -> Nat]
  BY DEF IInv, TypeOK
<1>2. CASE UNCHANGED issued
  BY <1>1, <1>2
<1>3. ASSUME NEW count \in 1..ClaimBatch, Claim(count) PROVE issued'[j] \in Nat /\ issued'[j] >= issued[j]
  <2>1. j \in Granted(count) => hash[j].runs = issued[j]
    BY DEF Granted, Exists, IInv, JobInv, Recorded
  <2> QED BY <1>1, <1>3, <2>1 DEF Claim
<1>4. Next => UNCHANGED issued \/ \E count \in 1..ClaimBatch : Claim(count)
  BY DEF Next, Enqueue, Ack, Complete, FailRetry, FailFinal, Extend, RequeueActive, Recover,
         Declare, LeaseExpires, HashLost, RemoveLimit, history
<1> QED BY <1>1, <1>2, <1>3, <1>4 DEF vars, history

\* A lease that is spent, or was swept, is never current again.
LEMMA NeverCurrentAgain ==
    ASSUME IInv, [Next]_vars, NEW j \in JobIds, NEW token \in Tokens(j), ~Holds(j, token)
    PROVE  ~Holds(j, token)'
<1> SUFFICES ASSUME Holds(j, token)' PROVE FALSE
  OBVIOUS
<1>1. IInv' /\ issued[j] \in Nat /\ issued'[j] \in Nat /\ issued'[j] >= issued[j]
  BY InvNext, TokensGrow
<1>2. TypeOK' /\ JobInv(j)' /\ token \in Tokens(j)'
  BY <1>1 DEF IInv, Tokens
<1>3. j \in active' /\ Exists(j)' /\ hash'[j].token = token /\ token # 0
  BY <1>2 DEF Holds, Exists, IInv, JobInv, Recorded, Consistent, Tokens
<1>4. CASE SameLease(j)
  BY <1>3, <1>4 DEF SameLease, Holds
<1>5. CASE NewLease(j)
  BY <1>1, <1>3, <1>5 DEF NewLease, Tokens
<1> QED BY <1>3, <1>4, <1>5, ActiveLease

-------------------------------------------------------------------------------
(* First runs in enqueue order. *)

Unrun(j) == Exists(j) /\ issued[j] = 0

\* Wherever j waits, i waits ahead of it.
Ahead(i, j) == \A m \in DOMAIN waiting : waiting[m] = j => \E n \in 1..(m - 1) : waiting[n] = i

\* A job that has never run is ahead of all that were enqueued after it: they
\* have not run either, and stand behind it.  (FifoFirstRun alone does not say
\* where in the list they are.)
InLine == /\ IsInjective(born)
          /\ \A i, k \in DOMAIN born :
                i < k /\ Unrun(born[i]) => issued[born[k]] = 0 /\ Ahead(born[i], born[k])

\* A job that has not run is waiting.
LEMMA UnrunWaits ==
    ASSUME IInv, NEW j \in JobIds, Unrun(j)
    PROVE  j \in Range(waiting)
<1>1. /\ hash[j] \in JobHash /\ handoffs[j] \in Nat
      /\ hash[j].runs = 0 /\ Consistent(j) /\ Accounted(j) /\ WithinBudgets(j)
  BY DEF IInv, TypeOK, JobInv, Recorded, Unrun, Exists
<1>2. /\ hash[j].failures \in Nat /\ hash[j].stalls \in Nat
      /\ hash[j].maxRetries \in Nat /\ hash[j].maxStalls \in Nat
  BY <1>1, HashShape
<1>3. hash[j].failures = 0 /\ hash[j].stalls = 0 /\ hash[j].status \notin {"active", "completed"}
  <2>1. PICK a \in Nat, b \in Nat, c \in Nat : a = hash[j].failures /\ b = hash[j].stalls /\ c = handoffs[j]
    BY <1>1, <1>2
  <2>2. 0 = a + b + c + (IF hash[j].status \in {"active", "completed"} THEN 1 ELSE 0)
    BY <1>1, <2>1 DEF Accounted
  <2>3. CASE hash[j].status \in {"active", "completed"}
    <3>1. 0 = a + b + c + 1
      BY <2>2, <2>3
    <3> QED BY <3>1
  <2>4. CASE hash[j].status \notin {"active", "completed"}
    <3>1. 0 = a + b + c + 0
      BY <2>2, <2>4
    <3>2. a = 0 /\ b = 0
      BY <3>1
    <3> QED BY <2>1, <2>4, <3>2
  <2> QED BY <2>3, <2>4
<1>4. hash[j].status # "failed"
  BY <1>1, <1>2, <1>3 DEF WithinBudgets
<1> QED BY <1>1, <1>3, <1>4 DEF Consistent

\* A job that has not run had not run before.
LEMMA UnrunBefore ==
    ASSUME IInv, [Next]_vars, NEW j \in Range(born), Unrun(j)'
    PROVE  j \in JobIds /\ Unrun(j)
<1>1. TypeOK /\ j \in JobIds
  BY RangeOfSeq DEF IInv, TypeOK
<1>2. issued[j] = 0
  BY <1>1, TokensGrow DEF Unrun
<1>3. Exists(j)
  <2>1. CASE UNCHANGED vars
    BY <2>1 DEF Unrun, Exists, vars, store
  <2>2. ASSUME Next, ~Exists(j) PROVE FALSE
    <3>1. outcome[j] # "none"
      BY <1>1, <2>2 DEF IInv, JobInv, Absent, Exists
    <3> QED BY <1>1, <2>2, <3>1, OutcomeSeals DEF Sealed, Unrun
  <2> QED BY <2>1, <2>2
<1> QED BY <1>1, <1>2, <1>3 DEF Unrun

\* Who is ahead stays ahead when pointers are added behind.
LEMMA AheadOfNew ==
    ASSUME NEW t \in Seq(JobIds), waiting \in Seq(JobIds), waiting' = waiting \o t,
           NEW i, NEW j, j \notin Range(t), Ahead(i, j)
    PROVE  Ahead(i, j)'
<1>1. /\ Len(waiting) \in Nat /\ Len(t) \in Nat
      /\ DOMAIN waiting = 1..Len(waiting) /\ DOMAIN t = 1..Len(t)
      /\ DOMAIN waiting' = 1..(Len(waiting) + Len(t))
      /\ \A m \in 1..(Len(waiting) + Len(t)) :
            waiting'[m] = IF m <= Len(waiting) THEN waiting[m] ELSE t[m - Len(waiting)]
  BY ConcatProperties, LenProperties
<1> SUFFICES ASSUME NEW m \in DOMAIN waiting', waiting'[m] = j
             PROVE  \E n \in 1..(m - 1) : waiting'[n] = i
  BY DEF Ahead
<1>2. m \in 1..Len(waiting) /\ waiting[m] = j
  <2>1. ASSUME ~(m <= Len(waiting)) PROVE FALSE
    <3>1. m - Len(waiting) \in DOMAIN t /\ t[m - Len(waiting)] = j
      BY <1>1, <2>1
    <3> QED BY <3>1 DEF Range
  <2> QED BY <1>1, <2>1
<1>3. PICK n \in 1..(m - 1) : waiting[n] = i
  BY <1>1, <1>2 DEF Ahead
<1> QED BY <1>1, <1>2, <1>3

\* ... and when the head of the list is popped without either of them.
LEMMA AheadOfLeft ==
    ASSUME waiting \in Seq(JobIds), NEW b \in 0..Len(waiting),
           waiting' = SubSeq(waiting, b + 1, Len(waiting)),
           NEW i, NEW j, i \notin Range(SubSeq(waiting, 1, b)), Ahead(i, j)
    PROVE  Ahead(i, j)' /\ j \notin Range(SubSeq(waiting, 1, b))
<1> DEFINE popped == SubSeq(waiting, 1, b)
           left == SubSeq(waiting, b + 1, Len(waiting))
<1>1. Len(waiting) \in Nat /\ DOMAIN waiting = 1..Len(waiting) /\ b \in Nat /\ b <= Len(waiting)
  BY LenProperties
<1>2. DOMAIN popped = 1..b /\ \A n \in 1..b : popped[n] = waiting[n]
  BY <1>1, SubSeqProperties
<1>3. DOMAIN left = 1..(Len(waiting) - b) /\ \A n \in 1..(Len(waiting) - b) : left[n] = waiting[n + b]
  BY <1>1, SubSeqProperties
<1> HIDE DEF popped, left
<1>4. \A n \in 1..b : waiting[n] # i
  BY <1>2 DEF Range, popped
<1>5. \A m \in DOMAIN waiting : waiting[m] = j => \E n \in 1..(m - 1) : waiting[n] = i /\ n > b
  <2> SUFFICES ASSUME NEW m \in DOMAIN waiting, waiting[m] = j
               PROVE  \E n \in 1..(m - 1) : waiting[n] = i /\ n > b
    OBVIOUS
  <2>1. PICK n \in 1..(m - 1) : waiting[n] = i
    BY DEF Ahead
  <2> QED BY <1>1, <1>4, <2>1
<1>6. j \notin Range(popped)
  <2> SUFFICES ASSUME NEW m \in 1..b, waiting[m] = j PROVE FALSE
    BY <1>2 DEF Range
  <2> QED BY <1>1, <1>5
<1>7. ASSUME NEW m \in DOMAIN left, left[m] = j PROVE \E n \in 1..(m - 1) : left[n] = i
  <2>1. PICK l \in DOMAIN waiting : l = m + b /\ waiting[l] = j
    BY <1>1, <1>3, <1>7
  <2>2. PICK n \in 1..(l - 1) : waiting[n] = i /\ n > b
    BY <1>5, <2>1
  <2>3. n - b \in 1..(m - 1) /\ n - b \in 1..(Len(waiting) - b) /\ (n - b) + b = n
    BY <1>1, <1>3, <2>1, <2>2
  <2>4. left[n - b] = waiting[n]
    BY <1>3, <2>3
  <2> QED BY <2>2, <2>3, <2>4
<1>8. waiting' = left
  BY DEF left
<1> QED BY <1>6, <1>7, <1>8 DEF Ahead, popped

\* A script that lets nobody run leaves the line as it is and adds to its end;
\* what it adds from jobs enqueued before has run already.
LEMMA LineGrows ==
    ASSUME IInv, InLine, [Next]_vars, UNCHANGED <<born, issued>>,
           NEW t \in Seq(JobIds), waiting' = waiting \o t, \A j \in Range(t) : issued[j] # 0
    PROVE  InLine'
<1>1. waiting \in Seq(JobIds)
  BY DEF IInv, TypeOK
<1>2. ASSUME NEW i \in DOMAIN born, NEW k \in DOMAIN born, i < k, Unrun(born[i])'
      PROVE  issued[born[k]] = 0 /\ Ahead(born[i], born[k])'
  <2>1. Unrun(born[i])
    <3>1. PICK j \in Range(born) : j = born[i]
      BY DEF Range
    <3> QED BY <1>2, <3>1, UnrunBefore
  <2>2. issued[born[k]] = 0 /\ Ahead(born[i], born[k])
    BY <1>2, <2>1 DEF InLine
  <2>3. born[k] \notin Range(t)
    BY <2>2
  <2>4. PICK a, b : a = born[i] /\ b = born[k]
    OBVIOUS
  <2>5. Ahead(a, b)'
    BY <1>1, <2>2, <2>3, <2>4, AheadOfNew
  <2> QED BY <2>2, <2>4, <2>5
<1> QED BY <1>2 DEF InLine

\* A new job stands behind all that have not run.
LEMMA LineNew ==
    ASSUME IInv, InLine, NEW j \in JobIds, NEW retries \in RetryBudgets, NEW stalls \in StallBudgets,
           Enqueue(j, retries, stalls)
    PROVE  InLine'
<1>1. /\ TypeOK /\ waiting \in Seq(JobIds) /\ born \in Seq(JobIds) /\ <<j>> \in Seq(JobIds)
      /\ waiting' = waiting \o <<j>> /\ Range(<<j>>) = {j}
      /\ born' = Append(born, j) /\ UNCHANGED issued /\ [Next]_vars
  <2>1. TypeOK /\ waiting \in Seq(JobIds) /\ born \in Seq(JobIds)
    BY DEF IInv, TypeOK
  <2>2. waiting' = Append(waiting, j) /\ born' = Append(born, j) /\ UNCHANGED issued
    BY DEF Enqueue
  <2>3. <<j>> \in Seq(JobIds) /\ waiting' = waiting \o <<j>> /\ Range(<<j>>) = {j}
    BY <2>1, <2>2, AppendIsConcat DEF Range
  <2>4. [Next]_vars
    BY DEF Next
  <2> QED BY <2>1, <2>2, <2>3, <2>4
<1>2. j \notin Range(born) /\ j \notin Range(waiting) /\ issued[j] = 0
  BY DEF Enqueue, Generated, IInv, JobInv, Absent
<1>3. /\ Len(born) \in Nat /\ DOMAIN born = 1..Len(born) /\ DOMAIN born' = 1..(Len(born) + 1)
      /\ \A i \in 1..Len(born) : born'[i] = born[i]
      /\ born'[Len(born) + 1] = j
  BY <1>1, AppendProperties, LenProperties
<1>4. IsInjective(born)'
  BY <1>1, <1>2, AppendInjection DEF InLine
<1>5. ASSUME NEW i \in DOMAIN born', NEW k \in DOMAIN born', i < k, Unrun(born[i])'
      PROVE  issued'[born'[k]] = 0 /\ Ahead(born[i], born[k])'
  <2>1. PICK a \in Range(born) : a = born'[i] /\ a = born[i] /\ i \in 1..Len(born)
    BY <1>3, <1>5 DEF Range
  <2>2. Unrun(a) /\ a \in JobIds
    BY <1>1, <1>5, <2>1, UnrunBefore
  <2>3. CASE k \in 1..Len(born)
    <3>1. PICK b \in Range(born) : b = born'[k] /\ b = born[k]
      BY <1>3, <2>3 DEF Range
    <3>2. issued[b] = 0 /\ Ahead(a, b)
      BY <1>3, <1>5, <2>1, <2>2, <2>3, <3>1 DEF InLine
    <3>3. b \notin Range(<<j>>)
      BY <1>1, <1>2
    <3>4. Ahead(a, b)'
      BY <1>1, <3>2, <3>3, AheadOfNew
    <3> QED BY <1>1, <2>1, <3>1, <3>2, <3>4
  <2>4. CASE k = Len(born) + 1
    <3>1. born'[k] = j
      BY <1>3, <2>4
    <3>2. /\ Len(waiting) \in Nat /\ DOMAIN waiting = 1..Len(waiting)
          /\ DOMAIN waiting' = 1..(Len(waiting) + 1)
          /\ \A n \in 1..Len(waiting) : waiting'[n] = waiting[n]
      BY <1>1, AppendProperties, LenProperties DEF Enqueue
    <3>3. PICK n \in 1..Len(waiting) : waiting[n] = a
      BY <2>2, <3>2, UnrunWaits DEF Range
    <3>4. ASSUME NEW m \in DOMAIN waiting', waiting'[m] = j PROVE n \in 1..(m - 1) /\ waiting'[n] = a
      <4>1. m \notin 1..Len(waiting)
        BY <1>2, <3>2, <3>4 DEF Range
      <4> QED BY <3>2, <3>3, <4>1
    <3>5. Ahead(a, j)'
      BY <3>4 DEF Ahead
    <3> QED BY <1>1, <1>2, <2>1, <3>1, <3>5
  <2> QED BY <1>3, <2>3, <2>4
<1> QED BY <1>4, <1>5 DEF InLine

\* A claim takes the jobs that have not run from the front of their line.
LEMMA LineServed ==
    ASSUME IInv, InLine, NEW count \in 1..ClaimBatch, Claim(count)
    PROVE  InLine'
<1> DEFINE c == BatchSize(count)
           popped == SubSeq(waiting, 1, c)
<1>1. /\ TypeOK /\ waiting \in Seq(JobIds) /\ c \in 0..Len(waiting)
      /\ waiting' = SubSeq(waiting, c + 1, Len(waiting))
      /\ UNCHANGED born /\ Granted(count) = {j \in Range(popped) : Exists(j)} /\ [Next]_vars
  <2>1. TypeOK /\ waiting \in Seq(JobIds)
    BY DEF IInv, TypeOK
  <2>2. c \in 0..Len(waiting)
    BY <2>1, ClaimBatchSize DEF Claim
  <2>3. /\ waiting' = SubSeq(waiting, c + 1, Len(waiting)) /\ UNCHANGED born
        /\ Granted(count) = {j \in Range(popped) : Exists(j)}
    BY DEF Claim, Granted
  <2>4. [Next]_vars
    BY DEF Next
  <2> QED BY <2>1, <2>2, <2>3, <2>4
<1> HIDE DEF c, popped
<1>2. ASSUME NEW i \in DOMAIN born, NEW k \in DOMAIN born, i < k, Unrun(born[i])'
      PROVE  issued'[born[k]] = 0 /\ Ahead(born[i], born[k])'
  <2>1. PICK a \in Range(born), b \in Range(born) : a = born[i] /\ b = born[k]
    BY DEF Range
  <2>2. a \in JobIds /\ Unrun(a) /\ Unrun(a)' /\ b \in JobIds
    BY <1>1, <1>2, <2>1, UnrunBefore, RangeOfSeq DEF TypeOK
  <2>3. issued[b] = 0 /\ Ahead(a, b)
    BY <1>2, <2>1, <2>2 DEF InLine
  <2>4. a \notin Range(popped)
    <3>1. a \notin Granted(count)
      <4> SUFFICES ASSUME a \in Granted(count) PROVE FALSE
        OBVIOUS
      <4>1. issued'[a] = hash[a].runs + 1 /\ hash[a].runs \in Nat
        BY <1>1, <2>2, HashShape DEF Claim, TypeOK
      <4> QED BY <2>2, <4>1 DEF Unrun
    <3> QED BY <1>1, <2>2, <3>1 DEF Unrun
  <2>5. Ahead(a, b)' /\ b \notin Range(popped)
    BY <1>1, <2>3, <2>4, AheadOfLeft DEF popped
  <2>6. issued'[b] = 0
    BY <1>1, <2>2, <2>3, <2>5 DEF Claim
  <2> QED BY <1>1, <2>1, <2>5, <2>6
<1> QED BY <1>1, <1>2 DEF InLine

\* So every step keeps the line.
LEMMA LineKept == IInv /\ InLine /\ [Next]_vars => InLine'
<1> SUFFICES ASSUME IInv, InLine, [Next]_vars PROVE InLine'
  OBVIOUS
<1>0. TypeOK /\ waiting \in Seq(JobIds) /\ issued \in [JobIds -> Nat]
  BY DEF IInv, TypeOK
<1>1. ASSUME UNCHANGED <<born, issued, waiting>> PROVE InLine'
  <2>1. <<>> \in Seq(JobIds) /\ waiting \o <<>> = waiting /\ Range(<<>>) = {}
    BY <1>0, EmptySeq, ConcatEmptySeq DEF Range
  <2> QED BY <1>1, <2>1, LineGrows
<1>2. ASSUME NEW j \in JobIds, issued[j] # 0, waiting' = Append(waiting, j), UNCHANGED <<born, issued>>
      PROVE  InLine'
  <2>1. <<j>> \in Seq(JobIds) /\ waiting' = waiting \o <<j>> /\ Range(<<j>>) = {j}
    BY <1>0, <1>2, AppendIsConcat DEF Range
  <2> QED BY <1>2, <2>1, LineGrows
<1>3. ASSUME NEW j \in JobIds, Ack(j) PROVE InLine'
  <2>1. PICK token \in Tokens(j) :
          \/ \E policy \in CompletedPolicies : Complete(j, token, policy)
          \/ FailRetry(j, token)
          \/ \E policy \in FailedPolicies : FailFinal(j, token, policy)
          \/ Extend(j, token)
          \/ RequeueActive(j, token)
    BY <1>3, Zenon DEF Ack
  <2>2. issued[j] # 0
    BY <1>0, <2>1 DEF Tokens
  <2>3. UNCHANGED <<born, issued, waiting>> \/ (waiting' = Append(waiting, j) /\ UNCHANGED <<born, issued>>)
    BY <2>1 DEF Complete, FailRetry, FailFinal, Extend, RequeueActive, history
  <2> QED BY <1>1, <1>2, <2>2, <2>3
<1>4. ASSUME NEW policy \in FailedPolicies, Recover(policy) PROVE InLine'
  <2>1. PICK swept \in Candidates :
          /\ \E order \in SetToSeqs(Retried(swept)) : waiting' = waiting \o order
          /\ UNCHANGED <<born, issued>>
    BY <1>4, Zenon DEF Recover
  <2>2. PICK order \in SetToSeqs(Retried(swept)) : waiting' = waiting \o order
    BY <2>1
  <2>3. order \in Seq(JobIds) /\ Range(order) = Retried(swept) /\ Retried(swept) \subseteq swept
    BY <1>0, SweepFacts
  <2>4. ASSUME NEW j \in Retried(swept) PROVE issued[j] # 0
    <3>1. /\ hash[j] \in JobHash /\ hash[j] # NoHash /\ j \in swept /\ j \in JobIds
          /\ handoffs[j] \in Nat
      BY <1>0, <2>3, SweepFacts DEF Retried, Present, Exists, TypeOK
    <3>2. /\ hash[j].runs = issued[j]
          /\ hash[j].runs = hash[j].failures + hash[j].stalls + handoffs[j] + 1
      BY <3>1, SweptIsActive
    <3>3. hash[j].failures \in Nat /\ hash[j].stalls \in Nat
      BY <3>1, HashShape
    <3> QED BY <3>1, <3>2, <3>3
  <2> QED BY <2>1, <2>2, <2>3, <2>4, LineGrows
<1>5. ASSUME \/ \E limit \in Limits, version \in Versions : Declare(limit, version)
             \/ \E j \in JobIds : LeaseExpires(j) \/ HashLost(j)
             \/ RemoveLimit
             \/ UNCHANGED vars
      PROVE  InLine'
  BY <1>1, <1>5 DEF Declare, LeaseExpires, HashLost, RemoveLimit, vars, store, history
<1> QED BY <1>1, <1>3, <1>4, <1>5, LineNew, LineServed DEF Next

\* First runs are granted in enqueue order, whatever is retried, swept or lost
\* in between.
THEOREM FifoFirstRunHolds == Spec => []FifoFirstRun
<1>1. Init => InLine
  BY EmptySeq DEF Init, InLine, IsInjective
<1>2. IInv /\ InLine => FifoFirstRun
  <2> SUFFICES ASSUME IInv, InLine, NEW i \in DOMAIN born, NEW k \in DOMAIN born, i < k,
                      issued[born[k]] > 0
               PROVE  issued[born[i]] > 0 \/ ~Exists(born[i])
    BY DEF FifoFirstRun
  <2>1. born[i] \in JobIds /\ issued[born[i]] \in Nat
    BY ElementOfSeq, LenProperties DEF IInv, TypeOK
  <2>2. ~Unrun(born[i])
    BY DEF InLine
  <2> QED BY <2>1, <2>2 DEF Unrun
<1> QED BY <1>1, <1>2, LineKept, Invariant, PTL DEF Spec

-------------------------------------------------------------------------------
(* The scripts of a queue implement the abstract job lifecycle: Redis may hold *)
(* any number of jobs, and calls may come late, twice or stale.                *)

\* The phase of a job whose hash exists is the status in it, and it has an
\* outcome exactly when that status is final.
LEMMA PhaseOfHash ==
    ASSUME IInv, NEW j \in JobIds, Exists(j)
    PROVE  /\ Phase[j] = hash[j].status
           /\ hash[j].status \in {"waiting", "active", "completed", "failed"}
           /\ j \in Range(waiting) => Phase[j] = "waiting" /\ outcome[j] = "none"
           /\ j \in active => Phase[j] = "active" /\ outcome[j] = "none"
           /\ issued[j] = hash[j].runs
<1>1. Consistent(j) /\ Apart(j) /\ hash[j].runs = issued[j]
  BY DEF IInv, JobInv, Recorded, Exists
<1> QED BY <1>1 DEF Consistent, Apart, Phase

\* A job in the lifecycle's phase "active" is in the active set.
LEMMA ActivePhase ==
    ASSUME IInv, NEW j \in JobIds, Phase[j] = "active"
    PROVE  j \in active
<1>1. outcome[j] = "none" /\ hash[j].status = "active"
  BY DEF Phase, IInv, TypeOK, Outcomes
<1>2. Consistent(j)
  BY <1>1 DEF IInv, JobInv, Recorded, NoHash
<1> QED BY <1>1, <1>2 DEF Consistent

\* An indexed job has ended.
LEMMA IndexedHasOutcome ==
    ASSUME IInv, NEW j \in JobIds, j \in index["completed"] \/ j \in index["failed"]
    PROVE  outcome[j] # "none"
<1>1. j \notin Range(waiting) /\ j \notin active /\ j \in Range(born)
  BY DEF IInv, JobInv, Apart, Absent
<1> QED BY <1>1 DEF IInv, JobInv, Recorded, Consistent, Absent

\* A job without a new outcome or a new status stays in its phase.
LEMMA SamePhase ==
    ASSUME NEW j \in JobIds, outcome'[j] = outcome[j],
           outcome[j] = "none" => hash'[j].status = hash[j].status
    PROVE  Phase'[j] = Phase[j]
BY DEF Phase

\* Retention changes no job's phase but that of the jobs it was called for.
LEMMA RetainPhase ==
    ASSUME IInv, NEW policy \in Policies, NEW s \in {"completed", "failed"},
           NEW new \in SUBSET JobIds, NEW h \in [JobIds -> JobHash], Retain(policy, s, new, h),
           NEW j \in JobIds, j \notin new, outcome'[j] = outcome[j]
    PROVE  outcome[j] = "none" => hash'[j].status = h[j].status
<1>1. PICK kept \in SUBSET JobIds : Retained(kept, s, new, h)
  BY RetainEffect DEF IInv, TypeOK
<1>2. outcome[j] = "none" => j \notin index[s]
  BY IndexedHasOutcome
<1> QED BY <1>1, <1>2 DEF Retained

\* The end of one run: the job moves to its new phase and no other job moves.
LEMMA OneMoves ==
    ASSUME NEW j \in JobIds, NEW p, Phase'[j] = p,
           \A i \in JobIds : i # j => Phase'[i] = Phase[i]
    PROVE  Phase' = Lifecycle!Moved({j}, p)
<1>1. Phase' = [i \in JobIds |-> Phase'[i]]
  BY DEF Phase
<1>2. ASSUME NEW i \in JobIds
      PROVE  Phase'[i] = IF i \in {j} THEN p ELSE Phase[i]
  OBVIOUS
<1> QED BY <1>1, <1>2 DEF Lifecycle!Moved

-------------------------------------------------------------------------------
\* An enqueue submits a job that has no past.
LEMMA EnqueueSubmits ==
    ASSUME IInv, NEW j \in JobIds, NEW retries \in RetryBudgets, NEW stalls \in StallBudgets,
           Enqueue(j, retries, stalls)
    PROVE  Lifecycle!Submit(j)
<1>1. hash[j] = NoHash /\ outcome[j] = "none"
  BY DEF Enqueue, Generated, Exists, IInv, JobInv, Absent
<1>2. /\ outcome' = outcome /\ issued' = issued /\ conc' = conc
      /\ hash'[j].status = "waiting"
      /\ \A i \in JobIds : i # j => hash'[i] = hash[i]
  BY DEF Enqueue, IInv, TypeOK, NoHash
<1>3. Phase[j] = "none" /\ Phase'[j] = "waiting"
  BY <1>1, <1>2 DEF Phase, NoHash
<1>4. \A i \in JobIds : i # j => Phase'[i] = Phase[i]
  BY <1>2, SamePhase
<1>5. Phase' = Lifecycle!Moved({j}, "waiting")
  BY <1>3, <1>4, OneMoves
<1> QED BY <1>2, <1>3, <1>5 DEF Lifecycle!Submit, Capacity, Limited

\* A claim grants the next lease of each job it finds, within the limit.
LEMMA ClaimGrants ==
    ASSUME IInv, NEW count \in 1..ClaimBatch, Claim(count)
    PROVE  Lifecycle!Grant(Granted(count))
<1>1. TypeOK /\ TypeOK' /\ Granted(count) \subseteq Range(waiting) /\ Range(waiting) \subseteq JobIds
  BY TypeClaim, ClaimSplit, RangeOfSeq DEF IInv, TypeOK
<1>2. ASSUME NEW j \in Granted(count)
      PROVE  Phase[j] = "waiting" /\ outcome[j] = "none" /\ issued[j] = hash[j].runs
  BY <1>1, PhaseOfHash DEF Granted
<1>3. Granted(count) \subseteq Lifecycle!InPhase("waiting")
  BY <1>1, <1>2 DEF Lifecycle!InPhase
<1>4. Phase' = Lifecycle!Moved(Granted(count), "active")
  <2>1. ASSUME NEW j \in JobIds
        PROVE  Phase'[j] = IF j \in Granted(count) THEN "active" ELSE Phase[j]
    <3>1. CASE j \in Granted(count)
      <4>1. hash'[j].status = "active" /\ outcome'[j] = "none"
        BY <1>1, <1>2, <3>1, HashFields DEF Claim, TypeOK, Statuses
      <4> QED BY <3>1, <4>1 DEF Phase
    <3>2. CASE j \notin Granted(count)
      BY <3>2, SamePhase DEF Claim
    <3> QED BY <3>1, <3>2
  <2>2. Phase' = [j \in JobIds |-> Phase'[j]]
    BY DEF Phase
  <2> QED BY <2>1, <2>2 DEF Lifecycle!Moved
<1>5. issued' = [j \in JobIds |-> IF j \in Granted(count) THEN issued[j] + 1 ELSE issued[j]]
  BY <1>2 DEF Claim
<1>6. ASSUME Limited
      PROVE  Cardinality(Lifecycle!InPhase("active") \cup Granted(count)) <= conc.limit
  <2>1. Lifecycle!InPhase("active") \cup Granted(count) \subseteq active'
    BY ActivePhase DEF Lifecycle!InPhase, Claim
  <2>2. active' \in SUBSET JobIds /\ conc.limit \in Nat
    BY <1>1 DEF TypeOK
  <2>3. IsFiniteSet(active') /\ Cardinality(active') <= conc.limit
    BY <1>1, <1>6, <2>2, JobSetSize, ClaimWithinLimit
  <2> QED BY <2>1, <2>2, <2>3, FS_Subset, FS_CardinalityType
<1>7. /\ Capacity # 0 => Cardinality(Lifecycle!InPhase("active") \cup Granted(count)) <= Capacity
      /\ UNCHANGED Capacity
  BY <1>6 DEF Capacity, Claim, Limited
<1>8. ASSUME NEW S PROVE Lifecycle!Cardinality(S) = Cardinality(S)
  BY Zenon DEF Lifecycle!Cardinality, Cardinality
<1> QED BY <1>3, <1>4, <1>5, <1>7, <1>8 DEF Lifecycle!Grant

\* Ending one run without success releases its job, to wait or for good.
LEMMA OneReleased ==
    ASSUME NEW j \in JobIds, Phase[j] = "active", NEW p \in {"waiting", "failed"}, Phase'[j] = p,
           \A i \in JobIds : i # j => Phase'[i] = Phase[i],
           UNCHANGED <<issued, conc>>
    PROVE  \E back, dead \in SUBSET JobIds : Lifecycle!Release(back, dead)
<1>1. Phase' = [i \in JobIds |-> IF i = j THEN p ELSE Phase[i]]
  BY DEF Phase
<1>2. j \in Lifecycle!InPhase("active") /\ UNCHANGED Capacity
  BY DEF Lifecycle!InPhase, Capacity, Limited
<1>3. CASE p = "waiting"
  <2>1. Lifecycle!Release({j}, {})
    BY <1>1, <1>2, <1>3 DEF Lifecycle!Release
  <2> QED BY <2>1
<1>4. CASE p = "failed"
  <2>1. Lifecycle!Release({}, {j})
    BY <1>1, <1>2, <1>4 DEF Lifecycle!Release
  <2> QED BY <2>1
<1> QED BY <1>3, <1>4

\* Each acknowledgement ends the run of its lease, or changes no phase.
LEMMA AckSteps ==
    ASSUME IInv, NEW j \in JobIds, Ack(j)
    PROVE  Lifecycle!Next \/ UNCHANGED Lifecycle!vars
<1>1. PICK token \in Tokens(j) :
        \/ \E policy \in CompletedPolicies : Complete(j, token, policy)
        \/ FailRetry(j, token)
        \/ \E policy \in FailedPolicies : FailFinal(j, token, policy)
        \/ Extend(j, token)
        \/ RequeueActive(j, token)
  BY Zenon DEF Ack
<1>2. Holds(j, token)
  BY <1>1 DEF Complete, FailRetry, FailFinal, Extend, RequeueActive
<1>3. Phase[j] = "active" /\ outcome[j] = "none" /\ TypeOK
  BY <1>2, HolderIsActive, PhaseOfHash DEF IInv, Holds
<1>4. /\ Settled(hash[j], "completed") \in JobHash /\ Failed(hash[j], "failed") \in JobHash
      /\ Failed(hash[j], "waiting") \in JobHash /\ Settled(hash[j], "waiting") \in JobHash
      /\ Failed(hash[j], "waiting").status = "waiting"
      /\ Settled(hash[j], "waiting").status = "waiting"
  BY <1>3, HashUpdates, HashFields DEF TypeOK, Statuses
<1>5. ASSUME NEW f \in JobHash
      PROVE  /\ [hash EXCEPT ![j] = f] \in [JobIds -> JobHash]
             /\ [hash EXCEPT ![j] = f][j] = f
             /\ \A i \in JobIds : i # j => [hash EXCEPT ![j] = f][i] = hash[i]
  BY <1>3 DEF TypeOK
<1>6. ASSUME NEW policy \in CompletedPolicies, Complete(j, token, policy)
      PROVE  Lifecycle!Complete(j)
  <2>1. /\ \A i \in JobIds : i # j => outcome'[i] = outcome[i]
        /\ outcome'[j] = "completed" /\ UNCHANGED <<issued, conc>>
    BY <1>6 DEF Complete, Announced
  <2>2. ASSUME NEW i \in JobIds, i # j PROVE Phase'[i] = Phase[i]
    <3> DEFINE h == [hash EXCEPT ![j] = Settled(hash[j], "completed")]
    <3>0. /\ Retain(policy, "completed", {j}, h)
          /\ h \in [JobIds -> JobHash] /\ h[i] = hash[i]
      BY <1>4, <1>5, <1>6, <2>2 DEF Complete
    <3> HIDE DEF h
    <3>1. outcome[i] = "none" => hash'[i].status = hash[i].status
      BY <2>1, <2>2, <3>0, RetainPhase, PolicyAssumption
    <3> QED BY <2>1, <2>2, <3>1, SamePhase
  <2>3. Phase'[j] = "completed"
    BY <2>1 DEF Phase
  <2>4. Phase' = Lifecycle!Moved({j}, "completed")
    BY <2>2, <2>3, OneMoves
  <2> QED BY <1>3, <2>1, <2>4 DEF Lifecycle!Complete, Capacity, Limited
<1>7. ASSUME NEW policy \in FailedPolicies, FailFinal(j, token, policy)
      PROVE  \E back, dead \in SUBSET JobIds : Lifecycle!Release(back, dead)
  <2>1. /\ \A i \in JobIds : i # j => outcome'[i] = outcome[i]
        /\ outcome'[j] = "failed" /\ UNCHANGED <<issued, conc>>
    BY <1>7 DEF FailFinal, Announced
  <2>2. ASSUME NEW i \in JobIds, i # j PROVE Phase'[i] = Phase[i]
    <3>1. outcome[i] = "none" => hash'[i].status = hash[i].status
      BY <1>4, <1>5, <1>7, <2>1, <2>2, RetainPhase, PolicyAssumption DEF FailFinal
    <3> QED BY <2>1, <2>2, <3>1, SamePhase
  <2>3. Phase'[j] = "failed"
    BY <2>1 DEF Phase
  <2> QED BY <1>3, <2>1, <2>2, <2>3, OneReleased
<1>8. ASSUME FailRetry(j, token) \/ RequeueActive(j, token)
      PROVE  \E back, dead \in SUBSET JobIds : Lifecycle!Release(back, dead)
  <2>1. /\ outcome' = outcome /\ UNCHANGED <<issued, conc>>
        /\ hash'[j].status = "waiting"
        /\ \A i \in JobIds : i # j => hash'[i] = hash[i]
    BY <1>4, <1>5, <1>8 DEF FailRetry, RequeueActive, history
  <2>2. ASSUME NEW i \in JobIds, i # j PROVE Phase'[i] = Phase[i]
    BY <2>1, <2>2, SamePhase
  <2>3. Phase'[j] = "waiting"
    BY <1>3, <2>1 DEF Phase
  <2> QED BY <1>3, <2>1, <2>2, <2>3, OneReleased
<1>9. ASSUME Extend(j, token) PROVE UNCHANGED Lifecycle!vars
  BY <1>9 DEF Extend, Lifecycle!vars, Phase, Capacity, Limited, history
<1> QED BY <1>1, <1>6, <1>7, <1>8, <1>9 DEF Lifecycle!Next

\* A sweep releases the jobs whose lease expired.
LEMMA RecoverReleases ==
    ASSUME IInv, NEW policy \in FailedPolicies, Recover(policy)
    PROVE  \E back, dead \in SUBSET JobIds : Lifecycle!Release(back, dead)
<1>1. PICK swept \in Candidates :
        /\ IF Dead(swept) = {} THEN index' = index /\ hash' = Recovered(swept)
                               ELSE Retain(policy, "failed", Dead(swept), Recovered(swept))
        /\ outcome' = Announced("failed", Dead(swept))
        /\ UNCHANGED <<conc, issued>>
  BY Zenon DEF Recover
<1>2. /\ TypeOK /\ swept \subseteq JobIds
      /\ Retried(swept) \subseteq swept /\ Dead(swept) \subseteq swept
      /\ Retried(swept) \cap Dead(swept) = {}
  BY SweepFacts DEF IInv
<1>3. ASSUME NEW j \in Retried(swept) \cup Dead(swept)
      PROVE  j \in JobIds /\ Exists(j) /\ Phase[j] = "active" /\ outcome[j] = "none"
  <2>1. j \in swept /\ Exists(j)
    BY <1>3 DEF Retried, Dead, Present
  <2>2. j \in JobIds /\ j \in active
    BY <2>1, SweptIsActive
  <2> QED BY <2>1, <2>2, PhaseOfHash
<1>4. /\ Recovered(swept) \in [JobIds -> JobHash]
      /\ \A j \in JobIds :
           Recovered(swept)[j].status = IF j \in Retried(swept) THEN "waiting"
                                        ELSE IF j \in Dead(swept) THEN "failed"
                                        ELSE hash[j].status
  BY <1>2, HashUpdates, HashFields DEF Recovered, TypeOK, Statuses
<1>5. ASSUME NEW j \in JobIds, j \notin Dead(swept), outcome[j] = "none"
      PROVE  hash'[j].status = Recovered(swept)[j].status
  <2>1. outcome'[j] = outcome[j]
    BY <1>1, <1>5 DEF Announced
  <2>2. CASE Dead(swept) # {}
    BY <1>1, <1>2, <1>4, <1>5, <2>1, <2>2, RetainPhase, PolicyAssumption
  <2> QED BY <1>1, <2>2
<1>6. ASSUME NEW j \in JobIds
      PROVE  Phase'[j] = IF j \in Retried(swept) THEN "waiting"
                         ELSE IF j \in Dead(swept) THEN "failed" ELSE Phase[j]
  <2>1. CASE j \in Dead(swept)
    BY <1>1, <1>2, <2>1 DEF Phase, Announced
  <2>2. CASE j \in Retried(swept)
    <3>1. outcome'[j] = "none" /\ hash'[j].status = "waiting"
      BY <1>1, <1>2, <1>3, <1>4, <1>5, <2>2 DEF Announced
    <3> QED BY <2>2, <3>1 DEF Phase
  <2>3. CASE j \notin Dead(swept) /\ j \notin Retried(swept)
    BY <1>1, <1>4, <1>5, <2>3, SamePhase DEF Announced
  <2> QED BY <2>1, <2>2, <2>3
<1>7. Phase' = [j \in JobIds |-> Phase'[j]]
  BY DEF Phase
<1>8. Lifecycle!Release(Retried(swept), Dead(swept))
  <2>1. Retried(swept) \cup Dead(swept) \subseteq Lifecycle!InPhase("active")
    BY <1>3 DEF Lifecycle!InPhase
  <2>2. UNCHANGED <<issued, Capacity>>
    BY <1>1 DEF Capacity, Limited
  <2> QED BY <1>2, <1>6, <1>7, <2>1, <2>2 DEF Lifecycle!Release
<1> QED BY <1>2, <1>8

\* The loss of a hash loses a pending job and leaves a finished one finished.
LEMMA HashLostSteps ==
    ASSUME IInv, NEW j \in JobIds, HashLost(j)
    PROVE  Lifecycle!Lose(j) \/ UNCHANGED Lifecycle!vars
<1>1. /\ Exists(j) /\ TypeOK /\ UNCHANGED <<issued, conc>>
      /\ \A i \in JobIds : i # j => hash'[i] = hash[i] /\ outcome'[i] = outcome[i]
      /\ outcome'[j] = IF outcome[j] = "none" THEN "lost" ELSE outcome[j]
  BY DEF HashLost, IInv, TypeOK
<1>2. ASSUME NEW i \in JobIds, i # j PROVE Phase'[i] = Phase[i]
  BY <1>1, <1>2, SamePhase
<1>3. CASE outcome[j] = "none"
  <2>1. Phase[j] \in {"waiting", "active"}
    BY <1>1, <1>3 DEF IInv, JobInv, Recorded, Consistent, Exists, Phase
  <2>2. Phase'[j] = "lost"
    BY <1>1, <1>3 DEF Phase
  <2>3. Phase' = Lifecycle!Moved({j}, "lost")
    BY <1>2, <2>2, OneMoves
  <2> QED BY <1>1, <2>1, <2>3 DEF Lifecycle!Lose, Capacity, Limited
<1>4. CASE outcome[j] # "none"
  <2>1. Phase'[j] = Phase[j]
    BY <1>1, <1>4 DEF Phase
  <2>2. Phase' = Phase
    BY <1>2, <2>1 DEF Phase
  <2> QED BY <1>1, <2>2 DEF Lifecycle!vars, Capacity, Limited
<1> QED BY <1>3, <1>4

-------------------------------------------------------------------------------
\* The queue's scripts implement the job lifecycle, for any number of jobs,
\* limits, budgets, batch sizes and retention policies.
THEOREM Refinement == Spec => ImplementsLifecycle
<1>1. Init => Lifecycle!Init
  BY DEF Init, Lifecycle!Init, Phase, NoHash, Capacity, Limited, NoLimit
<1>2. IInv /\ [Next]_vars => [Lifecycle!Next]_(Lifecycle!vars)
  <2> SUFFICES ASSUME IInv, [Next]_vars
               PROVE  Lifecycle!Next \/ UNCHANGED Lifecycle!vars
    OBVIOUS
  <2>1. ASSUME NEW j \in JobIds, NEW retries \in RetryBudgets, NEW stalls \in StallBudgets,
               Enqueue(j, retries, stalls)
        PROVE  Lifecycle!Next
    BY <2>1, EnqueueSubmits DEF Lifecycle!Next
  <2>2. ASSUME NEW count \in 1..ClaimBatch, Claim(count) PROVE Lifecycle!Next
    <3>1. Granted(count) \in SUBSET JobIds
      BY <2>2, ClaimSplit, RangeOfSeq DEF IInv, TypeOK
    <3> QED BY <2>2, <3>1, ClaimGrants DEF Lifecycle!Next
  <2>3. ASSUME NEW j \in JobIds, Ack(j) PROVE Lifecycle!Next \/ UNCHANGED Lifecycle!vars
    BY <2>3, AckSteps
  <2>4. ASSUME NEW policy \in FailedPolicies, Recover(policy) PROVE Lifecycle!Next
    BY <2>4, RecoverReleases DEF Lifecycle!Next
  <2>5. ASSUME NEW limit \in Limits, NEW version \in Versions, Declare(limit, version)
        PROVE  Lifecycle!Next
    <3>1. Capacity' \in Nat
      BY <2>5, LimitAssumption DEF Declare, Capacity, Limited
    <3>2. UNCHANGED <<Phase, issued>>
      BY <2>5 DEF Declare, Phase, history
    <3> QED BY <3>1, <3>2 DEF Lifecycle!Next, Lifecycle!SetLimit
  <2>6. ASSUME NEW j \in JobIds, HashLost(j) PROVE Lifecycle!Next \/ UNCHANGED Lifecycle!vars
    BY <2>6, HashLostSteps DEF Lifecycle!Next
  <2>7. CASE RemoveLimit
    <3>1. Capacity' \in Nat
      BY <2>7 DEF RemoveLimit, Capacity, Limited, NoLimit
    <3>2. UNCHANGED <<Phase, issued>>
      BY <2>7 DEF RemoveLimit, Phase, history
    <3> QED BY <3>1, <3>2 DEF Lifecycle!Next, Lifecycle!SetLimit
  <2>8. CASE (\E j \in JobIds : LeaseExpires(j)) \/ UNCHANGED vars
    BY <2>8 DEF LeaseExpires, vars, store, history, Lifecycle!vars, Phase, Capacity, Limited
  <2> QED BY <2>1, <2>2, <2>3, <2>4, <2>5, <2>6, <2>7, <2>8 DEF Next
<1> QED BY <1>1, <1>2, Invariant, PTL DEF Spec, ImplementsLifecycle, Lifecycle!Spec

===============================================================================
