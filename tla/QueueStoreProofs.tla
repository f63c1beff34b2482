--------------------------- MODULE QueueStoreProofs ---------------------------
(***************************************************************************)
(* What the Lua scripts of a queue guarantee for any number of jobs, any   *)
(* budgets, limits, retention policies and batch sizes: first what LPUSH   *)
(* (Append), a batch of RPOPs (SubSeq) and a sweep's batch of LPUSHes (\o) *)
(* do to a list without duplicates, then the shape of every variable.      *)
(***************************************************************************)
EXTENDS QueueStore, SequenceTheorems, FiniteSetTheorems, TLAPS

\* Pushing an id adds exactly that id to the list.
LEMMA AppendElements ==
    ASSUME NEW S, NEW s \in Seq(S), NEW e \in S
    PROVE  Range(Append(s, e)) = Range(s) \cup {e}
<1>1. Append(s, e) = s \o <<e>> /\ <<e>> \in Seq(S)
  BY AppendIsConcat
<1>2. Range(<<e>>) = {e}
  <2>1. DOMAIN <<e>> = {1} /\ <<e>>[1] = e
    OBVIOUS
  <2> QED BY <2>1, Zenon DEF Range
<1>3. Range(s \o <<e>>) = Range(s) \cup Range(<<e>>)
  BY <1>1, RangeConcatenation
<1> QED BY <1>1, <1>2, <1>3, Zenon

\* Pushing an id the list does not hold keeps it free of duplicates.
LEMMA AppendInjection ==
    ASSUME NEW S, NEW s \in Seq(S), NEW e \in S, e \notin Range(s), IsInjective(s)
    PROVE  IsInjective(Append(s, e))
<1> DEFINE t == Append(s, e)
<1>1. /\ t \in Seq(S) /\ Len(t) = Len(s) + 1 /\ Len(s) \in Nat
      /\ \A i \in 1..Len(s) : t[i] = s[i]
      /\ t[Len(s) + 1] = e
  BY AppendProperties
<1>2. DOMAIN t = 1..(Len(s) + 1) /\ DOMAIN s = 1..Len(s)
  BY <1>1
<1>3. \A i \in 1..Len(s) : s[i] # e
  BY <1>2 DEF Range
<1> QED BY <1>1, <1>2, <1>3 DEF IsInjective

\* Popping the first k ids splits the list's elements in two.
LEMMA SplitElements ==
    ASSUME NEW S, NEW s \in Seq(S), NEW k \in 0..Len(s)
    PROVE  /\ SubSeq(s, 1, k) \in Seq(S)
           /\ SubSeq(s, k + 1, Len(s)) \in Seq(S)
           /\ Range(s) = Range(SubSeq(s, 1, k)) \cup Range(SubSeq(s, k + 1, Len(s)))
<1> DEFINE a == SubSeq(s, 1, k)
           b == SubSeq(s, k + 1, Len(s))
<1>1. a \in Seq(S) /\ b \in Seq(S)
  BY SubSeqProperties, LenProperties, ElementOfSeq
<1>2. s = a \o b
  <2>1. Len(s) \in Nat /\ s = SubSeq(s, 1, Len(s))
    BY LenProperties, SubSeqFull
  <2>2. SubSeq(s, 1, k) \o SubSeq(s, k + 1, Len(s)) = SubSeq(s, 1, Len(s))
    <3>1. 1 \in 1..(Len(s) + 1) /\ k \in (1 - 1)..Len(s) /\ Len(s) \in k..Len(s)
      BY <2>1
    <3> QED BY <3>1, ConcatAdjacentSubSeq
  <2> QED BY <2>1, <2>2, Zenon
<1> HIDE DEF a, b
<1>3. Range(a \o b) = Range(a) \cup Range(b)
  BY <1>1, RangeConcatenation
<1> QED BY <1>1, <1>2, <1>3, Zenon DEF a, b

\* In a list without duplicates the popped ids and the ids left are disjoint,
\* and the ids left have no duplicates either.
LEMMA SplitInjection ==
    ASSUME NEW S, NEW s \in Seq(S), NEW k \in 0..Len(s), IsInjective(s)
    PROVE  /\ IsInjective(SubSeq(s, k + 1, Len(s)))
           /\ Range(SubSeq(s, 1, k)) \cap Range(SubSeq(s, k + 1, Len(s))) = {}
<1> DEFINE a == SubSeq(s, 1, k)
           b == SubSeq(s, k + 1, Len(s))
<1>1. Len(s) \in Nat /\ DOMAIN s = 1..Len(s)
  BY LenProperties
<1>0. k \in Nat /\ Len(s) \in Nat /\ k <= Len(s)
  BY <1>1
<1>2. /\ DOMAIN a = 1..k
      /\ \A i \in 1..k : a[i] = s[i]
  <2>1. a \in Seq(S) /\ Len(a) = k /\ \A i \in 1..k : a[i] = s[i]
    BY <1>1, SubSeqProperties, ElementOfSeq
  <2> QED BY <2>1, LenProperties
<1>3. /\ DOMAIN b = 1..(Len(s) - k)
      /\ \A i \in 1..(Len(s) - k) : b[i] = s[k + i]
  <2>1. \A i \in (k + 1)..Len(s) : s[i] \in S
    BY <1>1, ElementOfSeq
  <2>2. /\ b \in Seq(S)
        /\ Len(b) = IF k + 1 <= Len(s) THEN Len(s) - (k + 1) + 1 ELSE 0
        /\ \A i \in 1..(Len(s) - (k + 1) + 1) : b[i] = s[(k + 1) + i - 1]
    BY <1>1, <2>1, SubSeqProperties
  <2>3. Len(b) = Len(s) - k /\ \A i \in 1..(Len(s) - k) : b[i] = s[k + i]
    <3>1. Len(b) = Len(s) - k
      <4>1. Len(b) = IF k + 1 <= Len(s) THEN Len(s) - (k + 1) + 1 ELSE 0
        BY <2>2, Zenon
      <4> HIDE DEF b
      <4> QED BY <1>0, <4>1
    <3>2. ASSUME NEW i \in 1..(Len(s) - k) PROVE b[i] = s[k + i]
      <4>1. i \in 1..(Len(s) - (k + 1) + 1) /\ (k + 1) + i - 1 = k + i
        BY <1>1
      <4> QED BY <2>2, <4>1
    <3> QED BY <3>1, <3>2
  <2> QED BY <2>2, <2>3, LenProperties
<1>4. IsInjective(b)
  BY <1>1, <1>3 DEF IsInjective
<1>5. \A i \in 1..k, m \in 1..(Len(s) - k) : a[i] # b[m]
  BY <1>1, <1>2, <1>3 DEF IsInjective
<1>6. Range(a) \cap Range(b) = {}
  <2> SUFFICES ASSUME NEW x \in Range(a), x \in Range(b) PROVE FALSE
    OBVIOUS
  <2>1. PICK i \in 1..k : x = a[i]
    BY <1>2 DEF Range
  <2>2. PICK m \in 1..(Len(s) - k) : x = b[m]
    BY <1>3 DEF Range
  <2> QED BY <1>5, <2>1, <2>2
<1> QED BY <1>4, <1>6

\* Pushing a batch of ids the list does not hold keeps it free of duplicates.
LEMMA ConcatInjection ==
    ASSUME NEW S, NEW s \in Seq(S), NEW t \in Seq(S), IsInjective(s), IsInjective(t),
           Range(s) \cap Range(t) = {}
    PROVE  IsInjective(s \o t)
<1> DEFINE u == s \o t
<1>1. /\ u \in Seq(S) /\ Len(u) = Len(s) + Len(t)
      /\ \A i \in 1..(Len(s) + Len(t)) : u[i] = IF i <= Len(s) THEN s[i] ELSE t[i - Len(s)]
  BY ConcatProperties
<1>2. /\ Len(s) \in Nat /\ Len(t) \in Nat /\ DOMAIN u = 1..(Len(s) + Len(t))
      /\ DOMAIN s = 1..Len(s) /\ DOMAIN t = 1..Len(t)
  BY <1>1, LenProperties
<1>3. \A i \in 1..Len(s), m \in 1..Len(t) : s[i] # t[m]
  BY <1>2 DEF Range
<1>4. ASSUME NEW i \in 1..(Len(s) + Len(t)), NEW m \in 1..(Len(s) + Len(t)), u[i] = u[m]
      PROVE  i = m
  <2>1. CASE i <= Len(s) /\ m <= Len(s)
    BY <1>1, <1>2, <1>4, <2>1 DEF IsInjective
  <2>2. CASE i > Len(s) /\ m > Len(s)
    <3>1. t[i - Len(s)] = t[m - Len(s)]
      BY <1>1, <1>2, <1>4, <2>2
    <3>2. i - Len(s) \in DOMAIN t /\ m - Len(s) \in DOMAIN t
      BY <1>2, <2>2
    <3> QED BY <1>2, <3>1, <3>2 DEF IsInjective
  <2>3. CASE i <= Len(s) /\ m > Len(s)
    BY <1>1, <1>2, <1>3, <1>4, <2>3
  <2>4. CASE i > Len(s) /\ m <= Len(s)
    BY <1>1, <1>2, <1>3, <1>4, <2>4
  <2> QED BY <1>2, <2>1, <2>2, <2>3, <2>4
<1> QED BY <1>2, <1>4 DEF IsInjective

\* An order of a finite set lists exactly its elements, each once.
LEMMA OrderElements ==
    ASSUME NEW T, IsFiniteSet(T), NEW order \in SetToSeqs(T)
    PROVE  order \in Seq(T) /\ IsInjective(order) /\ Range(order) = T
<1> DEFINE n == Cardinality(T)
<1>1. n \in Nat
  BY FS_CardinalityType
<1>2. /\ order \in [1..n -> T]
      /\ \A i, m \in 1..n : i # m => order[i] # order[m]
  BY DEF SetToSeqs
<1>3. order \in Seq(T)
  BY <1>1, <1>2, IsASeq
<1>4. IsInjective(order)
  BY <1>2 DEF IsInjective
<1>5. order \in Injection(1..n, T)
  BY <1>2, <1>4 DEF Injection
<1>6. Cardinality(1..n) = n
  BY <1>1, FS_Interval
<1>7. order \in Surjection(1..n, T)
  BY <1>5, <1>6, FS_Injection
<1>8. Range(order) = T
  BY <1>2, <1>7 DEF Surjection, Range
<1> QED BY <1>3, <1>4, <1>8

-------------------------------------------------------------------------------
\* Retention keeps a part of the old index and the newly finished jobs: it
\* never lists a job that is neither.
LEMMA SurvivorsBound ==
    ASSUME NEW policy \in Policies, NEW old, NEW new, NEW kept \in Survivors(policy, old, new)
    PROVE  kept \subseteq old \cup new
<1>1. policy.mode \in {"delete", "keep", "trim"} /\ policy.ttl \in -1..1
  BY DEF Policies
<1>2. CASE policy.mode = "trim"
  <2>1. kept \in Trimmed(policy, old, new)
    BY <1>2 DEF Survivors
  <2>2. PICK aged \in IF policy.ttl < 0 THEN {{}} ELSE SUBSET old :
               kept \subseteq (old \ aged) \cup (IF policy.ttl = 0 THEN {} ELSE new)
    BY <2>1, Zenon DEF Trimmed
  <2> QED BY <2>2
<1>3. CASE policy.mode # "trim"
  BY <1>1, <1>3 DEF Survivors
<1> QED BY <1>2, <1>3

\* The value of a missing hash has the shape of a hash.
LEMMA NoHashType == NoHash \in JobHash
BY DEF NoHash, JobHash, Statuses

\* "kept" is what stays of index s, and the jobs dropped from it lose their hash.
Retained(kept, s, new, h) ==
    /\ kept \subseteq index[s] \cup new
    /\ index' = [index EXCEPT ![s] = kept]
    /\ \A i \in JobIds :
         hash'[i] = IF i \in (index[s] \cup new) \ kept THEN NoHash ELSE h[i]

\* What retentionLua leaves of an index and of the hashes it may delete.
LEMMA RetainEffect ==
    ASSUME NEW policy \in Policies, NEW s \in {"completed", "failed"}, NEW new \in SUBSET JobIds,
           NEW h \in [JobIds -> JobHash], index \in [{"completed", "failed"} -> SUBSET JobIds],
           Retain(policy, s, new, h)
    PROVE  /\ index' \in [{"completed", "failed"} -> SUBSET JobIds]
           /\ hash' \in [JobIds -> JobHash]
           /\ \E kept \in SUBSET JobIds : Retained(kept, s, new, h)
<1>1. PICK kept \in Survivors(policy, index[s], new) :
        /\ index' = [index EXCEPT ![s] = kept]
        /\ hash' = [j \in JobIds |->
                      IF j \in (index[s] \cup new) \ kept THEN NoHash ELSE h[j]]
  BY DEF Retain
<1>2. kept \subseteq index[s] \cup new
  BY SurvivorsBound
<1>3. index[s] \subseteq JobIds
  OBVIOUS
<1> QED BY <1>1, <1>2, <1>3, NoHashType DEF Retained

\* What the scripts write into a hash is a hash.
LEMMA HashUpdates ==
    ASSUME NEW h \in JobHash, NEW s \in Statuses
    PROVE  /\ Run(h) \in JobHash
           /\ Settled(h, s) \in JobHash
           /\ Failed(h, s) \in JobHash
           /\ Stalled(h, s) \in JobHash
           /\ h.runs + 1 \in Nat
<1>0. h.runs + 1 \in Nat /\ h.failures + 1 \in Nat /\ h.stalls + 1 \in Nat
  BY DEF JobHash
<1>1. Run(h) \in JobHash /\ h.runs + 1 \in Nat
  BY <1>0 DEF JobHash, Statuses, Run
<1>2. Settled(h, s) \in JobHash
  BY DEF JobHash, Statuses, Settled
<1>3. Failed(h, s) \in JobHash
  BY <1>0 DEF JobHash, Statuses, Failed
<1>4. Stalled(h, s) \in JobHash
  BY <1>0 DEF JobHash, Statuses, Stalled
<1> QED BY <1>1, <1>2, <1>3, <1>4

\* Every subset of the job ids has a size.
LEMMA JobSetSize ==
    ASSUME NEW S \in SUBSET JobIds
    PROVE  IsFiniteSet(S) /\ Cardinality(S) \in Nat
BY JobIdsAssumption, FS_Subset, FS_CardinalityType

-------------------------------------------------------------------------------
\* An empty Redis is well typed.
LEMMA TypeInit == Init => TypeOK
<1> SUFFICES ASSUME Init PROVE TypeOK
  OBVIOUS
<1>1. <<>> \in Seq(JobIds)
  BY EmptySeq
<1>2. NoLimit \in [limit : Nat, version : Nat]
  BY DEF NoLimit
<1> QED BY <1>1, <1>2, NoHashType DEF Init, TypeOK, Outcomes

\* enqueue writes a full job hash and one pointer.
LEMMA TypeEnqueue ==
    ASSUME TypeOK, NEW j \in JobIds, NEW retries \in RetryBudgets, NEW stalls \in StallBudgets,
           Enqueue(j, retries, stalls)
    PROVE  TypeOK'
<1>1. Append(waiting, j) \in Seq(JobIds) /\ Append(born, j) \in Seq(JobIds)
  BY AppendProperties DEF TypeOK
<1>2. [NoHash EXCEPT !.status = "waiting", !.maxRetries = retries, !.maxStalls = stalls] \in JobHash
  BY NoHashType, BudgetAssumption DEF JobHash, Statuses
<1> QED BY <1>1, <1>2 DEF TypeOK, Enqueue

\* The batch a claim pops: between 1 and Len(waiting) pointers.
LEMMA ClaimBatchSize ==
    ASSUME TypeOK, NEW count \in 1..ClaimBatch, BatchSize(count) >= 1
    PROVE  /\ BatchSize(count) \in 1..Len(waiting)
           /\ BatchSize(count) <= Free(count)
<1>1. Cardinality(active) \in Nat /\ Len(waiting) \in Nat /\ conc.limit \in Nat /\ count \in Nat
  BY JobSetSize, LenProperties, BatchAssumption DEF TypeOK
<1> QED BY <1>1 DEF Smaller, Free, BatchSize

\* The waiting list before a claim is the popped part, which names the granted
\* jobs, followed by what the claim leaves.
LEMMA ClaimSplit ==
    ASSUME TypeOK, NEW count \in 1..ClaimBatch, Claim(count)
    PROVE  /\ waiting' \in Seq(JobIds)
           /\ Granted(count) \subseteq Range(waiting)
           /\ Range(waiting)' \subseteq Range(waiting)
           /\ \A j \in Range(waiting) : Exists(j) => j \in Range(waiting)' \/ j \in Granted(count)
           /\ IsInjective(waiting) => /\ IsInjective(waiting)'
                                      /\ Granted(count) \cap Range(waiting)' = {}
<1> DEFINE k == BatchSize(count)
           popped == SubSeq(waiting, 1, k)
           left == SubSeq(waiting, k + 1, Len(waiting))
<1>1. k \in 0..Len(waiting) /\ waiting \in Seq(JobIds)
  BY ClaimBatchSize DEF Claim, TypeOK
<1>2. left \in Seq(JobIds) /\ Range(waiting) = Range(popped) \cup Range(left)
  BY <1>1, SplitElements
<1>3. IsInjective(waiting) => IsInjective(left) /\ Range(popped) \cap Range(left) = {}
  BY <1>1, SplitInjection
<1>4. waiting' = left
  BY DEF Claim
<1>5. Granted(count) = {j \in Range(popped) : Exists(j)}
  BY DEF Granted
<1> HIDE DEF popped, left
<1> QED BY <1>2, <1>3, <1>4, <1>5

\* A claim moves pointers and opens a run in each hash it finds.
LEMMA TypeClaim ==
    ASSUME TypeOK, NEW count \in 1..ClaimBatch, Claim(count)
    PROVE  TypeOK'
<1>1. waiting' \in Seq(JobIds) /\ Granted(count) \subseteq JobIds
  BY ClaimSplit, RangeOfSeq DEF TypeOK
<1>2. ASSUME NEW j \in JobIds
      PROVE  hash[j].runs + 1 \in Nat /\ Run(hash[j]) \in JobHash
  BY HashUpdates DEF TypeOK, Statuses
<1>3. hash' \in [JobIds -> JobHash] /\ issued' \in [JobIds -> Nat]
  BY <1>2 DEF Claim, TypeOK
<1>4. active' \subseteq JobIds /\ expired' \subseteq active'
  BY <1>1 DEF Claim, TypeOK
<1>5. published' \in BOOLEAN
  BY DEF Claim
<1>6. UNCHANGED <<index, conc, born, handoffs, outcome>>
  BY DEF Claim
<1> QED BY <1>1, <1>3, <1>4, <1>5, <1>6 DEF TypeOK

\* The callers that present a token hold the lease it was issued for, so the
\* four acknowledgements change the same part of the state.
LEMMA TypeAck ==
    ASSUME TypeOK, NEW j \in JobIds, Ack(j)
    PROVE  TypeOK'
<1>1. PICK token \in Tokens(j) :
        \/ \E policy \in CompletedPolicies : Complete(j, token, policy)
        \/ FailRetry(j, token)
        \/ \E policy \in FailedPolicies : FailFinal(j, token, policy)
        \/ Extend(j, token)
        \/ RequeueActive(j, token)
  BY Zenon DEF Ack
<1>2. Append(waiting, j) \in Seq(JobIds)
  BY AppendProperties DEF TypeOK
<1>3. ASSUME NEW s \in Statuses
      PROVE  /\ [hash EXCEPT ![j] = Settled(hash[j], s)] \in [JobIds -> JobHash]
             /\ [hash EXCEPT ![j] = Failed(hash[j], s)] \in [JobIds -> JobHash]
  <2>1. Settled(hash[j], s) \in JobHash /\ Failed(hash[j], s) \in JobHash
    BY HashUpdates DEF TypeOK
  <2> QED BY <2>1 DEF TypeOK
<1>4. CASE \E policy \in CompletedPolicies : Complete(j, token, policy)
  <2>1. PICK policy \in CompletedPolicies : Complete(j, token, policy)
    BY <1>4
  <2>2. index' \in [{"completed", "failed"} -> SUBSET JobIds] /\ hash' \in [JobIds -> JobHash]
    BY <1>3, <2>1, RetainEffect, PolicyAssumption DEF Complete, TypeOK, Statuses
  <2> QED BY <2>1, <2>2 DEF Complete, TypeOK, Announced, Outcomes, PermitWanted
<1>5. CASE FailRetry(j, token)
  BY <1>2, <1>3, <1>5 DEF FailRetry, TypeOK, Statuses, history
<1>6. CASE \E policy \in FailedPolicies : FailFinal(j, token, policy)
  <2>1. PICK policy \in FailedPolicies : FailFinal(j, token, policy)
    BY <1>6
  <2>2. index' \in [{"completed", "failed"} -> SUBSET JobIds] /\ hash' \in [JobIds -> JobHash]
    BY <1>3, <2>1, RetainEffect, PolicyAssumption DEF FailFinal, TypeOK, Statuses
  <2> QED BY <2>1, <2>2 DEF FailFinal, TypeOK, Announced, Outcomes, PermitWanted
<1>7. CASE Extend(j, token)
  BY <1>7 DEF Extend, TypeOK, history
<1>8. CASE RequeueActive(j, token)
  BY <1>2, <1>3, <1>8 DEF RequeueActive, TypeOK, Statuses
<1> QED BY <1>1, <1>4, <1>5, <1>6, <1>7, <1>8

\* What a sweep takes is expired, hence active; the batch it retries is listed
\* once each, in some order.
LEMMA SweepFacts ==
    ASSUME TypeOK, NEW swept \in Candidates
    PROVE  /\ swept \subseteq expired /\ swept \subseteq active /\ swept \subseteq JobIds
           /\ Retried(swept) \subseteq swept /\ Dead(swept) \subseteq swept
           /\ Retried(swept) \cap Dead(swept) = {}
           /\ \A order \in SetToSeqs(Retried(swept)) :
                /\ order \in Seq(JobIds) /\ IsInjective(order)
                /\ Range(order) = Retried(swept)
<1>1. /\ swept \subseteq expired /\ swept \subseteq active /\ swept \subseteq JobIds
      /\ Retried(swept) \subseteq swept /\ Dead(swept) \subseteq swept
      /\ Retried(swept) \cap Dead(swept) = {}
  BY DEF Candidates, TypeOK, Retried, Dead, Present
<1>2. IsFiniteSet(Retried(swept)) /\ Retried(swept) \subseteq JobIds
  BY <1>1, JobSetSize
<1>3. ASSUME NEW order \in SetToSeqs(Retried(swept))
      PROVE  order \in Seq(JobIds) /\ IsInjective(order) /\ Range(order) = Retried(swept)
  BY <1>2, OrderElements, SeqMonotonic
<1> QED BY <1>1, <1>3

\* A sweep writes hashes, pointers and index entries of their types.
LEMMA TypeRecover ==
    ASSUME TypeOK, NEW policy \in FailedPolicies, Recover(policy)
    PROVE  TypeOK'
<1>1. PICK swept \in Candidates :
        /\ active' = active \ swept
        /\ expired' = expired \ swept
        /\ \E order \in SetToSeqs(Retried(swept)) : waiting' = waiting \o order
        /\ IF Dead(swept) = {} THEN index' = index /\ hash' = Recovered(swept)
                               ELSE Retain(policy, "failed", Dead(swept), Recovered(swept))
        /\ published' = (Retried(swept) # {} \/ PermitWanted)
        /\ outcome' = Announced("failed", Dead(swept))
        /\ UNCHANGED <<conc, born, issued, handoffs>>
  BY Zenon DEF Recover
<1>2. waiting' \in Seq(JobIds)
  BY <1>1, SweepFacts, ConcatProperties DEF TypeOK
<1>3. Recovered(swept) \in [JobIds -> JobHash]
  BY HashUpdates DEF TypeOK, Recovered, Statuses
<1>4. index' \in [{"completed", "failed"} -> SUBSET JobIds] /\ hash' \in [JobIds -> JobHash]
  <2>1. CASE Dead(swept) = {}
    BY <1>1, <1>3, <2>1 DEF TypeOK
  <2>2. CASE Dead(swept) # {}
    <3>1. Retain(policy, "failed", Dead(swept), Recovered(swept)) /\ Dead(swept) \subseteq JobIds
      BY <1>1, <2>2, SweepFacts
    <3> QED BY <1>3, <3>1, RetainEffect, PolicyAssumption DEF TypeOK
  <2> QED BY <2>1, <2>2
<1>5. outcome' \in [JobIds -> Outcomes]
  BY <1>1 DEF TypeOK, Announced, Outcomes
<1>6. active' \subseteq JobIds /\ expired' \subseteq active' /\ published' \in BOOLEAN
  BY <1>1 DEF TypeOK, PermitWanted
<1> QED BY <1>1, <1>2, <1>4, <1>5, <1>6 DEF TypeOK

\* No script and no event of the environment breaks a type.
LEMMA TypeNext == TypeOK /\ [Next]_vars => TypeOK'
<1> SUFFICES ASSUME TypeOK, [Next]_vars PROVE TypeOK'
  OBVIOUS
<1>1. ASSUME NEW j \in JobIds, NEW retries \in RetryBudgets, NEW stalls \in StallBudgets,
             Enqueue(j, retries, stalls)
      PROVE  TypeOK'
  BY <1>1, TypeEnqueue
<1>2. ASSUME NEW count \in 1..ClaimBatch, Claim(count) PROVE TypeOK'
  BY <1>2, TypeClaim
<1>3. ASSUME NEW j \in JobIds, Ack(j) PROVE TypeOK'
  BY <1>3, TypeAck
<1>4. ASSUME NEW policy \in FailedPolicies, Recover(policy) PROVE TypeOK'
  BY <1>4, TypeRecover
<1>5. ASSUME NEW limit \in Limits, NEW version \in Versions, Declare(limit, version) PROVE TypeOK'
  BY <1>5, LimitAssumption DEF Declare, TypeOK, history
<1>6. ASSUME NEW j \in JobIds, LeaseExpires(j) PROVE TypeOK'
  BY <1>6 DEF LeaseExpires, TypeOK, history
<1>7. ASSUME NEW j \in JobIds, HashLost(j) PROVE TypeOK'
  BY <1>7, NoHashType DEF HashLost, TypeOK, Outcomes
<1>8. CASE RemoveLimit
  BY <1>8 DEF RemoveLimit, TypeOK, NoLimit, history
<1>9. CASE UNCHANGED vars
  BY <1>9 DEF vars, store, history, TypeOK
<1> QED BY <1>1, <1>2, <1>3, <1>4, <1>5, <1>6, <1>7, <1>8, <1>9 DEF Next

\* In every reachable state each Redis key of the queue has its shape: the
\* sweep, the claim and the acknowledgements never write anything else.
THEOREM TypeCorrect == Spec => []TypeOK
BY TypeInit, TypeNext, PTL DEF Spec

===============================================================================
