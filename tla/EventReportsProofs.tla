-------------------------- MODULE EventReportsProofs --------------------------
(***************************************************************************)
(* What the event handlers hear of a queue, for any number of jobs,        *)
(* workers and replies: a run is judged once, what is reported has         *)
(* happened, a corrupt job is counted once per hand-out, a healthy sibling *)
(* of it runs, and a job that no worker can decode ends as failed.         *)
(***************************************************************************)
EXTENDS EventReports, QueueStoreSafety

-------------------------------------------------------------------------------
(* What the scripts leave in the hashes. *)

\* An acknowledgement settles its job; it leaves others alone, or they go.
LEMMA AckHash ==
    ASSUME IInv, NEW j \in JobIds, NEW token \in Tokens(j), NEW i \in JobIds, Exists(i)'
    PROVE  /\ \A policy \in CompletedPolicies : Complete(j, token, policy) =>
                hash'[i] = IF i = j THEN Settled(hash[j], "completed") ELSE hash[i]
           /\ FailRetry(j, token) =>
                hash'[i] = IF i = j THEN Failed(hash[j], "waiting") ELSE hash[i]
           /\ \A policy \in FailedPolicies : FailFinal(j, token, policy) =>
                hash'[i] = IF i = j THEN Failed(hash[j], "failed") ELSE hash[i]
           /\ RequeueActive(j, token) =>
                hash'[i] = IF i = j THEN Settled(hash[j], "waiting") ELSE hash[i]
<1>1. TypeOK /\ hash \in [JobIds -> JobHash]
  BY DEF IInv, TypeOK
<1>2. /\ Settled(hash[j], "completed") \in JobHash /\ Failed(hash[j], "failed") \in JobHash
  BY <1>1, HashUpdates DEF Statuses
<1>3. ASSUME NEW f \in JobHash, NEW s \in {"completed", "failed"}, NEW policy \in Policies,
             Retain(policy, s, {j}, [hash EXCEPT ![j] = f])
      PROVE  hash'[i] = IF i = j THEN f ELSE hash[i]
  <2> DEFINE h == [hash EXCEPT ![j] = f]
  <2>1. h \in [JobIds -> JobHash] /\ h[i] = IF i = j THEN f ELSE hash[i]
    BY <1>1
  <2>2. Retain(policy, s, {j}, h)
    BY <1>3
  <2> HIDE DEF h
  <2> QED BY <1>1, <2>1, <2>2, RetainKeeps
<1>4. CompletedPolicies \subseteq Policies /\ FailedPolicies \subseteq Policies
  BY PolicyAssumption
<1>5. ASSUME NEW policy \in CompletedPolicies, Complete(j, token, policy)
      PROVE  hash'[i] = IF i = j THEN Settled(hash[j], "completed") ELSE hash[i]
  BY <1>2, <1>3, <1>4, <1>5 DEF Complete
<1>6. ASSUME NEW policy \in FailedPolicies, FailFinal(j, token, policy)
      PROVE  hash'[i] = IF i = j THEN Failed(hash[j], "failed") ELSE hash[i]
  BY <1>2, <1>3, <1>4, <1>6 DEF FailFinal
<1>7. FailRetry(j, token) => hash'[i] = IF i = j THEN Failed(hash[j], "waiting") ELSE hash[i]
  BY <1>1 DEF FailRetry
<1>8. RequeueActive(j, token) => hash'[i] = IF i = j THEN Settled(hash[j], "waiting") ELSE hash[i]
  BY <1>1 DEF RequeueActive
<1> QED BY <1>5, <1>6, <1>7, <1>8

\* A sweep counts a stall for the jobs it takes and leaves the others alone.
LEMMA RecoverHash ==
    ASSUME IInv, NEW policy \in FailedPolicies, Recover(policy), NEW i \in JobIds, Exists(i)'
    PROVE  IF i \in expired \ expired'
           THEN /\ Exists(i) /\ i \in active /\ i \notin active'
                /\ IF i \in Retried(expired) THEN hash'[i] = Stalled(hash[i], "waiting")
                   ELSE hash'[i] = Stalled(hash[i], "failed") /\ outcome'[i] = "failed"
           ELSE hash'[i] = hash[i]
<1>1. TypeOK /\ hash \in [JobIds -> JobHash] /\ expired \subseteq active
  BY DEF IInv, TypeOK
<1>2. PICK swept \in Candidates :
        /\ active' = active \ swept
        /\ expired' = expired \ swept
        /\ IF Dead(swept) = {} THEN index' = index /\ hash' = Recovered(swept)
                               ELSE Retain(policy, "failed", Dead(swept), Recovered(swept))
        /\ outcome' = Announced("failed", Dead(swept))
  BY Zenon DEF Recover
<1>3. /\ swept \subseteq expired /\ Retried(swept) \subseteq swept /\ Dead(swept) \subseteq swept
      /\ swept \subseteq JobIds
  BY <1>1, SweepFacts
<1>4. Recovered(swept) \in [JobIds -> JobHash]
  BY <1>1, HashUpdates DEF Recovered, Statuses
<1>5. hash'[i] = Recovered(swept)[i]
  <2>1. CASE Dead(swept) = {}
    BY <1>2, <2>1
  <2>2. CASE Dead(swept) # {}
    BY <1>1, <1>2, <1>3, <1>4, <2>2, RetainKeeps, PolicyAssumption
  <2> QED BY <2>1, <2>2
<1>6. i \in expired \ expired' <=> i \in swept
  BY <1>2, <1>3
<1>7. CASE i \notin swept
  BY <1>3, <1>5, <1>6, <1>7 DEF Recovered
<1>8. CASE i \in swept
  <2>1. Exists(i)
    BY <1>3, <1>5 DEF Recovered, Exists, Retried, Dead, Present
  <2>2. i \in Retried(swept) <=> i \in Retried(expired)
    BY <1>3, <1>8 DEF Retried, Present
  <2>3. i \in Retried(swept) \/ i \in Dead(swept)
    BY <1>8, <2>1 DEF Dead, Present
  <2>4. i \notin Retried(swept) => hash'[i] = Stalled(hash[i], "failed") /\ outcome'[i] = "failed"
    BY <1>2, <1>5, <2>3 DEF Recovered, Announced
  <2> QED BY <1>1, <1>2, <1>3, <1>5, <1>6, <1>8, <2>1, <2>2, <2>4 DEF Recovered
<1> QED BY <1>7, <1>8

\* The counters of a hash never go back; it is born with them at zero.
Grown(j) ==
    /\ Exists(j)
    /\ hash'[j].failures >= hash[j].failures /\ hash'[j].stalls >= hash[j].stalls
    /\ hash'[j].maxRetries = hash[j].maxRetries /\ hash'[j].maxStalls = hash[j].maxStalls

LEMMA CountersGrow ==
    ASSUME IInv, [Next]_vars, NEW j \in JobIds, Exists(j)'
    PROVE  Grown(j) \/ j \notin Range(born)
<1>1. TypeOK /\ hash \in [JobIds -> JobHash]
  BY DEF IInv, TypeOK
<1>2. /\ hash[j] \in JobHash /\ hash[j].failures \in Nat /\ hash[j].stalls \in Nat
      /\ "waiting" \in Statuses /\ "failed" \in Statuses /\ "completed" \in Statuses
  BY <1>1, HashShape DEF Statuses
<1>3. ASSUME hash'[j] = hash[j] PROVE Grown(j)
  BY <1>2, <1>3 DEF Grown, Exists
<1>4. ASSUME Exists(j), NEW s \in Statuses,
             \/ hash'[j] = Settled(hash[j], s) \/ hash'[j] = Failed(hash[j], s)
             \/ hash'[j] = Stalled(hash[j], s) \/ hash'[j] = Run(hash[j])
      PROVE  Grown(j)
  BY <1>2, <1>4, HashFields DEF Grown
<1>5. ASSUME NEW i \in JobIds, NEW retries \in RetryBudgets, NEW stalls \in StallBudgets,
             Enqueue(i, retries, stalls)
      PROVE  Grown(j) \/ j \notin Range(born)
  <2>1. i = j => j \notin Range(born)
    BY <1>5 DEF Enqueue, Generated
  <2>2. i # j => hash'[j] = hash[j]
    BY <1>1, <1>5 DEF Enqueue
  <2> QED BY <1>3, <2>1, <2>2
<1>6. ASSUME NEW count \in 1..ClaimBatch, Claim(count) PROVE Grown(j)
  <2>1. hash'[j] = IF j \in Granted(count) THEN Run(hash[j]) ELSE hash[j]
    BY <1>6 DEF Claim
  <2> QED BY <1>2, <1>3, <1>4, <2>1 DEF Granted
<1>7. ASSUME NEW i \in JobIds, Ack(i) PROVE Grown(j)
  <2>1. PICK token \in Tokens(i) :
          \/ \E policy \in CompletedPolicies : Complete(i, token, policy)
          \/ FailRetry(i, token)
          \/ \E policy \in FailedPolicies : FailFinal(i, token, policy)
          \/ Extend(i, token)
          \/ RequeueActive(i, token)
    BY <1>7, Zenon DEF Ack
  <2>2. CASE Extend(i, token)
    BY <1>3, <2>2 DEF Extend
  <2>3. CASE ~Extend(i, token)
    <3>1. \/ hash'[j] = hash[j]
          \/ /\ i = j
             /\ \/ hash'[j] = Settled(hash[j], "completed") \/ hash'[j] = Settled(hash[j], "waiting")
                \/ hash'[j] = Failed(hash[j], "waiting") \/ hash'[j] = Failed(hash[j], "failed")
      BY <2>1, <2>3, AckHash
    <3>2. Exists(i)
      BY <2>1, <2>3 DEF Complete, FailRetry, FailFinal, RequeueActive, Holds
    <3> QED BY <1>2, <1>3, <1>4, <3>1, <3>2
  <2> QED BY <2>2, <2>3
<1>8. ASSUME NEW policy \in FailedPolicies, Recover(policy) PROVE Grown(j)
  BY <1>2, <1>3, <1>4, <1>8, RecoverHash
<1>9. ASSUME NEW i \in JobIds, HashLost(i) PROVE Grown(j)
  BY <1>1, <1>3, <1>9 DEF HashLost, Exists
<1>10. ASSUME \/ \E limit \in Limits, version \in Versions : Declare(limit, version)
              \/ \E i \in JobIds : LeaseExpires(i)
              \/ RemoveLimit
              \/ UNCHANGED vars
       PROVE  Grown(j)
  BY <1>3, <1>10 DEF Declare, LeaseExpires, RemoveLimit, vars, store
<1> QED BY <1>5, <1>6, <1>7, <1>8, <1>9, <1>10 DEF Next

-------------------------------------------------------------------------------
(* The replies under way. *)

\* A reply has one entry per job.
OneEach(reply) == \A l, m \in reply : l.job = m.job => l = m

RepliesOK ==
    /\ ReportsTypeOK
    /\ IsFiniteSet(claimed) /\ IsFiniteSet(sweeps)
    /\ \A reply \in claimed :
         OneEach(reply) /\ \A l \in reply : l.token = 0 \/ l.token \in Tokens(l.job)
    /\ \A reply \in sweeps : OneEach(reply)

\* Whatever the workers do, Redis sees one script or nothing.
LEMMA ReportsStep ==
    ASSUME RepliesOK, [ReportsNext]_observed
    PROVE  [Next]_vars
<1>1. CASE UNCHANGED <<store, history>>
  BY <1>1 DEF vars
<1>2. ASSUME NEW count \in 1..ClaimBatch, Claims(count) PROVE Next
  BY <1>2 DEF Claims, Next
<1>3. ASSUME NEW l \in running, NEW phase \in Phases, Ends(l, phase) PROVE [Next]_vars
  <2>1. l.job \in JobIds /\ l.token \in Tokens(l.job)
    BY DEF RepliesOK, ReportsTypeOK, Tokens, Lease
  <2>2. \/ \E p \in CompletedPolicies : Complete(l.job, l.token, p)
        \/ FailRetry(l.job, l.token)
        \/ \E p \in FailedPolicies : FailFinal(l.job, l.token, p)
        \/ UNCHANGED <<store, history>>
    BY <1>3 DEF Ends
  <2>3. Ack(l.job) \/ UNCHANGED <<store, history>>
    BY <2>1, <2>2 DEF Ack
  <2> QED BY <2>1, <2>3 DEF Next, vars
<1>4. CASE Sweeps
  BY <1>4 DEF Sweeps, Next
<1>5. CASE Environment
  BY <1>5 DEF Environment, Next
<1>6. ASSUME NEW reply \in claimed, ClaimRead(reply) \/ ClaimLost(reply)
      PROVE  UNCHANGED <<store, history>>
  BY <1>6 DEF ClaimRead, ClaimLost
<1>7. ASSUME NEW l \in running, NEW phase \in Phases, AckLost(l, phase)
      PROVE  UNCHANGED <<store, history>>
  BY <1>7 DEF AckLost
<1>8. ASSUME NEW a \in acked, AckRead(a) \/ AnswerLost(a) PROVE UNCHANGED <<store, history>>
  BY <1>8 DEF AckRead, AnswerLost
<1>9. ASSUME NEW reply \in sweeps, SweepRead(reply) \/ SweepThrows(reply) \/ SweepLost(reply)
      PROVE  UNCHANGED <<store, history>>
  BY <1>9 DEF SweepRead, SweepThrows, SweepLost
<1>10. CASE UNCHANGED observed
  BY <1>1, <1>10 DEF observed
<1> QED BY <1>1, <1>2, <1>3, <1>4, <1>5, <1>6, <1>7, <1>8, <1>9, <1>10 DEF ReportsNext

\* What a reply says of one job.
LEMMA OneEntry ==
    ASSUME NEW reply, OneEach(reply), NEW bad \in SUBSET reply, NEW j
    PROVE  Cardinality({l \in bad : l.job = j}) = IF \E l \in bad : l.job = j THEN 1 ELSE 0
<1> DEFINE S == {l \in bad : l.job = j}
<1>1. CASE \E l \in bad : l.job = j
  <2>1. PICK l \in bad : l.job = j
    BY <1>1
  <2>2. S = {l}
    BY <2>1 DEF OneEach
  <2> HIDE DEF S
  <2>3. Cardinality(S) = 1
    BY <2>2, FS_Singleton
  <2> QED BY <1>1, <2>3 DEF S
<1>2. CASE ~ \E l \in bad : l.job = j
  <2>1. S = {}
    BY <1>2
  <2> HIDE DEF S
  <2>2. Cardinality(S) = 0
    BY <2>1, FS_EmptySet
  <2> QED BY <1>2, <2>2 DEF S
<1> QED BY <1>1, <1>2

\* What a claim hands out: a fresh lease for each job whose hash is there.
LEMMA ClaimReply ==
    ASSUME IInv, NEW count \in 1..ClaimBatch, Claim(count),
           NEW popped, popped = Range(SubSeq(waiting, 1, BatchSize(count))),
           NEW reply, reply = {[job |-> j, token |-> hash'[j].token] : j \in Granted(count)}
                                \cup {DeadPointer(j) : j \in popped \ Granted(count)}
    PROVE  /\ popped \subseteq Range(waiting) /\ popped \subseteq JobIds
           /\ Granted(count) = {j \in popped : Exists(j)}
           /\ \A j \in popped : j \notin Range(waiting)'
           /\ reply \subseteq Lease /\ OneEach(reply)
           /\ \A l \in reply : /\ l.job \in popped
                               /\ IF Exists(l.job)
                                  THEN /\ l.token = issued'[l.job] /\ l.token = issued[l.job] + 1
                                       /\ l.token = hash'[l.job].token
                                  ELSE l.token = 0
           /\ \A j \in popped : \E l \in reply : l.job = j
<1> DEFINE c == BatchSize(count)
<1>1. TypeOK /\ waiting \in Seq(JobIds) /\ c \in 0..Len(waiting) /\ IsInjective(waiting)
      /\ hash \in [JobIds -> JobHash] /\ issued \in [JobIds -> Nat]
  <2>1. TypeOK /\ IsInjective(waiting)
    BY DEF IInv
  <2>2. c \in 1..Len(waiting)
    BY <2>1, ClaimBatchSize DEF Claim
  <2> HIDE DEF c
  <2>3. c \in 0..Len(waiting)
    BY <2>2
  <2> QED BY <2>1, <2>3 DEF TypeOK
<1>2. waiting' = SubSeq(waiting, c + 1, Len(waiting))
  BY DEF Claim
<1> HIDE DEF c
<1>3. /\ Range(SubSeq(waiting, 1, c)) \cap Range(waiting)' = {}
      /\ Range(SubSeq(waiting, 1, c)) \subseteq Range(waiting)
  BY <1>1, <1>2, SplitInjection, SplitElements
<1>4. /\ popped \subseteq Range(waiting) /\ popped \cap Range(waiting)' = {}
      /\ popped \subseteq JobIds /\ Granted(count) = {j \in popped : Exists(j)}
  BY <1>1, <1>3, RangeOfSeq DEF c, Granted
<1>5. ASSUME NEW j \in Granted(count)
      PROVE  /\ hash'[j].token = issued'[j] /\ issued'[j] = issued[j] + 1 /\ issued[j] \in Nat
  <2>1. j \in JobIds /\ hash[j].runs = issued[j]
    BY <1>4 DEF IInv, JobInv, Recorded, Exists
  <2>2. hash'[j] = Run(hash[j]) /\ issued'[j] = hash[j].runs + 1
    BY <2>1 DEF Claim
  <2>3. hash[j] \in JobHash /\ "active" \in Statuses
    BY <1>1, <2>1 DEF Statuses
  <2>4. Run(hash[j]).token = hash[j].runs + 1
    BY <2>3, HashFields
  <2> QED BY <1>1, <2>1, <2>2, <2>4
<1>6. ASSUME NEW l \in reply
      PROVE  /\ l \in Lease /\ l.job \in popped
             /\ IF Exists(l.job)
                THEN /\ l.token = issued'[l.job] /\ l.token = issued[l.job] + 1
                     /\ l.token = hash'[l.job].token
                ELSE l.token = 0
  <2>1. CASE \E j \in Granted(count) : l = [job |-> j, token |-> hash'[j].token]
    <3>1. PICK j \in Granted(count) : l = [job |-> j, token |-> hash'[j].token]
      BY <2>1
    <3>2. j \in JobIds /\ j \in popped /\ Exists(j) /\ hash'[j].token \in Nat
      BY <1>4, <1>5
    <3> QED BY <1>5, <3>1, <3>2 DEF Lease
  <2>2. CASE \E j \in popped \ Granted(count) : l = DeadPointer(j)
    <3>1. PICK j \in popped \ Granted(count) : l = DeadPointer(j)
      BY <2>2
    <3>2. j \in JobIds /\ ~Exists(j)
      BY <1>4
    <3> QED BY <3>1, <3>2 DEF Lease, DeadPointer
  <2> QED BY <2>1, <2>2
<1>7. OneEach(reply)
  <2> SUFFICES ASSUME NEW l \in reply, NEW m \in reply, l.job = m.job PROVE l = m
    BY DEF OneEach
  <2>1. l \in Lease /\ m \in Lease /\ l.token = m.token
    BY <1>6
  <2> QED BY <2>1 DEF Lease
<1>8. ASSUME NEW j \in popped PROVE \E l \in reply : l.job = j
  <2>1. CASE j \in Granted(count)
    <3>1. [job |-> j, token |-> hash'[j].token] \in reply
      BY <2>1
    <3> QED BY <3>1
  <2>2. CASE j \notin Granted(count)
    <3>1. DeadPointer(j) \in reply
      BY <2>2
    <3> QED BY <3>1 DEF DeadPointer
  <2> QED BY <2>1, <2>2
<1> QED BY <1>4, <1>6, <1>7, <1>8

\* A sweep hears of each job it takes once, with the run that it ends.
LEMMA SweepReply ==
    ASSUME IInv, NEW policy \in FailedPolicies, Recover(policy)
    PROVE  /\ Swept \subseteq Entry /\ OneEach(Swept)
           /\ \A e \in Swept :
                /\ e.job \in expired \ expired' /\ e.run = hash[e.job].runs
                /\ e.outcome = IF ~Exists(e.job) THEN "corrupt"
                               ELSE IF e.job \in Retried(expired) THEN "waiting" ELSE "failed"
           /\ \A j \in expired \ expired' : \E e \in Swept : e.job = j
<1> DEFINE Verdict(j) == IF ~Exists(j) THEN "corrupt"
                         ELSE IF j \in Retried(expired) THEN "waiting" ELSE "failed"
<1>1. Swept = {[job |-> j, run |-> hash[j].runs, outcome |-> Verdict(j)] : j \in expired \ expired'}
  BY DEF Swept
<1>2. \A j \in expired : j \in JobIds /\ hash[j].runs \in Nat
  BY HashShape DEF IInv, TypeOK
<1>3. \A j : Verdict(j) \in {"waiting", "failed", "corrupt"}
  OBVIOUS
<1> HIDE DEF Verdict
<1>4. ASSUME NEW e \in Swept
      PROVE  /\ e \in Entry /\ e.job \in expired \ expired' /\ e.run = hash[e.job].runs
             /\ e.outcome = Verdict(e.job)
  BY <1>1, <1>2, <1>3 DEF Entry
<1>5. OneEach(Swept)
  BY <1>1 DEF OneEach
<1>6. ASSUME NEW j \in expired \ expired' PROVE \E e \in Swept : e.job = j
  <2>1. [job |-> j, run |-> hash[j].runs, outcome |-> Verdict(j)] \in Swept
    BY <1>1
  <2> QED BY <2>1
<1> QED BY <1>4, <1>5, <1>6 DEF Verdict

LEMMA RepliesKept ==
    ASSUME IInv, RepliesOK, [ReportsNext]_observed
    PROVE  RepliesOK'
<1> DEFINE RunningOK == running' \subseteq {l \in Lease : l.token \in 1..issued'[l.job] /\ l.job \notin Garbled}
           AckedOK == \A a \in acked' : a \in Acked /\ a.lease.token \in 1..issued'[a.lease.job]
           ClaimedOK == /\ IsFiniteSet(claimed')
                        /\ \A reply \in claimed' :
                             /\ reply \subseteq Lease /\ OneEach(reply)
                             /\ \A l \in reply : l.token = 0 \/ l.token \in 1..issued'[l.job]
           SweepsOK == /\ IsFiniteSet(sweeps')
                       /\ \A reply \in sweeps' : reply \subseteq Entry /\ OneEach(reply)
           EventsOK == \A j \in JobIds : events'[j] \subseteq Event
           CorruptOK == \A j \in JobIds : corrupt'[j] \in Nat
           LossesOK == losses' \in 0..MaxLosses /\ mislaid' \subseteq Lease
<1>1. /\ running \subseteq {l \in Lease : l.token \in 1..issued[l.job] /\ l.job \notin Garbled}
      /\ \A a \in acked : a \in Acked /\ a.lease.token \in 1..issued[a.lease.job]
      /\ IsFiniteSet(claimed) /\ IsFiniteSet(sweeps)
      /\ \A reply \in claimed :
           /\ reply \subseteq Lease /\ OneEach(reply)
           /\ \A l \in reply : l.token = 0 \/ l.token \in 1..issued[l.job]
      /\ \A reply \in sweeps : reply \subseteq Entry /\ OneEach(reply)
      /\ \A j \in JobIds : events[j] \subseteq Event /\ corrupt[j] \in Nat
      /\ losses \in 0..MaxLosses /\ mislaid \subseteq Lease /\ MaxLosses \in Nat
  BY ReportsAssumption DEF RepliesOK, ReportsTypeOK, Tokens
<1>2. [Next]_vars /\ TypeOK' /\ issued \in [JobIds -> Nat]
  BY ReportsStep, InvNext DEF IInv, TypeOK
<1>3. \A j \in JobIds : 1..issued[j] \subseteq 1..issued'[j]
  BY <1>2, TokensGrow
<1>4. \A l \in Lease : l.job \in JobIds /\ l.token \in Nat
  BY DEF Lease
<1>5. running' \subseteq running => RunningOK
  BY <1>1, <1>3, <1>4
<1>6. acked' \subseteq acked => AckedOK
  BY <1>1, <1>3, <1>4 DEF Acked
<1>7. ASSUME claimed' \subseteq claimed PROVE ClaimedOK
  <2>1. IsFiniteSet(claimed')
    BY <1>1, <1>7, FS_Subset
  <2> QED BY <1>1, <1>3, <1>4, <1>7, <2>1
<1>8. ASSUME sweeps' \subseteq sweeps PROVE SweepsOK
  <2>1. IsFiniteSet(sweeps')
    BY <1>1, <1>8, FS_Subset
  <2> QED BY <1>1, <1>8, <2>1
<1>9. /\ UNCHANGED events => EventsOK
      /\ UNCHANGED corrupt => CorruptOK
      /\ UNCHANGED <<losses, mislaid>> => LossesOK
  BY <1>1
<1>10. ASSUME NEW leases \in SUBSET Lease, Lost(leases) PROVE LossesOK
  BY <1>1, <1>10 DEF Lost
<1>11. ASSUME NEW j \in JobIds, NEW new \in SUBSET Event, Emit(j, new) PROVE EventsOK
  BY <1>1, <1>11 DEF Emit
<1>12. ASSUME NEW run \in Nat, NEW phase \in Phases,
              NEW kind \in {"started", "completed", "error", "retry", "failed",
                            "stalledRetry", "stalledFailed"},
              NEW bad \in {"stale", "ackError"}
       PROVE  [kind |-> kind, run |-> run] \in Event /\ [kind |-> bad, run |-> run, phase |-> phase] \in Event
  BY DEF Event
<1> DEFINE All == RunningOK /\ AckedOK /\ ClaimedOK /\ SweepsOK /\ EventsOK /\ CorruptOK /\ LossesOK
<1>13. ASSUME NEW count \in 1..ClaimBatch, Claims(count) PROVE All
  <2> DEFINE popped == Range(SubSeq(waiting, 1, BatchSize(count)))
             reply == {[job |-> j, token |-> hash'[j].token] : j \in Granted(count)}
                        \cup {DeadPointer(j) : j \in popped \ Granted(count)}
  <2>1. Claim(count) /\ claimed' = claimed \cup {reply}
    BY <1>13 DEF Claims
  <2> HIDE DEF reply
  <2>2. /\ reply \subseteq Lease /\ OneEach(reply) /\ popped \subseteq JobIds
        /\ \A l \in reply : l.job \in popped /\
                            IF Exists(l.job) THEN l.token = issued'[l.job] /\ l.token = issued[l.job] + 1
                                             ELSE l.token = 0
    BY <2>1, ClaimReply DEF reply
  <2> HIDE DEF popped
  <2>3. \A l \in reply : l.token = 0 \/ l.token \in 1..issued'[l.job]
    BY <1>2, <2>2
  <2>4. IsFiniteSet(claimed')
    BY <1>1, <2>1, FS_AddElement
  <2>5. ClaimedOK
    BY <1>1, <1>3, <1>4, <2>1, <2>2, <2>3, <2>4
  <2>6. UNCHANGED <<running, acked, sweeps, events, corrupt, losses, mislaid>>
    BY <1>13 DEF Claims, reports
  <2> HIDE DEF RunningOK, AckedOK, ClaimedOK, SweepsOK, EventsOK, CorruptOK, LossesOK
  <2> QED BY <1>5, <1>6, <1>8, <1>9, <2>5, <2>6
<1>14. ASSUME NEW reply \in claimed, ClaimRead(reply) PROVE All
  <2> DEFINE healthy == {l \in reply : Decodes(l)}
             bad == reply \ healthy
  <2>1. /\ running' = running \cup healthy
        /\ events' = [j \in JobIds |-> events[j] \cup
             UNION {Told(l.token, {"started"}) : l \in {x \in healthy : x.job = j}}]
        /\ corrupt' = [j \in JobIds |-> corrupt[j] + Cardinality({l \in bad : l.job = j})]
        /\ claimed' \subseteq claimed /\ UNCHANGED <<store, history, acked, sweeps, losses, mislaid>>
    BY <1>14 DEF ClaimRead, Dispatch
  <2>2. RunningOK
    BY <1>1, <1>3, <1>4, <2>1 DEF Decodes
  <2>3. EventsOK
    <3> SUFFICES ASSUME NEW j \in JobIds, NEW l \in healthy,
                        NEW e \in Told(l.token, {"started"})
                 PROVE  e \in Event
      BY <1>1, <2>1
    <3>1. l.token \in Nat
      BY <1>1, <1>4
    <3> QED BY <1>12, <3>1 DEF Told, Phases
  <2>4. CorruptOK
    <3> SUFFICES ASSUME NEW j \in JobIds PROVE corrupt'[j] \in Nat
      OBVIOUS
    <3>1. OneEach(reply) /\ bad \in SUBSET reply
      BY <1>1
    <3> HIDE DEF bad
    <3>2. Cardinality({l \in bad : l.job = j}) = IF \E l \in bad : l.job = j THEN 1 ELSE 0
      BY <3>1, OneEntry, Zenon
    <3>3. corrupt'[j] = corrupt[j] + Cardinality({l \in bad : l.job = j})
      BY <2>1, Zenon
    <3> QED BY <1>1, <3>2, <3>3
  <2> HIDE DEF RunningOK, AckedOK, ClaimedOK, SweepsOK, EventsOK, CorruptOK, LossesOK
  <2> QED BY <1>6, <1>7, <1>8, <1>9, <2>1, <2>2, <2>3, <2>4
<1>15. ASSUME NEW reply \in claimed, ClaimLost(reply) PROVE All
  <2>1. LossesOK
    BY <1>1, <1>10, <1>15 DEF ClaimLost
  <2>2. claimed' \subseteq claimed /\ UNCHANGED <<running, acked, sweeps, events, corrupt>>
    BY <1>15 DEF ClaimLost
  <2> HIDE DEF RunningOK, AckedOK, ClaimedOK, SweepsOK, EventsOK, CorruptOK, LossesOK
  <2> QED BY <1>5, <1>6, <1>7, <1>8, <1>9, <2>1, <2>2
<1>16. ASSUME NEW l \in running, NEW phase \in Phases, Ends(l, phase) PROVE All
  <2> DEFINE a == [lease |-> l, phase |-> phase, answer |-> Answer(l, phase)]
  <2>1. /\ running' \subseteq running /\ acked' = acked \cup {a}
        /\ UNCHANGED <<claimed, sweeps, events, corrupt, losses, mislaid>>
    BY <1>16 DEF Ends, reports
  <2>2. a \in Acked /\ a.lease = l
    BY <1>1 DEF Acked, Answer
  <2>3. l.token \in 1..issued'[l.job]
    BY <1>1, <1>3, <1>4
  <2> HIDE DEF a
  <2>4. AckedOK
    BY <1>1, <1>3, <1>4, <2>1, <2>2, <2>3 DEF Acked
  <2> HIDE DEF RunningOK, AckedOK, ClaimedOK, SweepsOK, EventsOK, CorruptOK, LossesOK
  <2> QED BY <1>5, <1>7, <1>8, <1>9, <2>1, <2>4
<1>17. ASSUME NEW l \in running, NEW phase \in Phases, AckLost(l, phase) PROVE All
  <2>1. l \in Lease /\ l.job \in JobIds /\ l.token \in Nat
    BY <1>1, <1>4
  <2>2. LossesOK
    BY <1>10, <1>17, <2>1 DEF AckLost
  <2>3. EventsOK
    <3>1. AckNews([lease |-> l, phase |-> phase], "ackError") \subseteq Event
      BY <2>1, <1>12 DEF AckNews
    <3> QED BY <1>11, <1>17, <2>1, <3>1 DEF AckLost
  <2>4. running' \subseteq running /\ UNCHANGED <<claimed, acked, sweeps, corrupt>>
    BY <1>17 DEF AckLost
  <2> HIDE DEF RunningOK, AckedOK, ClaimedOK, SweepsOK, EventsOK, CorruptOK, LossesOK
  <2> QED BY <1>5, <1>6, <1>7, <1>8, <1>9, <2>2, <2>3, <2>4
<1>18. ASSUME NEW a \in acked, AckRead(a) \/ AnswerLost(a) PROVE All
  <2>1. a \in Acked /\ a.lease \in Lease /\ a.phase \in Phases
    BY <1>1 DEF Acked
  <2>2. a.lease.job \in JobIds /\ a.lease.token \in Nat
    BY <1>4, <2>1
  <2>3. AckNews(a, "ackError") \subseteq Event /\ Heard(a) \subseteq Event
    <3>1. AckNews(a, "ackError") \subseteq Event /\ AckNews(a, "stale") \subseteq Event
      BY <1>12, <2>1, <2>2 DEF AckNews
    <3>2. \A kinds \in SUBSET {"completed", "error", "retry", "failed"} :
             Told(a.lease.token, kinds) \subseteq Event
      BY <1>12, <2>2 DEF Told, Phases
    <3>3. a.answer \in {"completed", "waiting", "failed", "stale", "missing"}
      BY <2>1 DEF Acked
    <3> HIDE DEF AckNews, Told
    <3> QED BY <3>1, <3>2, <3>3 DEF Heard
  <2>4. EventsOK
    BY <1>11, <1>18, <2>2, <2>3 DEF AckRead, AnswerLost
  <2>5. LossesOK
    BY <1>9, <1>10, <1>18, <2>1 DEF AckRead, AnswerLost
  <2>6. acked' \subseteq acked /\ UNCHANGED <<claimed, running, sweeps, corrupt>>
    BY <1>18 DEF AckRead, AnswerLost
  <2> HIDE DEF RunningOK, AckedOK, ClaimedOK, SweepsOK, EventsOK, CorruptOK, LossesOK
  <2> QED BY <1>5, <1>6, <1>7, <1>8, <1>9, <2>4, <2>5, <2>6
<1>19. ASSUME Sweeps PROVE All
  <2>1. sweeps' = sweeps \cup {Swept} /\ UNCHANGED <<claimed, running, acked, events, corrupt, losses, mislaid>>
    BY <1>19 DEF Sweeps, reports
  <2>2. Swept \subseteq Entry /\ OneEach(Swept)
    BY <1>19, SweepReply DEF Sweeps
  <2>3. SweepsOK
    BY <1>1, <2>1, <2>2, FS_AddElement
  <2> HIDE DEF RunningOK, AckedOK, ClaimedOK, SweepsOK, EventsOK, CorruptOK, LossesOK
  <2> QED BY <1>5, <1>6, <1>7, <1>9, <2>1, <2>3
<1>20. ASSUME NEW reply \in sweeps, SweepRead(reply) PROVE All
  <2> DEFINE gone == {e \in reply : e.outcome = "corrupt"}
  <2>1. /\ events' = [j \in JobIds |-> events[j] \cup
             UNION {Told(e.run, {Stall(e)}) : e \in {x \in reply \ gone : x.job = j}}]
        /\ corrupt' = [j \in JobIds |-> corrupt[j] + Cardinality({e \in gone : e.job = j})]
        /\ sweeps' \subseteq sweeps /\ UNCHANGED <<claimed, running, acked, losses, mislaid>>
    BY <1>20 DEF SweepRead
  <2>2. EventsOK
    <3> SUFFICES ASSUME NEW j \in JobIds, NEW e \in reply, NEW x \in Told(e.run, {Stall(e)})
                 PROVE  x \in Event
      BY <1>1, <2>1
    <3>1. e.run \in Nat /\ Stall(e) \in {"stalledRetry", "stalledFailed"}
      BY <1>1 DEF Entry, Stall
    <3> QED BY <1>12, <3>1 DEF Told, Phases
  <2>3. CorruptOK
    <3> SUFFICES ASSUME NEW j \in JobIds PROVE corrupt'[j] \in Nat
      OBVIOUS
    <3>1. OneEach(reply) /\ gone \in SUBSET reply
      BY <1>1
    <3> HIDE DEF gone
    <3>2. Cardinality({e \in gone : e.job = j}) = IF \E e \in gone : e.job = j THEN 1 ELSE 0
      BY <3>1, OneEntry, Zenon
    <3>3. corrupt'[j] = corrupt[j] + Cardinality({e \in gone : e.job = j})
      BY <2>1, Zenon
    <3> QED BY <1>1, <3>2, <3>3
  <2> HIDE DEF RunningOK, AckedOK, ClaimedOK, SweepsOK, EventsOK, CorruptOK, LossesOK
  <2> QED BY <1>5, <1>6, <1>7, <1>8, <1>9, <2>1, <2>2, <2>3
<1>21. ASSUME NEW reply \in sweeps, SweepThrows(reply) \/ SweepLost(reply) PROVE All
  <2>1. LossesOK
    BY <1>9, <1>10, <1>21 DEF SweepThrows, SweepLost, reports
  <2>2. sweeps' \subseteq sweeps /\ UNCHANGED <<claimed, running, acked, events, corrupt>>
    BY <1>21 DEF SweepThrows, SweepLost, reports
  <2> HIDE DEF RunningOK, AckedOK, ClaimedOK, SweepsOK, EventsOK, CorruptOK, LossesOK
  <2> QED BY <1>5, <1>6, <1>7, <1>8, <1>9, <2>1, <2>2
<1>22. ASSUME Environment \/ UNCHANGED observed PROVE All
  <2>1. UNCHANGED <<claimed, running, acked, sweeps, events, corrupt, losses, mislaid>>
    BY <1>22 DEF Environment, observed, replies, reports
  <2> HIDE DEF RunningOK, AckedOK, ClaimedOK, SweepsOK, EventsOK, CorruptOK, LossesOK
  <2> QED BY <1>5, <1>6, <1>7, <1>8, <1>9, <2>1
<1>23. All
  <2> HIDE DEF All
  <2> QED BY <1>13, <1>14, <1>15, <1>16, <1>17, <1>18, <1>19, <1>20, <1>21, <1>22 DEF ReportsNext
<1> QED BY <1>2, <1>23 DEF RepliesOK, ReportsTypeOK, Tokens

-------------------------------------------------------------------------------
(* What has been reported of a job, or will be once a reply is read. *)

VerdictKinds == {"completed", "retry", "failed", "stalledRetry", "stalledFailed"}
Judging == VerdictKinds \cup {"error"}

Due(j) ==
    (events[j] \cup UNION {Heard(a) : a \in {x \in acked : x.lease.job = j}})
      \cup UNION {Told(e.run, {Stall(e)}) :
                    e \in {x \in UNION sweeps : x.job = j /\ x.outcome # "corrupt"}}
DueOf(j, kinds) == {e \in Due(j) : Is(e, kinds)}

\* Of the events that judge a run, a step adds at most these.
Adds(j, run, kinds) == \A e \in Due(j)' : e \in Due(j) \/ ~Is(e, Judging) \/ e \in Told(run, kinds)

\* A verdict falls when the script that ends the run is executed; that a reply
\* is read or lost adds nothing to it.
LEMMA DueStep ==
    ASSUME IInv, RepliesOK, [ReportsNext]_observed, NEW j \in JobIds
    PROVE  \/ Adds(j, 0, {})
           \/ \E token \in Tokens(j) :
                \/ (\E p \in CompletedPolicies : Complete(j, token, p)) /\ Adds(j, token, {"completed"})
                \/ FailRetry(j, token) /\ Adds(j, token, {"error", "retry"})
                \/ (\E p \in FailedPolicies : FailFinal(j, token, p)) /\ Adds(j, token, {"error", "failed"})
           \/ /\ \E p \in FailedPolicies : Recover(p)
              /\ j \in expired \ expired' /\ Exists(j)
              /\ IF j \in Retried(expired) THEN Adds(j, hash[j].runs, {"stalledRetry"})
                                           ELSE Adds(j, hash[j].runs, {"stalledFailed"})
<1>1. /\ \A a \in acked : a \in Acked /\ a.lease \in Lease /\ a.lease.job \in JobIds
      /\ \A l \in running : l.job \in JobIds /\ l.token \in Tokens(l.job)
      /\ \A reply \in sweeps : reply \subseteq Entry
  BY DEF RepliesOK, ReportsTypeOK, Acked, Lease, Tokens
<1>2. ASSUME events'[j] \subseteq events[j], acked' \subseteq acked, sweeps' \subseteq sweeps
      PROVE  Adds(j, 0, {})
  BY <1>2 DEF Adds, Due
<1>3. ASSUME NEW a, \A e \in AckNews(a, "ackError") : ~Is(e, Judging),
             \A e \in events'[j] : e \in events[j] \/ e \in AckNews(a, "ackError"),
             acked' \subseteq acked, sweeps' \subseteq sweeps
      PROVE  Adds(j, 0, {})
  BY <1>3 DEF Adds, Due
<1>4. \A a : \A kind \in {"ackError", "stale"} : \A e \in AckNews(a, kind) : ~Is(e, Judging)
  BY DEF AckNews, Is, Judging, VerdictKinds
<1>5. ASSUME NEW count \in 1..ClaimBatch, Claims(count) PROVE Adds(j, 0, {})
  BY <1>2, <1>5 DEF Claims, reports
<1>6. ASSUME NEW reply \in claimed, ClaimRead(reply) PROVE Adds(j, 0, {})
  <2>1. UNCHANGED <<acked, sweeps>> /\ \E healthy \in SUBSET reply :
          events'[j] = events[j] \cup
             UNION {Told(l.token, {"started"}) : l \in {x \in healthy : x.job = j}}
    BY <1>6 DEF ClaimRead, Dispatch
  <2>2. \A e \in events'[j] : e \in events[j] \/ \E l \in reply : e \in Told(l.token, {"started"})
    BY <2>1
  <2>3. \A e \in events'[j] : e \in events[j] \/ ~Is(e, Judging)
    BY <2>2 DEF Told, Is, Judging, VerdictKinds
  <2> QED BY <2>1, <2>3 DEF Adds, Due
<1>7. ASSUME NEW reply \in claimed, ClaimLost(reply) PROVE Adds(j, 0, {})
  BY <1>2, <1>7 DEF ClaimLost
<1>8. ASSUME NEW i \in JobIds, NEW new, Emit(i, new)
      PROVE  \A e \in events'[j] : e \in events[j] \/ (i = j /\ e \in new)
  BY <1>8 DEF Emit
<1>9. ASSUME NEW l \in running, NEW phase \in Phases, AckLost(l, phase) PROVE Adds(j, 0, {})
  <2> DEFINE a == [lease |-> l, phase |-> phase]
  <2>1. Emit(l.job, AckNews(a, "ackError")) /\ UNCHANGED <<acked, sweeps>>
    BY <1>9 DEF AckLost
  <2> HIDE DEF a
  <2>2. \A e \in events'[j] : e \in events[j] \/ e \in AckNews(a, "ackError")
    BY <1>1, <1>8, <2>1
  <2> QED BY <1>3, <1>4, <2>1, <2>2
<1>10. ASSUME NEW a \in acked, AnswerLost(a) PROVE Adds(j, 0, {})
  <2>1. \A e \in events'[j] : e \in events[j] \/ e \in AckNews(a, "ackError")
    BY <1>1, <1>8, <1>10 DEF AnswerLost
  <2> QED BY <1>3, <1>4, <1>10, <2>1 DEF AnswerLost
<1>11. ASSUME NEW a \in acked, AckRead(a) PROVE Adds(j, 0, {})
  <2>1. \A e \in events'[j] : e \in events[j] \/ (a.lease.job = j /\ e \in Heard(a))
    BY <1>1, <1>8, <1>11 DEF AckRead
  <2>2. acked' \subseteq acked /\ UNCHANGED sweeps
    BY <1>11 DEF AckRead
  <2> QED BY <2>1, <2>2 DEF Adds, Due
<1>12. ASSUME NEW reply \in sweeps, SweepRead(reply) PROVE Adds(j, 0, {})
  <2>1. /\ UNCHANGED acked /\ sweeps' \subseteq sweeps
        /\ events'[j] = events[j] \cup
             UNION {Told(e.run, {Stall(e)}) :
                      e \in {x \in reply \ {y \in reply : y.outcome = "corrupt"} : x.job = j}}
    BY <1>12 DEF SweepRead
  <2>2. \A x \in events'[j] : x \in events[j] \/
          \E e \in reply : e.job = j /\ e.outcome # "corrupt" /\ x \in Told(e.run, {Stall(e)})
    BY <2>1
  <2> QED BY <2>1, <2>2 DEF Adds, Due
<1>13. ASSUME NEW reply \in sweeps, SweepThrows(reply) \/ SweepLost(reply) PROVE Adds(j, 0, {})
  BY <1>2, <1>13 DEF SweepThrows, SweepLost, reports
<1>14. ASSUME Environment \/ UNCHANGED observed PROVE Adds(j, 0, {})
  BY <1>2, <1>14 DEF Environment, observed, replies, reports
<1>15. ASSUME NEW l \in running, NEW phase \in Phases, Ends(l, phase)
       PROVE  \/ Adds(j, 0, {})
              \/ /\ l.job = j
                 /\ \/ (\E p \in CompletedPolicies : Complete(j, l.token, p)) /\ Adds(j, l.token, {"completed"})
                    \/ FailRetry(j, l.token) /\ Adds(j, l.token, {"error", "retry"})
                    \/ /\ \E p \in FailedPolicies : FailFinal(j, l.token, p)
                       /\ Adds(j, l.token, {"error", "failed"})
  <2> DEFINE a == [lease |-> l, phase |-> phase, answer |-> Answer(l, phase)]
  <2>1. /\ acked' = acked \cup {a} /\ UNCHANGED <<events, sweeps>>
        /\ a.lease = l /\ a.answer = Answer(l, phase)
        /\ a.answer \in {"completed", "waiting", "failed", "stale", "missing"}
    BY <1>15 DEF Ends, reports, Answer
  <2>2. /\ a.answer = "completed" => \E p \in CompletedPolicies : Complete(l.job, l.token, p)
        /\ a.answer = "waiting"   => FailRetry(l.job, l.token)
        /\ a.answer = "failed"    => \E p \in FailedPolicies : FailFinal(l.job, l.token, p)
    BY <1>15, <2>1 DEF Ends
  <2> HIDE DEF a
  <2>3. \A e \in Due(j)' : e \in Due(j) \/ (l.job = j /\ e \in Heard(a))
    BY <2>1 DEF Due
  <2>4. CASE l.job # j
    BY <2>3, <2>4 DEF Adds
  <2>5. CASE l.job = j /\ a.answer = "completed"
    <3>1. Heard(a) = Told(l.token, {"completed"})
      BY <2>1, <2>5 DEF Heard
    <3> QED BY <2>1, <2>2, <2>3, <2>5, <3>1 DEF Adds
  <2>6. CASE l.job = j /\ a.answer = "waiting"
    <3>1. Heard(a) = Told(l.token, {"error", "retry"})
      BY <2>1, <2>6 DEF Heard
    <3> QED BY <2>1, <2>2, <2>3, <2>6, <3>1 DEF Adds
  <2>7. CASE l.job = j /\ a.answer = "failed"
    <3>1. Heard(a) = Told(l.token, {"error", "failed"})
      BY <2>1, <2>7 DEF Heard
    <3> QED BY <2>1, <2>2, <2>3, <2>7, <3>1 DEF Adds
  <2>8. CASE a.answer \in {"stale", "missing"}
    <3>1. Heard(a) = AckNews(a, "stale") \/ Heard(a) = AckNews(a, "ackError")
      BY <2>8 DEF Heard
    <3> QED BY <1>4, <2>3, <3>1 DEF Adds
  <2> QED BY <2>1, <2>4, <2>5, <2>6, <2>7, <2>8
<1>16. ASSUME Sweeps
       PROVE  \/ Adds(j, 0, {})
              \/ /\ j \in expired \ expired' /\ Exists(j)
                 /\ IF j \in Retried(expired) THEN Adds(j, hash[j].runs, {"stalledRetry"})
                                              ELSE Adds(j, hash[j].runs, {"stalledFailed"})
  <2>1. sweeps' = sweeps \cup {Swept} /\ UNCHANGED <<events, acked>>
    BY <1>16 DEF Sweeps, reports
  <2>2. \A x \in Due(j)' : x \in Due(j) \/
          \E e \in Swept : e.job = j /\ e.outcome # "corrupt" /\ x \in Told(e.run, {Stall(e)})
    <3>1. \A x : x \in Due(j)' <=>
            \/ x \in events[j]
            \/ \E a \in acked : a.lease.job = j /\ x \in Heard(a)
            \/ \E reply \in sweeps \cup {Swept} : \E e \in reply :
                 e.job = j /\ e.outcome # "corrupt" /\ x \in Told(e.run, {Stall(e)})
      BY <2>1 DEF Due
    <3>2. \A x : x \in Due(j) <=>
            \/ x \in events[j]
            \/ \E a \in acked : a.lease.job = j /\ x \in Heard(a)
            \/ \E reply \in sweeps : \E e \in reply :
                 e.job = j /\ e.outcome # "corrupt" /\ x \in Told(e.run, {Stall(e)})
      BY DEF Due
    <3> QED BY <3>1, <3>2
  <2>3. \A e \in Swept :
          /\ e.job \in expired \ expired' /\ e.run = hash[e.job].runs
          /\ e.outcome = IF ~Exists(e.job) THEN "corrupt"
                         ELSE IF e.job \in Retried(expired) THEN "waiting" ELSE "failed"
    BY <1>16, SweepReply DEF Sweeps
  <2>4. CASE ~(j \in expired \ expired' /\ Exists(j))
    BY <2>2, <2>3, <2>4 DEF Adds
  <2>5. CASE j \in expired \ expired' /\ Exists(j)
    BY <2>2, <2>3, <2>5 DEF Adds, Stall
  <2> QED BY <2>4, <2>5
<1>17. CASE \E l \in running, phase \in Phases : Ends(l, phase)
  <2>1. PICK l \in running, phase \in Phases : Ends(l, phase)
    BY <1>17
  <2>2. l.token \in Tokens(l.job)
    BY <1>1
  <2> QED BY <1>15, <2>1, <2>2
<1>18. CASE Sweeps
  BY <1>16, <1>18 DEF Sweeps
<1> QED BY <1>5, <1>6, <1>7, <1>9, <1>10, <1>11, <1>12, <1>13, <1>14, <1>17, <1>18 DEF ReportsNext


Rulings == {{"completed"}, {"error", "retry"}, {"error", "failed"}, {"stalledRetry"}, {"stalledFailed"}}

\* The run under lease is judged: its lease ends, and with it what is said of it happens.
Judges(j, token, kinds) ==
    /\ Adds(j, token, kinds) /\ Holds(j, token) /\ j \notin active'
    /\ "completed" \in kinds => outcome'[j] = "completed"
    /\ "failed" \in kinds \/ "stalledFailed" \in kinds => outcome'[j] = "failed"
    /\ Exists(j)' =>
         /\ "error" \in kinds => hash'[j].failures = hash[j].failures + 1
         /\ "retry" \in kinds => hash'[j].failures <= hash'[j].maxRetries
         /\ "stalledRetry" \in kinds => /\ hash'[j].stalls = hash[j].stalls + 1
                                        /\ hash'[j].stalls <= hash'[j].maxStalls

LEMMA Ruling ==
    ASSUME IInv, RepliesOK, [ReportsNext]_observed, NEW j \in JobIds
    PROVE  Adds(j, 0, {}) \/ \E token \in Tokens(j), kinds \in Rulings : Judges(j, token, kinds)
<1>1. TypeOK /\ hash[j] \in JobHash /\ JobInv(j) /\ expired \subseteq active /\ outcome \in [JobIds -> Outcomes]
  BY DEF IInv, TypeOK
<1>2. "waiting" \in Statuses /\ "failed" \in Statuses /\ "completed" \in Statuses
  BY DEF Statuses
<1>3. ASSUME NEW token \in Tokens(j), NEW p \in CompletedPolicies, Complete(j, token, p),
             Adds(j, token, {"completed"})
      PROVE  Judges(j, token, {"completed"})
  BY <1>3 DEF Judges, Complete, Announced
<1>4. ASSUME NEW token \in Tokens(j), FailRetry(j, token), Adds(j, token, {"error", "retry"})
      PROVE  Judges(j, token, {"error", "retry"})
  <2>1. Exists(j)' => hash'[j] = Failed(hash[j], "waiting")
    BY <1>4, AckHash
  <2>2. Exists(j)' => /\ hash'[j].failures = hash[j].failures + 1
                      /\ hash'[j].failures <= hash'[j].maxRetries
    BY <1>1, <1>2, <1>4, <2>1, HashFields DEF FailRetry
  <2> QED BY <1>4, <2>2 DEF Judges, FailRetry
<1>5. ASSUME NEW token \in Tokens(j), NEW p \in FailedPolicies, FailFinal(j, token, p),
             Adds(j, token, {"error", "failed"})
      PROVE  Judges(j, token, {"error", "failed"})
  <2>1. Exists(j)' => hash'[j] = Failed(hash[j], "failed")
    BY <1>5, AckHash
  <2>2. Exists(j)' => hash'[j].failures = hash[j].failures + 1
    BY <1>1, <1>2, <2>1, HashFields
  <2>3. Holds(j, token) /\ j \notin active' /\ outcome'[j] = "failed"
    BY <1>5 DEF FailFinal, Announced
  <2> QED BY <1>5, <2>2, <2>3 DEF Judges
<1>6. ASSUME NEW p \in FailedPolicies, Recover(p), j \in expired \ expired', Exists(j)
      PROVE  \E token \in Tokens(j) : token = hash[j].runs /\
               IF j \in Retried(expired)
               THEN Adds(j, hash[j].runs, {"stalledRetry"}) => Judges(j, token, {"stalledRetry"})
               ELSE Adds(j, hash[j].runs, {"stalledFailed"}) => Judges(j, token, {"stalledFailed"})
  <2>1. /\ hash[j].runs \in Tokens(j) /\ Holds(j, hash[j].runs)
    BY <1>1, <1>6, HashShape DEF JobInv, Recorded, Consistent, Exists, Holds, Tokens, Apart
  <2>2. j \notin active'
    BY <1>6, <1>1 DEF Recover, Candidates
  <2>3. CASE j \in Retried(expired)
    <3>1. Exists(j)' => hash'[j] = Stalled(hash[j], "waiting")
      BY <1>6, <2>3, RecoverHash
    <3>2. Exists(j)' => /\ hash'[j].stalls = hash[j].stalls + 1
                        /\ hash'[j].stalls <= hash'[j].maxStalls
      BY <1>1, <1>2, <2>3, <3>1, HashFields DEF Retried
    <3> QED BY <2>1, <2>2, <2>3, <3>2 DEF Judges
  <2>4. CASE j \notin Retried(expired)
    <3>1. outcome'[j] = "failed"
      BY <1>1, <1>6, <2>4 DEF Recover, Candidates, Announced, Dead, Retried, Present
    <3> QED BY <2>1, <2>2, <2>4, <3>1 DEF Judges
  <2> QED BY <2>3, <2>4
<1> QED
  <2> HIDE DEF Adds, Judges
  <2> QED BY <1>3, <1>4, <1>5, <1>6, DueStep DEF Rulings


AtMost(S, n) == IsFiniteSet(S) /\ Cardinality(S) <= n

LEMMA OneMore ==
    ASSUME NEW S, NEW n \in Nat, AtMost(S, n), NEW T, NEW x, T \subseteq S \cup {x}
    PROVE  AtMost(T, n + 1) /\ (T \subseteq S => AtMost(T, n))
<1>1. /\ IsFiniteSet(S \cup {x}) /\ Cardinality(S) \in Nat
      /\ Cardinality(S \cup {x}) \in Nat /\ Cardinality(S \cup {x}) <= n + 1
  <2>1. IsFiniteSet(S) /\ Cardinality(S) <= n
    BY DEF AtMost
  <2>2. IsFiniteSet(S \cup {x}) /\ Cardinality(S \cup {x}) \in {Cardinality(S), Cardinality(S) + 1}
    BY <2>1, FS_AddElement
  <2>3. Cardinality(S) \in Nat
    BY <2>1, FS_CardinalityType
  <2> QED BY <2>1, <2>2, <2>3
<1>2. IsFiniteSet(T) /\ Cardinality(T) \in Nat /\ Cardinality(T) <= Cardinality(S \cup {x})
  BY <1>1, FS_Subset, FS_CardinalityType
<1>3. T \subseteq S => Cardinality(T) <= Cardinality(S)
  BY FS_Subset DEF AtMost
<1> QED BY <1>1, <1>2, <1>3 DEF AtMost

\* A run that was judged is over, it was judged once, and every judgement is
\* counted in the hash or is the outcome of the job.
Counted(j) ==
    /\ AtMost(DueOf(j, {"error"}), hash[j].failures)
    /\ AtMost(DueOf(j, {"retry"}), hash[j].failures)
    /\ AtMost(DueOf(j, {"retry"}), hash[j].maxRetries)
    /\ AtMost(DueOf(j, {"stalledRetry"}), hash[j].stalls)
    /\ AtMost(DueOf(j, {"stalledRetry"}), hash[j].maxStalls)

Judged(j) ==
    /\ \A a, b \in DueOf(j, VerdictKinds) : a.run = b.run => a = b
    /\ \A a \in DueOf(j, Judging) : a.run \in Tokens(j) /\ ~Holds(j, a.run)
    /\ DueOf(j, {"completed"}) # {} => outcome[j] = "completed"
    /\ DueOf(j, {"failed", "stalledFailed"}) # {} => outcome[j] = "failed"
    /\ Exists(j) => Counted(j)

\* An outcome stays.
LEMMA OutcomeStays ==
    ASSUME IInv, [Next]_vars, NEW j \in JobIds, outcome[j] # "none"
    PROVE  outcome'[j] = outcome[j]
BY OutcomeSeals DEF Sealed, vars, history

LEMMA JudgedKept ==
    ASSUME IInv, RepliesOK, [ReportsNext]_observed, NEW j \in JobIds, Judged(j)
    PROVE  Judged(j)'
<1>1. [Next]_vars /\ IInv'
  BY ReportsStep, InvNext
<1>2. /\ \A t \in Tokens(j) : t \in Tokens(j)'
      /\ \A t \in Tokens(j) : ~Holds(j, t) => ~Holds(j, t)'
      /\ outcome[j] # "none" => outcome'[j] = outcome[j]
  BY <1>1, TokensGrow, NeverCurrentAgain, OutcomeStays DEF Tokens
<1>3. Exists(j)' => Grown(j) \/ j \notin Range(born)
  BY <1>1, CountersGrow
<1>4. /\ Exists(j) => hash[j].failures \in Nat /\ hash[j].stalls \in Nat
                      /\ hash[j].maxRetries \in Nat /\ hash[j].maxStalls \in Nat
      /\ Exists(j)' => hash'[j].failures \in Nat /\ hash'[j].stalls \in Nat
                      /\ hash'[j].maxRetries \in Nat /\ hash'[j].maxStalls \in Nat
  BY <1>1, HashShape DEF IInv, TypeOK
<1>5. \A x \in Due(j) : Is(x, Judging) => x.run \in Tokens(j) /\ ~Holds(j, x.run)
  BY DEF Judged, DueOf
<1>6. j \notin Range(born) => Tokens(j) = {} /\ \A x \in Due(j) : ~Is(x, Judging)
  <2>1. j \notin Range(born) => issued[j] = 0
    BY DEF IInv, JobInv, Absent
  <2> QED BY <1>5, <2>1 DEF Tokens
<1>7. ASSUME NEW S, NEW n \in Nat, NEW m \in Nat, AtMost(S, n), n <= m, NEW T, T \subseteq S
      PROVE  AtMost(T, m)
  <2>1. AtMost(T, n)
    BY <1>7, OneMore
  <2> QED BY <1>7, <2>1, FS_CardinalityType DEF AtMost
<1>8. ASSUME NEW token, NEW kinds, Adds(j, token, kinds), Exists(j)', Grown(j),
             "error" \in kinds => hash'[j].failures = hash[j].failures + 1,
             "retry" \in kinds => "error" \in kinds /\ hash'[j].failures <= hash'[j].maxRetries,
             "stalledRetry" \in kinds => /\ hash'[j].stalls = hash[j].stalls + 1
                                         /\ hash'[j].stalls <= hash'[j].maxStalls
      PROVE  Counted(j)'
  <2>1. /\ Counted(j) /\ Exists(j)
        /\ hash'[j].failures >= hash[j].failures /\ hash'[j].stalls >= hash[j].stalls
        /\ hash'[j].maxRetries = hash[j].maxRetries /\ hash'[j].maxStalls = hash[j].maxStalls
    BY <1>8 DEF Grown, Judged
  <2>2. ASSUME NEW k \in Judging, NEW n \in Nat, NEW m \in Nat, AtMost(DueOf(j, {k}), n),
               IF k \in kinds THEN m = n + 1 ELSE m >= n
        PROVE  AtMost(DueOf(j, {k})', m)
    <3>1. /\ DueOf(j, {k})' \subseteq DueOf(j, {k}) \cup {[kind |-> k, run |-> token]}
          /\ k \notin kinds => DueOf(j, {k})' \subseteq DueOf(j, {k})
      BY <1>8 DEF Adds, Told, DueOf, Is
    <3> DEFINE S == DueOf(j, {k})
               T == DueOf(j, {k})'
    <3> HIDE DEF S, T
    <3>2. AtMost(S, n) /\ T \subseteq S \cup {[kind |-> k, run |-> token]} /\ (k \notin kinds => T \subseteq S)
      BY <2>2, <3>1 DEF S, T
    <3>3. AtMost(T, n + 1) /\ (k \notin kinds => AtMost(T, n))
      BY <3>2, OneMore
    <3>4. AtMost(T, m)
      BY <1>7, <2>2, <3>3
    <3> QED BY <3>4 DEF T
  <2>3. "error" \in Judging /\ "retry" \in Judging /\ "stalledRetry" \in Judging
    BY DEF Judging, VerdictKinds
  <2>4. AtMost(DueOf(j, {"error"})', hash'[j].failures)
    BY <1>4, <1>8, <2>1, <2>2, <2>3 DEF Counted
  <2>5. AtMost(DueOf(j, {"retry"})', hash'[j].failures)
    BY <1>4, <1>8, <2>1, <2>2, <2>3 DEF Counted
  <2>6. AtMost(DueOf(j, {"retry"})', hash'[j].maxRetries)
    <3>1. CASE "retry" \in kinds
      BY <1>4, <1>7, <1>8, <2>5, <3>1
    <3>2. CASE "retry" \notin kinds
      BY <1>4, <1>8, <2>1, <2>2, <2>3, <3>2 DEF Counted
    <3> QED BY <3>1, <3>2
  <2>7. AtMost(DueOf(j, {"stalledRetry"})', hash'[j].stalls)
    BY <1>4, <1>8, <2>1, <2>2, <2>3 DEF Counted
  <2>8. AtMost(DueOf(j, {"stalledRetry"})', hash'[j].maxStalls)
    <3>1. CASE "stalledRetry" \in kinds
      BY <1>4, <1>7, <1>8, <2>7, <3>1
    <3>2. CASE "stalledRetry" \notin kinds
      BY <1>4, <1>8, <2>1, <2>2, <2>3, <3>2 DEF Counted
    <3> QED BY <3>1, <3>2
  <2> QED BY <2>4, <2>5, <2>6, <2>7, <2>8 DEF Counted
<1>9. CASE Adds(j, 0, {})
  <2>1. \A x \in Due(j)' : Is(x, Judging) => x \in Due(j)
    BY <1>9 DEF Adds, Told
  <2>2. ASSUME NEW x, Is(x, VerdictKinds) \/ Is(x, {"completed"}) \/ Is(x, {"failed", "stalledFailed"})
        PROVE  Is(x, Judging)
    BY <2>2 DEF Is, Judging, VerdictKinds
  <2>3. Exists(j)' => Counted(j)'
    <3>1. CASE Grown(j)
      BY <1>8, <1>9, <3>1
    <3>2. CASE j \notin Range(born)
      <4>1. ASSUME NEW k \in Judging PROVE DueOf(j, {k})' = {}
        BY <1>6, <2>1, <3>2 DEF DueOf, Is
      <4>2. "error" \in Judging /\ "retry" \in Judging /\ "stalledRetry" \in Judging
        BY DEF Judging, VerdictKinds
      <4>3. \A n \in Nat : AtMost({}, n)
        BY FS_EmptySet DEF AtMost
      <4> QED BY <1>4, <4>1, <4>2, <4>3 DEF Counted
    <3> QED BY <1>3, <3>1, <3>2
  <2>4. \A a, b \in DueOf(j, VerdictKinds)' : a.run = b.run => a = b
    BY <2>1, <2>2 DEF DueOf, Judged
  <2>5. \A a \in DueOf(j, Judging)' : a.run \in Tokens(j)' /\ ~Holds(j, a.run)'
    BY <1>2, <1>5, <2>1 DEF DueOf
  <2>6. /\ DueOf(j, {"completed"})' # {} => outcome'[j] = "completed"
        /\ DueOf(j, {"failed", "stalledFailed"})' # {} => outcome'[j] = "failed"
    BY <1>2, <2>1, <2>2 DEF DueOf, Judged
  <2> QED BY <2>3, <2>4, <2>5, <2>6 DEF Judged
<1>10. ASSUME NEW token \in Tokens(j), NEW kinds \in Rulings, Judges(j, token, kinds)
       PROVE  Judged(j)'
  <2>1. /\ \A x \in Due(j)' : Is(x, Judging) => x \in Due(j) \/ (x.run = token /\ Is(x, kinds) /\ x = [kind |-> x.kind, run |-> token])
        /\ Holds(j, token)
    BY <1>10 DEF Judges, Adds, Told, Is
  <2>2. ASSUME NEW x, Is(x, VerdictKinds) \/ Is(x, {"completed"}) \/ Is(x, {"failed", "stalledFailed"})
        PROVE  Is(x, Judging)
    BY <2>2 DEF Is, Judging, VerdictKinds
  <2>3. Exists(j)' => Counted(j)'
    <3>1. Exists(j)' => Grown(j)
      BY <1>3, <1>6
    <3>2. "retry" \in kinds => "error" \in kinds
      BY DEF Rulings
    <3> QED BY <1>8, <1>10, <3>1, <3>2 DEF Judges
  <2>4. ~Holds(j, token)' /\ token \in Tokens(j)'
    <3>1. token # 0 /\ JobInv(j)' /\ j \notin active'
      BY <1>1, <1>10 DEF Tokens, IInv, Judges
    <3> QED BY <1>2, <3>1 DEF JobInv, Recorded, Consistent, Holds, Exists
  <2>5. \A a \in DueOf(j, Judging)' : a.run \in Tokens(j)' /\ ~Holds(j, a.run)'
    BY <1>2, <1>5, <2>1, <2>4 DEF DueOf
  <2>6. ASSUME NEW a \in DueOf(j, VerdictKinds)', NEW b \in DueOf(j, VerdictKinds)', a.run = b.run
        PROVE  a = b
    <3>1. a \in Due(j)' /\ b \in Due(j)' /\ Is(a, VerdictKinds) /\ Is(b, VerdictKinds)
      BY DEF DueOf
    <3>2. CASE a.run = token
      <4>1. a \notin Due(j) /\ b \notin Due(j)
        BY <1>5, <2>1, <2>2, <2>6, <3>1, <3>2
      <4>2. /\ a = [kind |-> a.kind, run |-> token] /\ b = [kind |-> b.kind, run |-> token]
            /\ a.kind \in kinds \cap VerdictKinds /\ b.kind \in kinds \cap VerdictKinds
        BY <2>1, <2>2, <3>1, <4>1 DEF Is
      <4>3. a.kind = b.kind
        BY <4>2 DEF Rulings, VerdictKinds
      <4> QED BY <4>2, <4>3
    <3>3. CASE a.run # token
      BY <2>1, <2>2, <2>6, <3>1, <3>3 DEF DueOf, Judged
    <3> QED BY <3>2, <3>3
  <2>7. DueOf(j, {"completed"})' # {} => outcome'[j] = "completed"
    <3> SUFFICES ASSUME NEW x \in DueOf(j, {"completed"})' PROVE outcome'[j] = "completed"
      OBVIOUS
    <3>1. x \in Due(j)' /\ x.kind = "completed" /\ Is(x, Judging)
      BY <2>2 DEF DueOf, Is
    <3>2. CASE x \in Due(j)
      BY <1>2, <3>1, <3>2 DEF DueOf, Judged, Is
    <3>3. CASE x \notin Due(j)
      BY <1>10, <2>1, <3>1, <3>3 DEF Judges, Is
    <3> QED BY <3>2, <3>3
  <2>8. DueOf(j, {"failed", "stalledFailed"})' # {} => outcome'[j] = "failed"
    <3> SUFFICES ASSUME NEW x \in DueOf(j, {"failed", "stalledFailed"})' PROVE outcome'[j] = "failed"
      OBVIOUS
    <3>1. x \in Due(j)' /\ x.kind \in {"failed", "stalledFailed"} /\ Is(x, Judging)
      BY <2>2 DEF DueOf, Is
    <3>2. CASE x \in Due(j)
      BY <1>2, <3>1, <3>2 DEF DueOf, Judged, Is
    <3>3. CASE x \notin Due(j)
      BY <1>10, <2>1, <3>1, <3>3 DEF Judges, Is
    <3> QED BY <3>2, <3>3
  <2> QED BY <2>3, <2>5, <2>6, <2>7, <2>8 DEF Judged
<1> QED BY <1>9, <1>10, Ruling


-------------------------------------------------------------------------------
(* Where a lease is. *)

LeaseOf(j) == [job |-> j, token |-> hash[j].token]
Followed(j) == j \in active /\ Exists(j) /\ j \notin Garbled =>
                  LeaseOf(j) \in (UNION claimed) \cup running \cup mislaid

\* A lease leaves the replies for a handler, the handlers for an acknowledgement
\* that ends it, and either when a connection is lost.
LEMMA FollowedKept ==
    ASSUME IInv, RepliesOK, [ReportsNext]_observed, NEW j \in JobIds, Followed(j)
    PROVE  Followed(j)'
<1> SUFFICES ASSUME j \in active', Exists(j)', j \notin Garbled
             PROVE  LeaseOf(j)' \in (UNION claimed') \cup running' \cup mislaid'
  BY DEF Followed
<1>1. [Next]_vars /\ JobInv(j) /\ hash[j] \in JobHash /\ issued[j] \in Nat
  BY ReportsStep DEF IInv, TypeOK
<1>2. SameLease(j) \/ NewLease(j)
  BY <1>1, ActiveLease
<1> DEFINE L == LeaseOf(j)
<1>3. SameLease(j) => /\ LeaseOf(j)' = L /\ L \in (UNION claimed) \cup running \cup mislaid
                      /\ L.job = j /\ L.token # 0 /\ Holds(j, L.token)
  <2> SUFFICES ASSUME SameLease(j)
               PROVE  /\ LeaseOf(j)' = L /\ L \in (UNION claimed) \cup running \cup mislaid
                      /\ L.job = j /\ L.token # 0 /\ Holds(j, L.token)
    OBVIOUS
  <2>1. j \in active /\ Exists(j) /\ hash'[j].token = hash[j].token
    BY DEF SameLease
  <2>2. hash[j].token # 0
    BY <1>1, <2>1 DEF JobInv, Recorded, Consistent, Apart, Exists
  <2> QED BY <2>1, <2>2 DEF Followed, LeaseOf, Holds
<1>4. UNCHANGED issued => SameLease(j)
  BY <1>1, <1>2 DEF NewLease
<1> DEFINE Found == LeaseOf(j)' \in (UNION claimed') \cup running' \cup mislaid'
<1>5. ASSUME UNCHANGED issued,
              L \in UNION claimed => L \in (UNION claimed') \cup running' \cup mislaid',
              L \in running => L \in (UNION claimed') \cup running' \cup mislaid',
              mislaid \subseteq mislaid'
       PROVE  Found
  BY <1>3, <1>4, <1>5
<1>6. ASSUME NEW reply, claimed' = claimed \ {reply} PROVE L \in UNION claimed => L \in UNION claimed' \/ L \in reply
  BY <1>6
<1> HIDE DEF L
<1>7. ASSUME NEW count \in 1..ClaimBatch, Claims(count)
      PROVE  Found
  <2> DEFINE popped == Range(SubSeq(waiting, 1, BatchSize(count)))
             reply == {[job |-> i, token |-> hash'[i].token] : i \in Granted(count)}
                        \cup {DeadPointer(i) : i \in popped \ Granted(count)}
  <2>1. Claim(count) /\ claimed' = claimed \cup {reply} /\ UNCHANGED <<running, mislaid>>
    BY <1>7 DEF Claims, reports
  <2>2. CASE SameLease(j)
    BY <1>3, <2>1, <2>2
  <2>3. CASE NewLease(j)
    <3>1. j \in Granted(count)
      BY <1>1, <2>1, <2>3 DEF Claim, NewLease
    <3>2. LeaseOf(j)' \in reply
      BY <3>1 DEF LeaseOf
    <3> HIDE DEF reply
    <3> QED BY <2>1, <3>2
  <2> QED BY <1>2, <2>2, <2>3
<1>8. ASSUME NEW reply \in claimed, ClaimRead(reply)
      PROVE  Found
  <2>1. /\ claimed' = claimed \ {reply} /\ UNCHANGED <<issued, mislaid>>
        /\ running' = running \cup {l \in reply : Decodes(l)}
    BY <1>8 DEF ClaimRead, Dispatch, history
  <2>2. Decodes(L)
    BY <1>3, <1>4, <2>1 DEF Decodes
  <2> QED BY <1>5, <1>6, <2>1, <2>2
<1>9. ASSUME NEW reply \in claimed, ClaimLost(reply)
      PROVE  Found
  <2>1. /\ claimed' = claimed \ {reply} /\ UNCHANGED <<issued, running>>
        /\ mislaid' = mislaid \cup reply
    BY <1>9 DEF ClaimLost, Lost, history
  <2> QED BY <1>5, <1>6, <2>1
<1>10. ASSUME NEW l \in running, NEW phase \in Phases, Ends(l, phase)
      PROVE  Found
  <2>1. /\ running' = running \ {l} /\ UNCHANGED <<claimed, mislaid>>
        /\ Answer(l, phase) = "completed" => \E p \in CompletedPolicies : Complete(l.job, l.token, p)
        /\ Answer(l, phase) = "waiting"   => FailRetry(l.job, l.token)
        /\ Answer(l, phase) = "failed"    => \E p \in FailedPolicies : FailFinal(l.job, l.token, p)
        /\ Answer(l, phase) \in {"stale", "missing"} => UNCHANGED <<store, history>>
    BY <1>10 DEF Ends, reports
  <2>2. Answer(l, phase) \in {"completed", "waiting", "failed", "stale", "missing"}
    BY DEF Answer
  <2>3. UNCHANGED issued
    BY <2>1, <2>2 DEF Complete, FailRetry, FailFinal, history
  <2>4. L # l
    <3> SUFFICES ASSUME L = l PROVE FALSE
      OBVIOUS
    <3>1. l.job = j /\ Holds(j, l.token)
      BY <1>3, <1>4, <2>3
    <3>2. Answer(l, phase) \notin {"stale", "missing"}
      BY <3>1 DEF Answer, Holds
    <3>3. j \notin active'
      BY <2>1, <2>2, <3>1, <3>2 DEF Complete, FailRetry, FailFinal
    <3> QED BY <3>3
  <2> QED BY <1>5, <2>1, <2>3, <2>4
<1>11. ASSUME NEW l \in running, NEW phase \in Phases, AckLost(l, phase)
      PROVE  Found
  <2>1. /\ running' = running \ {l} /\ UNCHANGED <<issued, claimed>>
        /\ mislaid' = mislaid \cup {l}
    BY <1>11 DEF AckLost, Lost, history
  <2> QED BY <1>5, <2>1
<1>12. ASSUME UNCHANGED <<issued, claimed, running>>, mislaid \subseteq mislaid'
       PROVE  Found
  BY <1>5, <1>12
<1>13. CASE \E a \in acked : AckRead(a) \/ AnswerLost(a)
  BY <1>12, <1>13 DEF AckRead, AnswerLost, Lost, history
<1>14. CASE Sweeps
  BY <1>12, <1>14 DEF Sweeps, Recover, reports
<1>15. CASE \E reply \in sweeps : SweepRead(reply) \/ SweepThrows(reply) \/ SweepLost(reply)
  BY <1>12, <1>15 DEF SweepRead, SweepThrows, SweepLost, Lost, reports, history
<1>16. CASE Environment
  BY <1>12, <1>16 DEF Environment, Enqueue, LeaseExpires, HashLost, replies, reports, history
<1>17. CASE UNCHANGED observed
  BY <1>12, <1>17 DEF observed, replies, reports, history
<1> QED BY <1>7, <1>8, <1>9, <1>10, <1>11, <1>13, <1>14, <1>15, <1>16, <1>17 DEF ReportsNext

-------------------------------------------------------------------------------
(* A job that does not decode. *)

\* No worker can fail it, complete it or hand it back: it can only stall.
Poisoned(j) ==
    /\ handoffs[j] = 0
    /\ j \in Garbled => outcome[j] # "completed" /\ (Exists(j) => hash[j].failures = 0)

LEMMA PoisonedKept ==
    ASSUME IInv, RepliesOK, [ReportsNext]_observed, NEW j \in JobIds, Poisoned(j)
    PROVE  Poisoned(j)'
<1>1. /\ TypeOK /\ hash \in [JobIds -> JobHash] /\ outcome \in [JobIds -> Outcomes]
      /\ hash[j] \in JobHash /\ "active" \in Statuses /\ "waiting" \in Statuses /\ "failed" \in Statuses
  BY DEF IInv, TypeOK, Statuses
<1>2. ASSUME UNCHANGED <<handoffs, outcome>>,
             j \in Garbled /\ Exists(j)' => Exists(j) /\ hash'[j].failures = hash[j].failures
      PROVE  Poisoned(j)'
  BY <1>2 DEF Poisoned
<1>3. ASSUME UNCHANGED <<store, history>> PROVE Poisoned(j)'
  BY <1>2, <1>3 DEF store, history, Exists
<1>4. ASSUME NEW count \in 1..ClaimBatch, Claim(count) PROVE Poisoned(j)'
  <2>1. hash'[j] = IF j \in Granted(count) THEN Run(hash[j]) ELSE hash[j]
    BY <1>4 DEF Claim
  <2>2. Run(hash[j]).failures = hash[j].failures
    BY <1>1, HashFields
  <2>3. j \in Granted(count) => Exists(j)
    BY DEF Granted
  <2> QED BY <1>2, <1>4, <2>1, <2>2, <2>3 DEF Claim, Exists
<1>5. ASSUME NEW l \in running, NEW phase \in Phases, Ends(l, phase) PROVE Poisoned(j)'
  <2>1. l.job \in JobIds /\ l.token \in Tokens(l.job) /\ l.job \notin Garbled
    BY DEF RepliesOK, ReportsTypeOK, Tokens, Lease
  <2>2. \/ \E p \in CompletedPolicies : Complete(l.job, l.token, p)
        \/ FailRetry(l.job, l.token)
        \/ \E p \in FailedPolicies : FailFinal(l.job, l.token, p)
        \/ UNCHANGED <<store, history>>
    BY <1>5 DEF Ends
  <2>3. CASE ~UNCHANGED <<store, history>>
    <3>1. UNCHANGED handoffs /\ (j \in Garbled => outcome'[j] = outcome[j])
      BY <2>1, <2>2, <2>3 DEF Complete, FailRetry, FailFinal, Announced, history
    <3>2. j \in Garbled /\ Exists(j)' => hash'[j] = hash[j]
      BY <2>1, <2>2, <2>3, AckHash
    <3> QED BY <3>1, <3>2 DEF Poisoned, Exists
  <2> QED BY <1>3, <2>3
<1>6. ASSUME NEW p \in FailedPolicies, Recover(p) PROVE Poisoned(j)'
  <2>1. UNCHANGED handoffs /\ (outcome'[j] = outcome[j] \/ outcome'[j] = "failed")
    BY <1>6 DEF Recover, Announced
  <2>2. Exists(j)' => Exists(j) /\ hash'[j].failures = hash[j].failures
    <3>1. /\ Stalled(hash[j], "waiting").failures = hash[j].failures
          /\ Stalled(hash[j], "failed").failures = hash[j].failures
      BY <1>1, HashFields
    <3> QED BY <1>6, <3>1, RecoverHash DEF Exists
  <2> QED BY <2>1, <2>2 DEF Poisoned
<1>7. ASSUME NEW i \in JobIds, NEW retries \in RetryBudgets, NEW stalls \in StallBudgets,
             Enqueue(i, retries, stalls)
      PROVE  Poisoned(j)'
  <2>1. UNCHANGED <<handoffs, outcome>>
    BY <1>7 DEF Enqueue
  <2>2. i = j => hash'[j].failures = 0
    BY <1>1, <1>7 DEF Enqueue, NoHash
  <2>3. i # j => hash'[j] = hash[j]
    BY <1>1, <1>7 DEF Enqueue
  <2> QED BY <2>1, <2>2, <2>3 DEF Poisoned, Exists
<1>8. ASSUME NEW i \in JobIds, HashLost(i) PROVE Poisoned(j)'
  <2>1. UNCHANGED handoffs /\ (outcome'[j] = outcome[j] \/ outcome'[j] = "lost")
    BY <1>1, <1>8 DEF HashLost
  <2>2. Exists(j)' => hash'[j] = hash[j]
    BY <1>1, <1>8 DEF HashLost, Exists
  <2> QED BY <2>1, <2>2 DEF Poisoned, Exists
<1>9. ASSUME NEW i \in JobIds, LeaseExpires(i) PROVE Poisoned(j)'
  BY <1>2, <1>9 DEF LeaseExpires, Exists, history
<1>10. CASE Environment
  BY <1>7, <1>8, <1>9, <1>10 DEF Environment
<1>11. CASE \E reply \in claimed : ClaimRead(reply) \/ ClaimLost(reply)
  BY <1>3, <1>11 DEF ClaimRead, ClaimLost
<1>12. CASE \E l \in running, phase \in Phases : AckLost(l, phase)
  BY <1>3, <1>12 DEF AckLost
<1>13. CASE \E a \in acked : AckRead(a) \/ AnswerLost(a)
  BY <1>3, <1>13 DEF AckRead, AnswerLost
<1>14. CASE \E reply \in sweeps : SweepRead(reply) \/ SweepThrows(reply) \/ SweepLost(reply)
  BY <1>3, <1>14 DEF SweepRead, SweepThrows, SweepLost
<1>15. CASE UNCHANGED observed
  BY <1>3, <1>15 DEF observed
<1>16. CASE \E count \in 1..ClaimBatch : Claims(count)
  BY <1>4, <1>16 DEF Claims
<1>17. CASE Sweeps
  BY <1>6, <1>17 DEF Sweeps
<1> QED BY <1>5, <1>10, <1>11, <1>12, <1>13, <1>14, <1>15, <1>16, <1>17 DEF ReportsNext


-------------------------------------------------------------------------------
(* Reports of corrupt jobs. *)

Gone(j) == j \in Range(born) /\ ~Exists(j) /\ j \notin Range(waiting) /\ j \notin active

\* The replies under way that will have the job reported as corrupt once read.
Undecodable(j) == {reply \in claimed : \E l \in reply : l.job = j /\ ~Decodes(l)}
Unfound(j) == {reply \in sweeps : \E e \in reply : e.job = j /\ e.outcome = "corrupt"}

Allowed(j) == (IF j \in Garbled THEN issued[j] ELSE 0) + (IF Gone(j) THEN 1 ELSE 0)

CorruptBacked(j) ==
    corrupt[j] + Cardinality(Undecodable(j)) + Cardinality(Unfound(j)) <= Allowed(j)

\* A job without a hash that has left the list and the active set stays out of them.
LEMMA GoneStays ==
    ASSUME IInv, [Next]_vars, NEW j \in JobIds, Gone(j)
    PROVE  Gone(j)'
<1>1. JobInv(j) /\ IInv'
  BY InvNext DEF IInv
<1>2. outcome[j] # "none"
  BY <1>1 DEF Gone, JobInv, Absent, Exists
<1>3. Sealed(j)
  BY <1>2, OutcomeSeals DEF Sealed, vars, store, history, Exists
<1>4. j \in Range(born)'
  <2>1. JobInv(j)' /\ outcome'[j] # "none"
    BY <1>1, <1>2, <1>3 DEF IInv, Sealed
  <2> QED BY <2>1 DEF JobInv, Absent
<1> QED BY <1>3, <1>4 DEF Gone, Sealed

LEMMA AllowedGrows ==
    ASSUME IInv, [Next]_vars, NEW j \in JobIds
    PROVE  /\ Allowed(j) \in Nat /\ Allowed(j)' \in Nat /\ Allowed(j)' >= Allowed(j)
           /\ ~Gone(j) /\ Gone(j)' => Allowed(j)' >= Allowed(j) + 1
           /\ j \in Garbled /\ issued'[j] > issued[j] => Allowed(j)' >= Allowed(j) + 1
BY TokensGrow, GoneStays DEF Allowed

\* One reply more, or one less.
LEMMA OneReply ==
    ASSUME NEW S, IsFiniteSet(S), NEW T, NEW x
    PROVE  /\ Cardinality(S) \in Nat
           /\ T \subseteq S => Cardinality(T) \in Nat /\ Cardinality(T) <= Cardinality(S)
           /\ T \subseteq S \cup {x} => Cardinality(T) \in Nat /\ Cardinality(T) <= Cardinality(S) + 1
           /\ T = S \ {x} /\ x \in S => Cardinality(T) = Cardinality(S) - 1
<1>1. Cardinality(S) \in Nat
  BY FS_CardinalityType
<1>2. T \subseteq S => Cardinality(T) \in Nat /\ Cardinality(T) <= Cardinality(S)
  BY FS_Subset, FS_CardinalityType
<1>3. T \subseteq S \cup {x} => Cardinality(T) \in Nat /\ Cardinality(T) <= Cardinality(S) + 1
  <2>1. PICK n \in Nat : n = Cardinality(S)
    BY <1>1
  <2>2. AtMost(S, n)
    BY <2>1 DEF AtMost
  <2>3. T \subseteq S \cup {x} => AtMost(T, n + 1)
    BY <2>2, OneMore
  <2> QED BY <2>1, <2>3, FS_CardinalityType DEF AtMost
<1>4. T = S \ {x} /\ x \in S => Cardinality(T) = Cardinality(S) - 1
  BY <1>1, FS_RemoveElement
<1> QED BY <1>1, <1>2, <1>3, <1>4

LEMMA CorruptKept ==
    ASSUME IInv, RepliesOK, [ReportsNext]_observed, NEW j \in JobIds, CorruptBacked(j)
    PROVE  CorruptBacked(j)'
<1> DEFINE U == Undecodable(j)
           V == Unfound(j)
           U1 == Undecodable(j)'
           V1 == Unfound(j)'
<1>1. /\ [Next]_vars /\ TypeOK /\ JobInv(j) /\ IInv' /\ corrupt[j] \in Nat
      /\ IsFiniteSet(claimed) /\ IsFiniteSet(sweeps)
      /\ \A reply \in claimed : OneEach(reply)
      /\ \A reply \in sweeps : OneEach(reply)
  BY ReportsStep, InvNext DEF RepliesOK, ReportsTypeOK, IInv
<1>2. /\ Allowed(j) \in Nat /\ Allowed(j)' \in Nat /\ Allowed(j)' >= Allowed(j)
      /\ ~Gone(j) /\ Gone(j)' => Allowed(j)' >= Allowed(j) + 1
      /\ j \in Garbled /\ issued'[j] > issued[j] => Allowed(j)' >= Allowed(j) + 1
  BY <1>1, AllowedGrows
<1>3. IsFiniteSet(U) /\ IsFiniteSet(V)
  BY <1>1, FS_Subset DEF Undecodable, Unfound
<1>4. /\ claimed' \subseteq claimed => U1 \subseteq U
      /\ sweeps' \subseteq sweeps => V1 \subseteq V
  BY DEF Undecodable, Unfound, Decodes
<1>5. /\ \A reply : claimed' = claimed \cup {reply} =>
           U1 \subseteq IF \E l \in reply : l.job = j /\ ~Decodes(l) THEN U \cup {reply} ELSE U
      /\ \A reply : sweeps' = sweeps \cup {reply} =>
           V1 \subseteq IF \E e \in reply : e.job = j /\ e.outcome = "corrupt" THEN V \cup {reply} ELSE V
  BY DEF Undecodable, Unfound, Decodes
<1>6. /\ \A reply \in claimed : claimed' = claimed \ {reply} =>
           U1 = U \ {reply} /\ (reply \in U <=> \E l \in reply : l.job = j /\ ~Decodes(l))
      /\ \A reply \in sweeps : sweeps' = sweeps \ {reply} =>
           V1 = V \ {reply} /\ (reply \in V <=> \E e \in reply : e.job = j /\ e.outcome = "corrupt")
  BY DEF Undecodable, Unfound, Decodes
<1>7. corrupt[j] + Cardinality(U) + Cardinality(V) <= Allowed(j)
  BY DEF CorruptBacked
<1> DEFINE Kept == corrupt'[j] + Cardinality(U1) + Cardinality(V1) <= Allowed(j)'
<1>8. Kept => CorruptBacked(j)'
  BY DEF CorruptBacked
<1> HIDE DEF U, V, U1, V1
<1> DEFINE Reach == Allowed(j)
           Reach1 == Allowed(j)'
           u == Cardinality(U)
           v == Cardinality(V)
           u1 == Cardinality(U1)
           v1 == Cardinality(V1)
<1>9. /\ u \in Nat /\ v \in Nat /\ Reach \in Nat /\ Reach1 \in Nat /\ Reach1 >= Reach
      /\ corrupt[j] + u + v <= Reach
      /\ U1 \subseteq U => u1 \in Nat /\ u1 <= u
      /\ V1 \subseteq V => v1 \in Nat /\ v1 <= v
      /\ \A x : U1 \subseteq U \cup {x} => u1 \in Nat /\ u1 <= u + 1
      /\ \A x : V1 \subseteq V \cup {x} => v1 \in Nat /\ v1 <= v + 1
      /\ \A x \in U : U1 = U \ {x} => u1 \in Nat /\ u1 = u - 1
      /\ \A x \in V : V1 = V \ {x} => v1 \in Nat /\ v1 = v - 1
  BY <1>2, <1>3, <1>7, OneReply
<1>10. Kept <=> corrupt'[j] + u1 + v1 <= Reach1
  OBVIOUS
<1> HIDE DEF Reach, Reach1, u, v, u1, v1, Kept
<1>11. ASSUME UNCHANGED corrupt, U1 \subseteq U, V1 \subseteq V PROVE Kept
  BY <1>1, <1>9, <1>10, <1>11
<1>12. ASSUME NEW count \in 1..ClaimBatch, Claims(count) PROVE Kept
  <2> DEFINE popped == Range(SubSeq(waiting, 1, BatchSize(count)))
             reply == {[job |-> i, token |-> hash'[i].token] : i \in Granted(count)}
                        \cup {DeadPointer(i) : i \in popped \ Granted(count)}
  <2>1. Claim(count) /\ claimed' = claimed \cup {reply} /\ UNCHANGED <<corrupt, sweeps>>
    BY <1>12 DEF Claims, reports
  <2>7. /\ popped = Range(SubSeq(waiting, 1, BatchSize(count)))
        /\ reply = {[job |-> i, token |-> hash'[i].token] : i \in Granted(count)}
                     \cup {DeadPointer(i) : i \in popped \ Granted(count)}
    OBVIOUS
  <2> HIDE DEF reply, popped
  <2>2. /\ popped \subseteq Range(waiting) /\ Granted(count) = {i \in popped : Exists(i)}
        /\ \A i \in popped : i \notin Range(waiting)'
        /\ \A l \in reply : /\ l.job \in popped
                            /\ IF Exists(l.job) THEN l.token = issued'[l.job] /\ l.token = issued[l.job] + 1
                                                ELSE l.token = 0
    BY <2>1, <2>7, ClaimReply
  <2>3. V1 \subseteq V
    BY <1>4, <2>1
  <2>4. CASE ~ \E l \in reply : l.job = j /\ ~Decodes(l)
    BY <1>5, <1>11, <2>1, <2>3, <2>4
  <2>5. CASE \E l \in reply : l.job = j /\ ~Decodes(l)
    <3>1. PICK l \in reply : l.job = j /\ ~Decodes(l)
      BY <2>5
    <3>2. issued[j] \in Nat
      BY <1>1 DEF TypeOK
    <3>3. Reach1 >= Reach + 1
      <4> SUFFICES Allowed(j)' >= Allowed(j) + 1
        BY DEF Reach, Reach1
      <4>1. CASE Exists(j)
        BY <1>2, <2>2, <3>1, <3>2, <4>1 DEF Decodes
      <4>2. CASE ~Exists(j)
        <5>1. j \in Range(waiting) /\ j \notin Granted(count) /\ j \notin Range(waiting)'
          BY <2>2, <3>1, <4>2
        <5>2. j \notin active /\ j \in Range(born)
          BY <1>1, <5>1 DEF JobInv, Apart, Absent
        <5>3. j \notin active' /\ hash'[j] = hash[j] /\ born' = born
          BY <2>1, <5>1, <5>2 DEF Claim
        <5> QED BY <1>2, <4>2, <5>1, <5>2, <5>3 DEF Gone, Exists
      <4> QED BY <4>1, <4>2
    <3>4. U1 \subseteq U \cup {reply}
      BY <1>5, <2>1
    <3>5. u1 \in Nat /\ u1 <= u + 1 /\ v1 \in Nat /\ v1 <= v
      BY <1>9, <2>3, <3>4
    <3> QED BY <1>1, <1>9, <1>10, <2>1, <3>3, <3>5
  <2> QED BY <2>4, <2>5
<1>13. ASSUME NEW reply \in claimed, ClaimRead(reply) PROVE Kept
  <2> DEFINE bad == reply \ {l \in reply : Decodes(l)}
  <2>1. /\ corrupt' = [i \in JobIds |-> corrupt[i] + Cardinality({l \in bad : l.job = i})]
        /\ claimed' = claimed \ {reply} /\ UNCHANGED sweeps
    BY <1>13 DEF ClaimRead, Dispatch
  <2>2. reply \in U <=> \E l \in bad : l.job = j
    BY <1>6, <2>1
  <2>3. OneEach(reply) /\ bad \in SUBSET reply
    BY <1>1
  <2> HIDE DEF bad
  <2>4. Cardinality({l \in bad : l.job = j}) = IF \E l \in bad : l.job = j THEN 1 ELSE 0
    BY <2>3, OneEntry, Zenon
  <2>5. corrupt'[j] = corrupt[j] + Cardinality({l \in bad : l.job = j})
    BY <2>1, Zenon
  <2>6. corrupt'[j] = corrupt[j] + (IF reply \in U THEN 1 ELSE 0)
    BY <2>2, <2>4, <2>5
  <2>7. U1 = U \ {reply} /\ V1 \subseteq V
    BY <1>4, <1>6, <2>1
  <2>8. CASE reply \in U
    BY <1>1, <1>9, <1>10, <2>6, <2>7, <2>8
  <2>9. CASE reply \notin U
    <3>1. U1 \subseteq U /\ corrupt'[j] = corrupt[j]
      BY <1>1, <2>6, <2>7, <2>9
    <3> QED BY <1>1, <1>9, <1>10, <2>7, <3>1
  <2> QED BY <2>8, <2>9
<1>14. ASSUME Sweeps PROVE Kept
  <2>1. PICK policy \in FailedPolicies : Recover(policy)
    BY <1>14 DEF Sweeps
  <2>2. sweeps' = sweeps \cup {Swept} /\ UNCHANGED <<corrupt, claimed>>
    BY <1>14 DEF Sweeps, reports
  <2>3. \A e \in Swept : e.job \in expired \ expired' /\ (e.outcome = "corrupt" => ~Exists(e.job))
    BY <2>1, SweepReply
  <2>4. U1 \subseteq U
    BY <1>4, <2>2
  <2>5. CASE ~ \E e \in Swept : e.job = j /\ e.outcome = "corrupt"
    BY <1>5, <1>11, <2>2, <2>4, <2>5
  <2>6. CASE \E e \in Swept : e.job = j /\ e.outcome = "corrupt"
    <3>1. j \in expired \ expired' /\ ~Exists(j)
      BY <2>3, <2>6
    <3>2. j \in active /\ j \notin active' /\ j \in Range(born) /\ born' = born
      <4>1. j \in active /\ j \notin active' /\ born' = born
        BY <1>1, <2>1, <3>1 DEF Recover, Candidates, TypeOK
      <4> QED BY <1>1, <4>1 DEF JobInv, Absent
    <3>3. ~Exists(j)'
      BY <2>1, <3>1, RecoverHash
    <3>4. j \notin Range(waiting)'
      <4>1. outcome[j] # "none" /\ j \notin Range(waiting)
        BY <1>1, <3>1, <3>2 DEF JobInv, Absent, Apart, Exists
      <4> QED BY <2>1, <4>1, OutcomeSeals DEF Next, Sealed
    <3>5. Reach1 >= Reach + 1
      BY <1>2, <3>2, <3>3, <3>4 DEF Gone, Reach, Reach1
    <3>6. V1 \subseteq V \cup {Swept}
      BY <1>5, <2>2
    <3>7. u1 \in Nat /\ u1 <= u /\ v1 \in Nat /\ v1 <= v + 1
      BY <1>9, <2>4, <3>6
    <3> QED BY <1>1, <1>9, <1>10, <2>2, <3>5, <3>7
  <2> QED BY <2>5, <2>6
<1>15. ASSUME NEW reply \in sweeps, SweepRead(reply) PROVE Kept
  <2> DEFINE gone == {e \in reply : e.outcome = "corrupt"}
  <2>1. /\ corrupt' = [i \in JobIds |-> corrupt[i] + Cardinality({e \in gone : e.job = i})]
        /\ sweeps' = sweeps \ {reply} /\ UNCHANGED claimed
    BY <1>15 DEF SweepRead
  <2>2. reply \in V <=> \E e \in gone : e.job = j
    BY <1>6, <2>1
  <2>3. OneEach(reply) /\ gone \in SUBSET reply
    BY <1>1
  <2> HIDE DEF gone
  <2>4. Cardinality({e \in gone : e.job = j}) = IF \E e \in gone : e.job = j THEN 1 ELSE 0
    BY <2>3, OneEntry, Zenon
  <2>5. corrupt'[j] = corrupt[j] + Cardinality({e \in gone : e.job = j})
    BY <2>1, Zenon
  <2>6. corrupt'[j] = corrupt[j] + (IF reply \in V THEN 1 ELSE 0)
    BY <2>2, <2>4, <2>5
  <2>7. V1 = V \ {reply} /\ U1 \subseteq U
    BY <1>4, <1>6, <2>1
  <2>8. CASE reply \in V
    BY <1>1, <1>9, <1>10, <2>6, <2>7, <2>8
  <2>9. CASE reply \notin V
    <3>1. V1 \subseteq V /\ corrupt'[j] = corrupt[j]
      BY <1>1, <2>6, <2>7, <2>9
    <3> QED BY <1>1, <1>9, <1>10, <2>7, <3>1
  <2> QED BY <2>8, <2>9
<1>16. ASSUME UNCHANGED corrupt, claimed' \subseteq claimed, sweeps' \subseteq sweeps PROVE Kept
  BY <1>4, <1>11, <1>16
<1>17. CASE \E reply \in claimed : ClaimLost(reply)
  BY <1>8, <1>16, <1>17 DEF ClaimLost
<1>18. CASE \E l \in running, phase \in Phases : Ends(l, phase) \/ AckLost(l, phase)
  BY <1>8, <1>16, <1>18 DEF Ends, AckLost, reports
<1>19. CASE \E a \in acked : AckRead(a) \/ AnswerLost(a)
  BY <1>8, <1>16, <1>19 DEF AckRead, AnswerLost
<1>20. CASE \E reply \in sweeps : SweepThrows(reply) \/ SweepLost(reply)
  BY <1>8, <1>16, <1>20 DEF SweepThrows, SweepLost, reports
<1>21. CASE Environment
  BY <1>8, <1>16, <1>21 DEF Environment, replies, reports
<1>22. CASE UNCHANGED observed
  BY <1>8, <1>16, <1>22 DEF observed, replies, reports
<1> QED BY <1>8, <1>12, <1>13, <1>14, <1>15, <1>17, <1>18, <1>19, <1>20, <1>21, <1>22 DEF ReportsNext


-------------------------------------------------------------------------------
(* The theorems. *)

\* What the replies under way, the events and the scripts must agree on.
ReportsInv ==
    /\ IInv
    /\ RepliesOK
    /\ \A j \in JobIds : Judged(j) /\ Followed(j) /\ Poisoned(j) /\ CorruptBacked(j)

LEMMA ReportsInvInit == ReportsInit => ReportsInv
<1> SUFFICES ASSUME ReportsInit PROVE ReportsInv
  OBVIOUS
<1>1. Init /\ IInv
  BY InvInit DEF ReportsInit
<1>2. RepliesOK
  BY <1>1, FS_EmptySet, ReportsAssumption DEF ReportsInit, RepliesOK, ReportsTypeOK, IInv
<1>3. ASSUME NEW j \in JobIds PROVE Judged(j) /\ Followed(j) /\ Poisoned(j) /\ CorruptBacked(j)
  <2>1. events[j] = {} /\ corrupt[j] = 0 /\ claimed = {} /\ acked = {} /\ sweeps = {}
    BY DEF ReportsInit
  <2>2. Due(j) = {}
    BY <2>1 DEF Due
  <2>3. ~Exists(j) /\ active = {} /\ handoffs[j] = 0 /\ outcome[j] = "none" /\ issued[j] = 0 /\ born = <<>>
    BY <1>1 DEF Init, Exists
  <2>4. Judged(j)
    BY <2>2, <2>3 DEF Judged, DueOf
  <2>5. Followed(j) /\ Poisoned(j)
    BY <2>3 DEF Followed, Poisoned
  <2>6. Undecodable(j) = {} /\ Unfound(j) = {}
    BY <2>1 DEF Undecodable, Unfound
  <2>7. Allowed(j) \in Nat
    BY <2>3 DEF Allowed
  <2>8. CorruptBacked(j)
    BY <2>1, <2>6, <2>7, FS_EmptySet DEF CorruptBacked
  <2> QED BY <2>4, <2>5, <2>8
<1> QED BY <1>1, <1>2, <1>3 DEF ReportsInv

LEMMA ReportsInvNext == ReportsInv /\ [ReportsNext]_observed => ReportsInv'
<1> SUFFICES ASSUME ReportsInv, [ReportsNext]_observed PROVE ReportsInv'
  OBVIOUS
<1>1. IInv /\ RepliesOK
  BY DEF ReportsInv
<1>2. IInv' /\ RepliesOK'
  BY <1>1, ReportsStep, InvNext, RepliesKept
<1>3. ASSUME NEW j \in JobIds PROVE (Judged(j) /\ Followed(j) /\ Poisoned(j) /\ CorruptBacked(j))'
  BY <1>1, JudgedKept, FollowedKept, PoisonedKept, CorruptKept DEF ReportsInv
<1> QED BY <1>2, <1>3 DEF ReportsInv

LEMMA ReportsInvariant == ReportsSpec => []ReportsInv
BY ReportsInvInit, ReportsInvNext, PTL DEF ReportsSpec

\* Whatever replies are read late or lost, Redis goes through a behaviour of
\* QueueStore: its theorems hold of the queue that the events tell of.
THEOREM ReportsIsStore == ReportsSpec => Spec
<1>1. ReportsInit => Init
  BY DEF ReportsInit
<1>2. ReportsInv /\ [ReportsNext]_observed => [Next]_vars
  BY ReportsStep DEF ReportsInv
<1> QED BY <1>1, <1>2, ReportsInvariant, PTL DEF Spec, ReportsSpec

\* So it implements the lifecycle of jobs.
THEOREM ReportsLifecycle == ReportsSpec => ImplementsLifecycle
BY ReportsIsStore, Refinement, PTL

\* Whoever reports how a run ended, no other event says something else of it:
\* the verdict falls in the script that ends the lease, under its token.
THEOREM OneVerdictPerRunHolds == ReportsSpec => []OneVerdictPerRun
<1>1. ReportsInv => OneVerdictPerRun
  BY DEF ReportsInv, Judged, DueOf, Due, OneVerdictPerRun, Reports, VerdictKinds
<1> QED BY <1>1, ReportsInvariant, PTL

\* A terminal event is the outcome of its job, and errors and retries are
\* announced no more often than the hash has counted them and allows.
THEOREM ReportsBackedHolds == ReportsSpec => []ReportsBacked
<1>1. ReportsInv => ReportsBacked
  <2> SUFFICES ASSUME ReportsInv PROVE ReportsBacked
    OBVIOUS
  <2>1. ReportsTypeOK /\ IInv
    BY DEF ReportsInv, RepliesOK
  <2> SUFFICES ASSUME NEW j \in JobIds
               PROVE  /\ Reports(j, {"completed"}) # {} => outcome[j] = "completed"
                      /\ Reports(j, {"failed", "stalledFailed"}) # {} => outcome[j] = "failed"
                      /\ Exists(j) =>
                           /\ Cardinality(Reports(j, {"error"})) <= hash[j].failures
                           /\ Cardinality(Reports(j, {"retry"})) <= hash[j].maxRetries
                           /\ Cardinality(Reports(j, {"stalledRetry"})) <= Smaller(hash[j].stalls, hash[j].maxStalls)
    BY <2>1 DEF ReportsBacked
  <2>2. \A kinds : Reports(j, kinds) \subseteq DueOf(j, kinds)
    BY DEF Reports, DueOf, Due
  <2>3. Judged(j)
    BY DEF ReportsInv
  <2>4. ASSUME Exists(j)
        PROVE  /\ Cardinality(Reports(j, {"error"})) <= hash[j].failures
               /\ Cardinality(Reports(j, {"retry"})) <= hash[j].maxRetries
               /\ Cardinality(Reports(j, {"stalledRetry"})) <= Smaller(hash[j].stalls, hash[j].maxStalls)
    <3>1. /\ hash[j].failures \in Nat /\ hash[j].maxRetries \in Nat
          /\ hash[j].stalls \in Nat /\ hash[j].maxStalls \in Nat
      BY <2>1, HashShape DEF IInv, TypeOK
    <3>2. ASSUME NEW k, NEW n \in Nat, AtMost(DueOf(j, {k}), n)
          PROVE  Cardinality(Reports(j, {k})) <= n
      BY <2>2, <3>2, OneMore DEF AtMost
    <3>3. Counted(j)
      BY <2>3, <2>4 DEF Judged
    <3> QED BY <3>1, <3>2, <3>3 DEF Counted, Smaller
  <2> QED BY <2>2, <2>3, <2>4 DEF Judged
<1> QED BY <1>1, ReportsInvariant, PTL

\* A job is reported as corrupt at most once for a hash that is gone, and once
\* per hand-out if its hash does not decode.
THEOREM CorruptCountedHolds == ReportsSpec => []CorruptCounted
<1>1. ReportsInv => CorruptCounted
  <2> SUFFICES ASSUME ReportsInv, NEW j \in JobIds
               PROVE  corrupt[j] <= 1 + (IF j \in Garbled THEN issued[j] ELSE 0)
    BY DEF CorruptCounted
  <2>1. /\ issued[j] \in Nat /\ corrupt[j] \in Nat
        /\ IsFiniteSet(Undecodable(j)) /\ IsFiniteSet(Unfound(j)) /\ CorruptBacked(j)
    BY FS_Subset DEF ReportsInv, IInv, TypeOK, RepliesOK, ReportsTypeOK, Undecodable, Unfound
  <2>2. Cardinality(Undecodable(j)) \in Nat /\ Cardinality(Unfound(j)) \in Nat
    BY <2>1, FS_CardinalityType
  <2> QED BY <2>1, <2>2 DEF CorruptBacked, Allowed
<1> QED BY <1>1, ReportsInvariant, PTL

\* However its siblings in a reply decode, a healthy job under lease is in a
\* reply, in a handler, or was lost with a connection.
THEOREM HealthySiblingsRunHolds == ReportsSpec => []HealthySiblingsRun
<1>1. ReportsInv => HealthySiblingsRun
  BY DEF ReportsInv, IInv, TypeOK, Followed, LeaseOf, HealthySiblingsRun
<1> QED BY <1>1, ReportsInvariant, PTL

\* A job that no worker can decode is handed out at most maxStalls + 1 times and
\* never completes.
THEOREM PoisonBoundedHolds == ReportsSpec => []PoisonBounded
<1>1. ReportsInv => PoisonBounded
  <2> SUFFICES ASSUME ReportsInv, NEW j \in Garbled
               PROVE  /\ Exists(j) => issued[j] <= hash[j].maxStalls + 1
                      /\ outcome[j] # "completed"
    BY DEF PoisonBounded
  <2>1. j \in JobIds
    BY ReportsAssumption
  <2>2. /\ JobInv(j) /\ Poisoned(j) /\ hash[j] \in JobHash
    BY <2>1 DEF ReportsInv, IInv, TypeOK
  <2>3. outcome[j] # "completed"
    BY <2>2 DEF Poisoned
  <2>4. ASSUME Exists(j) PROVE issued[j] <= hash[j].maxStalls + 1
    <3>1. /\ hash[j].runs = issued[j] /\ Consistent(j) /\ Accounted(j) /\ WithinBudgets(j)
          /\ handoffs[j] = 0 /\ hash[j].failures = 0
      BY <2>2, <2>4 DEF JobInv, Recorded, Exists, Poisoned
    <3>2. hash[j].status # "completed"
      BY <2>3, <3>1 DEF Consistent
    <3>3. PICK runs \in Nat, stalls \in Nat, maxRetries \in Nat, maxStalls \in Nat :
            /\ runs = hash[j].runs /\ stalls = hash[j].stalls
            /\ maxRetries = hash[j].maxRetries /\ maxStalls = hash[j].maxStalls
      BY <2>2, HashShape
    <3>4. CASE hash[j].status = "failed"
      BY <3>1, <3>3, <3>4 DEF Accounted, WithinBudgets
    <3>5. CASE hash[j].status # "failed"
      BY <3>1, <3>2, <3>3, <3>5 DEF Accounted, WithinBudgets
    <3> QED BY <3>4, <3>5
  <2> QED BY <2>3, <2>4
<1> QED BY <1>1, ReportsInvariant, PTL

===============================================================================
