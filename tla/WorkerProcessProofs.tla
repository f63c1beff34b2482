-------------------------- MODULE WorkerProcessProofs --------------------------
(***************************************************************************)
(* What holds in a worker process for every value of the constants: of the *)
(* local semaphore, of the renewal of a lease, and of the pool with its    *)
(* connections.  The three share no variable; each has its own invariant.  *)
(***************************************************************************)
EXTENDS Semaphore, LeaseRenewal, WorkerPool, Integers,
        SequenceTheorems, FiniteSetTheorems, TLAPS

-------------------------------------------------------------------------------
(* The semaphore.  SemaphoreExact is inductive as it stands, for any finite    *)
(* set of callers and any number of permits: the queue is exact, so a release  *)
(* hands its permit to somebody who waits for it; the counter is exact, so one *)
(* that is put back was somebody's.                                            *)

Elements(w) == {w[i] : i \in DOMAIN w}
NoTwice(w)  == \A i, j \in DOMAIN w : w[i] = w[j] => i = j

\* Appending a caller that is not in the queue.
LEMMA Appended ==
    ASSUME NEW S, NEW w \in Seq(S), NEW c \in S, c \notin Elements(w), NoTwice(w)
    PROVE  LET v == Append(w, c) IN
           v \in Seq(S) /\ v # <<>> /\ Elements(v) = Elements(w) \cup {c} /\ NoTwice(v)
<1> DEFINE v == Append(w, c)
           n == Len(w)
<1>1. /\ v \in Seq(S) /\ Len(v) = n + 1 /\ n \in Nat
      /\ \A i \in 1..n : v[i] = w[i]
      /\ v[n + 1] = c
  BY AppendProperties
<1>2. DOMAIN v = 1..(n + 1) /\ DOMAIN w = 1..n
  BY <1>1, LenProperties
<1>3. v # <<>>
  BY <1>1, <1>2
<1> HIDE DEF v
<1>4. Elements(v) = Elements(w) \cup {c}
  <2>1. ASSUME NEW x \in Elements(v) PROVE x \in Elements(w) \cup {c}
    BY <1>1, <1>2, <2>1 DEF Elements
  <2>2. ASSUME NEW x \in Elements(w) PROVE x \in Elements(v)
    <3>1. PICK i \in 1..n : x = w[i]
      BY <1>2 DEF Elements
    <3>2. i \in DOMAIN v /\ x = v[i]
      BY <1>1, <1>2, <3>1
    <3> QED BY <3>2 DEF Elements
  <2>3. n + 1 \in DOMAIN v
    BY <1>1, <1>2
  <2>4. c \in Elements(v)
    BY <1>1, <2>3 DEF Elements
  <2> QED BY <2>1, <2>2, <2>4
<1>5. NoTwice(v)
  BY <1>1, <1>2 DEF NoTwice, Elements
<1> QED BY <1>1, <1>3, <1>4, <1>5 DEF v

\* Serving the head of the queue.
LEMMA HeadServed ==
    ASSUME NEW S, NEW w \in Seq(S), w # <<>>, NoTwice(w)
    PROVE  /\ Head(w) \in Elements(w)
           /\ Tail(w) \in Seq(S)
           /\ Elements(Tail(w)) = Elements(w) \ {Head(w)}
           /\ NoTwice(Tail(w))
<1> DEFINE t == Tail(w)
           n == Len(w)
<1>1. n \in Nat \ {0} /\ DOMAIN w = 1..n /\ Head(w) = w[1]
  BY LenProperties, EmptySeq, HeadTailProperties
<1>2. t \in Seq(S) /\ Len(t) = n - 1 /\ \A i \in 1..(n - 1) : t[i] = w[i + 1]
  BY HeadTailProperties
<1>3. DOMAIN t = 1..(n - 1)
  BY <1>2, LenProperties
<1> HIDE DEF t
<1>4. Elements(t) = Elements(w) \ {w[1]}
  <2>1. ASSUME NEW x \in Elements(t) PROVE x \in Elements(w) \ {w[1]}
    <3>1. PICK i \in 1..(n - 1) : x = t[i]
      BY <1>3 DEF Elements
    <3>2. x = w[i + 1] /\ i + 1 \in DOMAIN w /\ 1 \in DOMAIN w /\ i + 1 # 1
      BY <1>1, <1>2, <3>1
    <3> QED BY <3>2 DEF Elements, NoTwice
  <2>2. ASSUME NEW x \in Elements(w), x # w[1] PROVE x \in Elements(t)
    <3>1. PICK i \in 1..n : x = w[i]
      BY <1>1 DEF Elements
    <3>2. i - 1 \in 1..(n - 1) /\ (i - 1) + 1 = i
      BY <1>1, <2>2, <3>1
    <3>3. t[i - 1] = x
      BY <1>2, <3>1, <3>2
    <3> QED BY <1>3, <3>2, <3>3 DEF Elements
  <2> QED BY <2>1, <2>2
<1>5. NoTwice(t)
  <2>1. ASSUME NEW i \in 1..(n - 1), NEW j \in 1..(n - 1), t[i] = t[j] PROVE i = j
    <3>1. i + 1 \in DOMAIN w /\ j + 1 \in DOMAIN w
      BY <1>1
    <3>2. w[i + 1] = w[j + 1]
      BY <1>2, <2>1
    <3>3. i + 1 = j + 1
      BY <3>1, <3>2 DEF NoTwice
    <3> QED BY <3>3
  <2> QED BY <1>3, <2>1 DEF NoTwice
<1>6. w[1] \in Elements(w)
  BY <1>1 DEF Elements
<1> QED BY <1>1, <1>2, <1>4, <1>5, <1>6 DEF t

\* Taking one entry out of the queue, as an abort does.
LEMMA TakenOut ==
    ASSUME NEW S, NEW w \in Seq(S), NEW k \in DOMAIN w, NoTwice(w)
    PROVE  LET v == SubSeq(w, 1, k - 1) \o SubSeq(w, k + 1, Len(w)) IN
           v \in Seq(S) /\ Elements(v) = Elements(w) \ {w[k]} /\ NoTwice(v)
<1> DEFINE a == SubSeq(w, 1, k - 1)
           b == SubSeq(w, k + 1, Len(w))
           v == a \o b
           n == Len(w)
<1>1. n \in Nat /\ DOMAIN w = 1..n /\ k \in 1..n
  BY LenProperties
<1>2. a \in Seq(S) /\ Len(a) = k - 1 /\ \A i \in 1..(k - 1) : a[i] = w[i]
  <2>1. \A i \in 1..(k - 1) : w[i] \in S
    BY <1>1, ElementOfSeq
  <2>2. /\ a \in Seq(S)
        /\ Len(a) = IF 1 <= k - 1 THEN (k - 1) - 1 + 1 ELSE 0
        /\ \A i \in 1..((k - 1) - 1 + 1) : a[i] = w[1 + i - 1]
    BY <1>1, <2>1, SubSeqProperties
  <2> HIDE DEF a
  <2> QED BY <1>1, <2>2
<1>3. b \in Seq(S) /\ Len(b) = n - k /\ \A i \in 1..(n - k) : b[i] = w[k + i]
  <2>1. \A i \in (k + 1)..n : w[i] \in S
    BY <1>1, ElementOfSeq
  <2>2. /\ b \in Seq(S)
        /\ Len(b) = IF k + 1 <= n THEN n - (k + 1) + 1 ELSE 0
        /\ \A i \in 1..(n - (k + 1) + 1) : b[i] = w[(k + 1) + i - 1]
    BY <1>1, <2>1, SubSeqProperties
  <2> HIDE DEF b
  <2>3. Len(b) = n - k
    BY <1>1, <2>2
  <2>4. ASSUME NEW i \in 1..(n - k) PROVE b[i] = w[k + i]
    <3>1. i \in 1..(n - (k + 1) + 1) /\ (k + 1) + i - 1 = k + i
      BY <1>1
    <3> QED BY <2>2, <3>1
  <2> QED BY <2>2, <2>3, <2>4
<1>4. /\ v \in Seq(S) /\ Len(v) = Len(a) + Len(b)
      /\ \A i \in 1..(Len(a) + Len(b)) : v[i] = IF i <= Len(a) THEN a[i] ELSE b[i - Len(a)]
  BY <1>2, <1>3, ConcatProperties
<1> HIDE DEF a, b, v
<1>5. DOMAIN v = 1..(n - 1)
  <2>1. Len(v) = n - 1
    BY <1>1, <1>2, <1>3, <1>4
  <2> QED BY <1>4, <2>1, LenProperties
<1>6. ASSUME NEW i \in 1..(n - 1) PROVE v[i] = IF i < k THEN w[i] ELSE w[i + 1]
  <2>1. v[i] = IF i <= Len(a) THEN a[i] ELSE b[i - Len(a)]
    BY <1>1, <1>2, <1>3, <1>4
  <2>2. CASE i < k
    BY <1>1, <1>2, <2>1, <2>2
  <2>3. CASE i >= k
    <3>1. i - Len(a) \in 1..(n - k) /\ k + (i - Len(a)) = i + 1 /\ ~(i <= Len(a))
      BY <1>1, <1>2, <2>3
    <3>2. b[i - Len(a)] = w[i + 1]
      BY <1>3, <3>1
    <3> QED BY <1>1, <2>1, <2>3, <3>1, <3>2
  <2> QED BY <1>1, <2>2, <2>3
<1>7. Elements(v) = Elements(w) \ {w[k]}
  <2>1. ASSUME NEW x \in Elements(v) PROVE x \in Elements(w) \ {w[k]}
    <3>1. PICK i \in 1..(n - 1) : x = v[i]
      BY <1>5 DEF Elements
    <3> DEFINE m == IF i < k THEN i ELSE i + 1
    <3>2. m \in DOMAIN w /\ m # k /\ x = w[m]
      BY <1>1, <1>6, <3>1
    <3> HIDE DEF m
    <3> QED BY <3>2 DEF Elements, NoTwice
  <2>2. ASSUME NEW x \in Elements(w), x # w[k] PROVE x \in Elements(v)
    <3>1. PICK i \in 1..n : x = w[i]
      BY <1>1 DEF Elements
    <3> DEFINE m == IF i < k THEN i ELSE i - 1
    <3>2. i # k
      BY <2>2, <3>1
    <3>3. m \in 1..(n - 1) /\ (IF m < k THEN m ELSE m + 1) = i
      BY <1>1, <3>2
    <3> HIDE DEF m
    <3>4. v[m] = x
      BY <1>6, <3>1, <3>3
    <3> QED BY <1>5, <3>3, <3>4 DEF Elements
  <2> QED BY <2>1, <2>2
<1>8. ASSUME NEW i \in 1..(n - 1), NEW j \in 1..(n - 1), v[i] = v[j] PROVE i = j
  <2> DEFINE place(m) == IF m < k THEN m ELSE m + 1
  <2>1. place(i) \in 1..n /\ place(j) \in 1..n /\ (place(i) = place(j) => i = j)
    BY <1>1
  <2>2. v[i] = w[place(i)] /\ v[j] = w[place(j)]
    BY <1>6
  <2> HIDE DEF place
  <2> QED BY <1>1, <1>8, <2>1, <2>2 DEF NoTwice
<1>9. NoTwice(v)
  BY <1>5, <1>8 DEF NoTwice
<1> QED BY <1>4, <1>7, <1>9 DEF v, a, b

-------------------------------------------------------------------------------

\* The queue's part of the invariant in the words of the lemmas.
LEMMA QueueExactMeans ==
    QueueExact <=> Waiting = Elements(waiters) /\ NoTwice(waiters)
BY DEF QueueExact, Elements, NoTwice

\* The callers that own a permit are finitely many.
LEMMA TakenFinite ==
    /\ IsFiniteSet(Taken)
    /\ Cardinality(Taken) \in Nat
BY SemaphoreAssumption, FS_Subset, FS_CardinalityType DEF Taken

\* A caller that gets a permit is one more owner.
LEMMA OneMore ==
    ASSUME NEW c \in Callers, PermitsExact, current \in Nat, c \notin Taken,
           current' = current + 1, Taken' = Taken \cup {c}
    PROVE  PermitsExact'
<1>1. Cardinality(Taken \cup {c}) = Cardinality(Taken) + 1
  BY TakenFinite, FS_AddElement
<1> QED BY <1>1 DEF PermitsExact

\* A caller that puts its permit back is one owner less.
LEMMA OneLess ==
    ASSUME NEW c \in Callers, PermitsExact, current \in Nat, c \in Taken,
           current' = current - 1, Taken' = Taken \ {c}
    PROVE  PermitsExact' /\ current # 0
<1>1. Cardinality(Taken \ {c}) = Cardinality(Taken) - 1 /\ Cardinality(Taken \ {c}) \in Nat
  BY TakenFinite, FS_RemoveElement, FS_CardinalityType
<1> QED BY <1>1, TakenFinite DEF PermitsExact

\* A permit that changes hands leaves the number of owners alone.
LEMMA HandedOver ==
    ASSUME NEW c \in Callers, NEW d \in Callers, PermitsExact, c \in Taken, d \notin Taken,
           current' = current, Taken' = (Taken \ {c}) \cup {d}
    PROVE  PermitsExact'
<1>1. IsFiniteSet(Taken \ {c}) /\ Cardinality(Taken \ {c}) = Cardinality(Taken) - 1
  BY TakenFinite, FS_RemoveElement
<1>2. Cardinality((Taken \ {c}) \cup {d}) = Cardinality(Taken \ {c}) + 1
  BY <1>1, FS_AddElement
<1>3. (Cardinality(Taken) - 1) + 1 = Cardinality(Taken)
  BY TakenFinite
<1> QED BY <1>1, <1>2, <1>3, Zenon DEF PermitsExact

LEMMA SemaphoreStarts == SemaphoreInit => SemaphoreExact
<1> SUFFICES ASSUME SemaphoreInit PROVE SemaphoreExact
  OBVIOUS
<1> USE DEF SemaphoreInit
<1>1. SemaphoreTypeOK
  BY SemaphoreAssumption, EmptySeq DEF SemaphoreTypeOK, Progress
<1>2. QueueExact
  BY EmptySeq, LenProperties DEF QueueExact, Waiting
<1>3. PermitsExact
  <2>1. Taken = {}
    BY DEF Taken
  <2> QED BY <2>1, FS_EmptySet DEF PermitsExact
<1>4. NoIdlePermit
  BY DEF NoIdlePermit
<1> QED BY <1>1, <1>2, <1>3, <1>4 DEF SemaphoreExact

\* acquire() whose signal is aborted, and the continuation of any acquire().
LEMMA ResumePreserves ==
    ASSUME SemaphoreExact, NEW c \in Callers, AcquireRefused(c) \/ Resume(c)
    PROVE  SemaphoreExact'
<1> USE DEF SemaphoreExact, AcquireRefused, Resume
<1>1. SemaphoreTypeOK'
  BY DEF SemaphoreTypeOK, Progress
<1>2. Waiting' = Waiting /\ Taken' = Taken
  BY DEF SemaphoreTypeOK, Waiting, Taken
<1>3. QueueExact'
  BY <1>2 DEF QueueExact
<1>4. PermitsExact' /\ NoIdlePermit'
  BY <1>2 DEF PermitsExact, NoIdlePermit
<1> QED BY <1>1, <1>3, <1>4

\* acquire() and tryAcquire() that find a permit.
LEMMA GrantPreserves ==
    ASSUME SemaphoreExact, NEW c \in Callers, AcquireNow(c) \/ TryAcquire(c)
    PROVE  SemaphoreExact'
<1> USE DEF SemaphoreExact, AcquireNow, TryAcquire, Free
<1>1. SemaphoreTypeOK'
  BY SemaphoreAssumption DEF SemaphoreTypeOK, Progress
<1>2. Waiting' = Waiting /\ c \notin Taken /\ Taken' = Taken \cup {c}
  BY DEF SemaphoreTypeOK, Waiting, Taken
<1>3. QueueExact'
  BY <1>2 DEF QueueExact
<1>4. PermitsExact'
  BY <1>2, OneMore DEF SemaphoreTypeOK
<1>5. NoIdlePermit'
  BY SemaphoreAssumption DEF NoIdlePermit, SemaphoreTypeOK
<1> QED BY <1>1, <1>3, <1>4, <1>5

\* acquire() that finds none.
LEMMA WaitPreserves ==
    ASSUME SemaphoreExact, NEW c \in Callers, AcquireLater(c)
    PROVE  SemaphoreExact'
<1> USE DEF SemaphoreExact, AcquireLater
<1>1. c \notin Waiting /\ Waiting' = Waiting \cup {c} /\ Taken' = Taken
  BY DEF SemaphoreTypeOK, Waiting, Taken
<1>2. waiters \in Seq(Callers) /\ c \notin Elements(waiters) /\ NoTwice(waiters)
  BY <1>1, QueueExactMeans DEF SemaphoreTypeOK
<1>3. /\ waiters' \in Seq(Callers) /\ waiters' # <<>>
      /\ Elements(waiters') = Elements(waiters) \cup {c} /\ NoTwice(waiters')
  BY <1>2, Appended
<1>4. SemaphoreTypeOK'
  BY <1>3 DEF SemaphoreTypeOK, Progress
<1>5. QueueExact'
  <2>1. Waiting' = Elements(waiters')
    BY <1>1, <1>3, QueueExactMeans
  <2> QED BY <1>3, <2>1 DEF QueueExact, Elements, NoTwice
<1>6. PermitsExact'
  BY <1>1 DEF PermitsExact
<1>7. NoIdlePermit'
  BY SemaphoreAssumption DEF NoIdlePermit, SemaphoreTypeOK, Free
<1> QED BY <1>4, <1>5, <1>6, <1>7

\* The abort listener, which finds its caller in the queue or finds it served.
LEMMA AbortPreserves ==
    ASSUME SemaphoreExact, NEW c \in Callers, Abort(c)
    PROVE  SemaphoreExact'
<1> USE DEF SemaphoreExact
<1>0. waiters \in Seq(Callers) /\ NoTwice(waiters) /\ Waiting = Elements(waiters)
  BY QueueExactMeans DEF SemaphoreTypeOK
<1>1. CASE \E i \in DOMAIN waiters :
             /\ waiters[i] = c
             /\ waiters' = Without(i)
             /\ caller' = [caller EXCEPT ![c] = "refused"]
  <2>1. PICK i \in DOMAIN waiters :
             /\ waiters[i] = c
             /\ waiters' = Without(i)
             /\ caller' = [caller EXCEPT ![c] = "refused"]
    BY <1>1
  <2>2. waiters' \in Seq(Callers) /\ Elements(waiters') = Elements(waiters) \ {c} /\ NoTwice(waiters')
    BY <1>0, <2>1, TakenOut DEF Without
  <2>3. SemaphoreTypeOK' /\ current' = current
    BY <2>1, <2>2 DEF SemaphoreTypeOK, Progress, Abort
  <2>4. c \in Waiting
    BY <1>0, <2>1 DEF Elements
  <2>5. Waiting' = Waiting \ {c} /\ Taken' = Taken
    BY <2>1, <2>4 DEF SemaphoreTypeOK, Waiting, Taken
  <2>6. Waiting' = Elements(waiters')
    BY <1>0, <2>2, <2>5
  <2>7. QueueExact'
    BY <2>2, <2>6 DEF QueueExact, Elements, NoTwice
  <2>8. PermitsExact'
    BY <2>3, <2>5 DEF PermitsExact
  <2>9. waiters # <<>>
    BY <2>1, LenProperties, EmptySeq
  <2> QED BY <2>3, <2>7, <2>8, <2>9 DEF NoIdlePermit
<1>2. CASE UNCHANGED <<waiters, caller>>
  <2>1. SemaphoreTypeOK' /\ current' = current
    BY <1>2 DEF SemaphoreTypeOK, Progress, Abort
  <2>2. Waiting' = Waiting /\ Taken' = Taken
    BY <1>2 DEF Waiting, Taken
  <2> QED BY <1>2, <2>1, <2>2 DEF QueueExact, PermitsExact, NoIdlePermit
<1> QED BY <1>1, <1>2 DEF Abort

\* release(), to the oldest waiter or back to the counter.
LEMMA ReleasePreserves ==
    ASSUME SemaphoreExact, NEW c \in Callers, Release(c)
    PROVE  SemaphoreExact'
<1> USE DEF SemaphoreExact
<1>0. waiters \in Seq(Callers) /\ NoTwice(waiters) /\ Waiting = Elements(waiters)
  BY QueueExactMeans DEF SemaphoreTypeOK
<1>1. c \in Taken /\ c \notin Waiting /\ UNCHANGED aborted
  BY DEF Release, Taken, Waiting
<1>2. CASE HandOver(c)
  <2> DEFINE d == Head(waiters)
  <2>1. /\ d \in Elements(waiters) /\ Tail(waiters) \in Seq(Callers)
        /\ Elements(Tail(waiters)) = Elements(waiters) \ {d} /\ NoTwice(Tail(waiters))
    BY <1>0, <1>2, HeadServed DEF HandOver
  <2>2. d \in Waiting /\ d \in Callers /\ d \notin Taken /\ d # c
    BY <1>0, <1>1, <2>1 DEF Waiting, Taken
  <2>3. /\ waiters' = Tail(waiters) /\ current' = current
        /\ caller' = [caller EXCEPT ![c] = "idle", ![d] = "granted"]
    BY <1>2 DEF HandOver
  <2> HIDE DEF d
  <2>4. Waiting' = Waiting \ {d} /\ Taken' = (Taken \ {c}) \cup {d}
    BY <1>1, <2>2, <2>3 DEF SemaphoreTypeOK, Waiting, Taken
  <2>5. SemaphoreTypeOK'
    BY <1>1, <2>1, <2>2, <2>3 DEF SemaphoreTypeOK, Progress
  <2>6. Waiting' = Elements(waiters')
    BY <1>0, <2>1, <2>3, <2>4
  <2>7. QueueExact'
    BY <2>1, <2>3, <2>6 DEF QueueExact, Elements, NoTwice
  <2>8. PermitsExact'
    BY <1>1, <2>2, <2>3, <2>4, HandedOver
  <2>9. NoIdlePermit'
    BY <1>2, <2>3 DEF NoIdlePermit, HandOver
  <2> QED BY <2>5, <2>7, <2>8, <2>9
<1>3. CASE PutBack(c)
  <2>1. Waiting' = Waiting /\ Taken' = Taken \ {c}
    BY <1>1, <1>3 DEF SemaphoreTypeOK, Waiting, Taken, PutBack
  <2>2. PermitsExact' /\ current # 0
    BY <1>1, <1>3, <2>1, OneLess DEF PutBack, SemaphoreTypeOK
  <2>3. SemaphoreTypeOK'
    BY <1>1, <1>3, <2>2, SemaphoreAssumption DEF PutBack, SemaphoreTypeOK, Progress
  <2>4. QueueExact' /\ NoIdlePermit'
    BY <1>3, <2>1 DEF PutBack, QueueExact, NoIdlePermit
  <2> QED BY <2>2, <2>3, <2>4
<1> QED BY <1>2, <1>3 DEF Release

LEMMA SemaphoreSteps == SemaphoreExact /\ [SemaphoreNext]_semaphore => SemaphoreExact'
<1> SUFFICES ASSUME SemaphoreExact, [SemaphoreNext]_semaphore PROVE SemaphoreExact'
  OBVIOUS
<1>1. CASE UNCHANGED semaphore
  BY <1>1 DEF semaphore, SemaphoreExact, SemaphoreTypeOK, QueueExact, PermitsExact,
              NoIdlePermit, Waiting, Taken
<1>2. CASE SemaphoreNext
  <2>1. PICK c \in Callers : Acquire(c) \/ TryAcquire(c) \/ Abort(c) \/ Resume(c) \/ Release(c)
    BY <1>2 DEF SemaphoreNext
  <2> QED BY <2>1, ResumePreserves, GrantPreserves, WaitPreserves, AbortPreserves,
             ReleasePreserves DEF Acquire
<1> QED BY <1>1, <1>2

\* Whatever callers acquire, abort and release in whatever order (semaphore.ts),
\* the queue holds each pending caller once, no permit is lost or invented, and
\* nobody waits beside a free one: for any finite set of callers and any maximum.
THEOREM SemaphoreExactHolds == SemaphoreSpec => []SemaphoreExact
<1>1. SemaphoreInit => SemaphoreExact
  BY SemaphoreStarts
<1>2. SemaphoreExact /\ [SemaphoreNext]_semaphore => SemaphoreExact'
  BY SemaphoreSteps
<1> QED BY <1>1, <1>2, PTL DEF SemaphoreSpec

-------------------------------------------------------------------------------
(* The renewal of a lease.  For every lease, period and delay: how many        *)
(* rejected renewals in a row a lease survives, and that a worker hears of a   *)
(* lost lease only if it was lost.  The invariant bounds, in each phase of the *)
(* renewer, the time that may have passed since the deadline was last moved.   *)

InProgress == run \in {"running", "acking"}

\* A timer that is due, at the latest, and what the rejected renewals took.
Due     == LockRenewMs + Lag
Delayed == Latency + missed * Gap

\* The longest time since the deadline was moved.
Elapsed ==
    IF at \in {"claimed", "extended"} THEN age
    ELSE IF at = "armed" THEN Delayed + age
    ELSE IF at = "sent" THEN Delayed + Due + age
    ELSE Delayed + Due + wait

\* Which phases of the renewer and of the run go together.
Phases ==
    /\ run = "unclaimed" => at = "off" /\ age = 0 /\ ~ swept
    /\ run \in {"unclaimed", "running"} => wait = 0
    /\ at \in {"claimed", "armed"} => run = "running"
    /\ at = "sent" => run # "acked"
    /\ at = "refused" => swept
    /\ alarm => swept
    /\ at = "off" /\ run = "running" /\ ~ swept => LockRenewMs = 0

InTime == LockRenewMs > 0 /\ InProgress /\ ~ swept => LeaseMs <= left + Elapsed

\* A lease is swept only after more rejections than it survives.
SweptLate == LockRenewMs > 0 /\ InProgress /\ swept => LeaseMs <= Stretch(missed)

RenewalInv == RenewalTypeOK /\ Phases /\ InTime /\ SweptLate

-------------------------------------------------------------------------------

\* The arithmetic of one more rejection.
LEMMA OneMoreGap ==
    ASSUME NEW m \in Nat
    PROVE  /\ Gap \in Nat /\ Gap = Due + Latency /\ Due \in Nat
           /\ m * Gap \in Nat
           /\ (m + 1) * Gap = m * Gap + Gap
           /\ Stretch(m) = Latency + m * Gap + Gap
           /\ Stretch(m) \in Nat /\ Stretch(m + 1) \in Nat /\ Stretch(m) <= Stretch(m + 1)
<1>1. Gap \in Nat /\ Gap = Due + Latency /\ Due \in Nat
  BY RenewalAssumption DEF Gap, Due
<1>2. \A k \in Nat, g \in Nat : k * g \in Nat /\ (k + 1) * g = k * g + g
  OBVIOUS
<1>3. m * Gap \in Nat /\ (m + 1) * Gap = m * Gap + Gap
  BY <1>1, <1>2
<1>4. m + 1 \in Nat /\ ((m + 1) + 1) * Gap = (m + 1) * Gap + Gap
  BY <1>1, <1>2
<1> HIDE DEF Gap
<1>5. Stretch(m) = Latency + (m * Gap + Gap)
  BY <1>3, Zenon DEF Stretch
<1>6. Stretch(m + 1) = Latency + ((m * Gap + Gap) + Gap)
  BY <1>3, <1>4, Zenon DEF Stretch
<1>7. Latency \in Nat
  BY RenewalAssumption
<1> DEFINE p == m * Gap
<1>8. /\ p \in Nat /\ Stretch(m) = Latency + (p + Gap)
      /\ Stretch(m + 1) = Latency + ((p + Gap) + Gap)
  BY <1>3, <1>5, <1>6, Zenon
<1>9. p \in Nat /\ (m + 1) * Gap = p + Gap
  BY <1>3, Zenon
<1> HIDE DEF p
<1>10. /\ Stretch(m) = Latency + p + Gap
       /\ Stretch(m) \in Nat /\ Stretch(m + 1) \in Nat /\ Stretch(m) <= Stretch(m + 1)
  BY <1>1, <1>7, <1>8
<1> QED BY <1>1, <1>9, <1>10, Zenon DEF p

\* In every phase a lease that may still be swept has come no further than Stretch.
LEMMA ElapsedBound ==
    ASSUME RenewalInv, LockRenewMs > 0, InProgress, ~ swept
    PROVE  Elapsed \in Nat /\ Elapsed <= Stretch(missed)
<1>1. missed \in Nat /\ age \in Nat /\ wait \in 0..Latency
  BY RenewalAssumption DEF RenewalInv, RenewalTypeOK
<1> DEFINE p == missed * Gap
<1>2. /\ Gap = Due + Latency /\ Due \in Nat /\ p \in Nat
      /\ Stretch(missed) = Latency + p + Gap
  BY <1>1, OneMoreGap
<1>3. Delayed = Latency + p
  BY DEF Delayed
<1> HIDE DEF p
<1>4. at \in OnTheWire => age <= Latency
  BY DEF RenewalInv, RenewalTypeOK
<1>5. at = "armed" => age <= Due
  BY DEF RenewalInv, RenewalTypeOK, Due
<1>6. Latency \in Nat
  BY RenewalAssumption
<1> QED BY <1>1, <1>2, <1>3, <1>4, <1>5, <1>6 DEF Elapsed, OnTheWire

\* What holds between commands: the lease of a run in progress has not ended.
LEMMA InvSurvives == RenewalInv => SurvivesMisses
<1> SUFFICES ASSUME RenewalInv, LockRenewMs > 0, Stretch(missed) < LeaseMs, InProgress
             PROVE  left > 0
  BY DEF SurvivesMisses, RenewalInv, InProgress
<1>1. left \in Nat /\ missed \in Nat /\ LeaseMs \in Nat
  BY RenewalAssumption DEF RenewalInv, RenewalTypeOK
<1>2. Stretch(missed) \in Nat
  BY <1>1, OneMoreGap, RenewalAssumption
<1>3. ~ swept
  BY <1>1, <1>2 DEF RenewalInv, SweptLate
<1>4. Elapsed \in Nat /\ Elapsed <= Stretch(missed) /\ LeaseMs <= left + Elapsed
  BY <1>3, ElapsedBound DEF RenewalInv, InTime
<1> QED BY <1>1, <1>2, <1>4

-------------------------------------------------------------------------------

LEMMA RenewalStarts == RenewalInit => RenewalInv
<1> SUFFICES ASSUME RenewalInit PROVE RenewalInv
  OBVIOUS
<1>1. RenewalTypeOK
  <2>1. 0 \in 0..LeaseMs /\ 0 \in 0..Latency /\ 0 \in 0..MaxMisses
    BY RenewalAssumption
  <2> QED BY <2>1 DEF RenewalInit, RenewalTypeOK, OnTheWire
<1>2. Phases
  BY DEF RenewalInit, Phases
<1>3. ~ InProgress
  BY DEF RenewalInit, InProgress
<1> QED BY <1>1, <1>2, <1>3 DEF RenewalInv, InTime, SweptLate

\* The renewer and the run stay in step, and every delay within its bound.
LEMMA PhasesPreserved ==
    ASSUME RenewalInv, RenewalNext
    PROVE  RenewalTypeOK' /\ Phases'
<1> USE RenewalAssumption DEF RenewalInv, RenewalTypeOK, Phases, OnTheWire
<1>1. CASE LeaseGranted
  BY <1>1 DEF LeaseGranted
<1>2. CASE ClaimAnswered
  BY <1>2 DEF ClaimAnswered, Arm
<1>3. CASE TimerFires
  BY <1>3 DEF TimerFires
<1>4. CASE ExtendLock
  BY <1>4 DEF ExtendLock
<1>5. CASE Renewed
  BY <1>5 DEF Renewed, NextRenewal, Arm
<1>6. CASE LeaseLost
  BY <1>6 DEF LeaseLost
<1>7. CASE RenewalRejected
  BY <1>7 DEF RenewalRejected, NextRenewal, Arm
<1>8. CASE RunEnds
  BY <1>8 DEF RunEnds
<1>9. CASE AckScript
  BY <1>9 DEF AckScript
<1>10. CASE AckRejected
  BY <1>10 DEF AckRejected
<1>11. CASE Sweep
  BY <1>11 DEF Sweep
<1>12. CASE Tick
  BY <1>12 DEF Tick
<1> QED BY <1>1, <1>2, <1>3, <1>4, <1>5, <1>6, <1>7, <1>8, <1>9, <1>10, <1>11, <1>12
        DEF RenewalNext

\* Time that passes is counted by the phase as the deadline comes closer.
LEMMA TickInTime ==
    ASSUME RenewalInv, Tick
    PROVE  InTime'
<1> SUFFICES ASSUME LockRenewMs > 0, InProgress, ~ swept PROVE LeaseMs <= left' + Elapsed'
  BY DEF InTime, InProgress, Tick
<1>1. /\ age \in Nat /\ wait \in Nat /\ left \in Nat /\ LeaseMs \in Nat
      /\ at \in OnTheWire \cup {"armed", "off"}
  BY RenewalAssumption DEF RenewalInv, RenewalTypeOK
<1>2. at # "refused" /\ (at = "off" => run = "acking")
  BY DEF RenewalInv, Phases, InProgress
<1>3. at' = at /\ Delayed' = Delayed /\ Due' = Due
  BY DEF Tick, Delayed, Due, Gap
<1>4. /\ at # "off" => age' = age + 1
      /\ run = "acking" => wait' = wait + 1
  BY DEF Tick
<1>5. Delayed \in Nat /\ Due \in Nat
  <2>1. missed * Gap \in Nat
    BY OneMoreGap DEF RenewalInv, RenewalTypeOK
  <2> HIDE DEF Gap
  <2> QED BY <2>1, RenewalAssumption DEF Delayed, Due
<1>6. Elapsed \in Nat /\ Elapsed' = Elapsed + 1
  <2>1. CASE at \in {"claimed", "extended"}
    BY <1>1, <1>3, <1>4, <2>1 DEF Elapsed
  <2>2. CASE at = "armed"
    BY <1>1, <1>3, <1>4, <1>5, <2>2 DEF Elapsed
  <2>3. CASE at = "sent"
    BY <1>1, <1>3, <1>4, <1>5, <2>3 DEF Elapsed
  <2>4. CASE at = "off"
    BY <1>1, <1>2, <1>3, <1>4, <1>5, <2>4 DEF Elapsed
  <2> QED BY <1>1, <1>2, <2>1, <2>2, <2>3, <2>4 DEF OnTheWire
<1>7. LeaseMs <= left + Elapsed
  BY DEF RenewalInv, InTime
<1>8. left' \in Nat /\ left' >= left - 1
  BY <1>1 DEF Tick
<1>9. \A l, m, e \in Nat : LeaseMs <= l + e /\ m >= l - 1 => LeaseMs <= m + (e + 1)
  BY <1>1
<1>10. LeaseMs <= left' + (Elapsed + 1)
  BY <1>1, <1>6, <1>7, <1>8, <1>9
<1> QED BY <1>6, <1>10, Zenon

\* The deadline is never further back than the phase allows.
LEMMA InTimePreserved ==
    ASSUME RenewalInv, RenewalNext
    PROVE  InTime'
<1> SUFFICES ASSUME LockRenewMs > 0, InProgress', ~ swept' PROVE LeaseMs <= left' + Elapsed'
  BY DEF InTime
<1> DEFINE p == missed * Gap
<1>1. /\ missed \in Nat /\ age \in Nat /\ wait \in 0..Latency /\ left \in 0..LeaseMs
      /\ LeaseMs \in Nat /\ Latency \in Nat
      /\ at \in OnTheWire => age <= Latency
      /\ at = "armed" => age <= Due
  BY RenewalAssumption DEF RenewalInv, RenewalTypeOK, Due
<1>2. /\ Gap = Due + Latency /\ Due \in Nat /\ p \in Nat /\ (missed + 1) * Gap = p + Gap
  BY <1>1, OneMoreGap
<1>3. Delayed = Latency + p
  BY DEF Delayed
<1>4. Delayed' = Latency + missed' * Gap
  BY DEF Delayed, Gap
<1>5. missed' = missed => Delayed' = Latency + p
  BY <1>4
<1>6. missed' = missed + 1 => Delayed' = Latency + p + Gap
  BY <1>1, <1>2, <1>4
<1>7. Due' = Due
  BY DEF Due
<1>8. ~ swept /\ (InProgress => LeaseMs <= left + Elapsed) /\ Phases
  <2>1. ~ swept
    BY DEF RenewalNext, LeaseGranted, ClaimAnswered, TimerFires, ExtendLock, Renewed,
           LeaseLost, RenewalRejected, RunEnds, AckScript, AckRejected, Sweep, Tick
  <2> QED BY <2>1 DEF RenewalInv, InTime
<1> HIDE DEF p
<1> USE <1>1, <1>2, <1>3, <1>5, <1>6, <1>7, <1>8 DEF InProgress, Elapsed, Phases, OnTheWire
<1>11. CASE LeaseGranted
  BY <1>11 DEF LeaseGranted
<1>12. CASE ClaimAnswered
  BY <1>12 DEF ClaimAnswered, Arm
<1>13. CASE TimerFires
  BY <1>13 DEF TimerFires
<1>14. CASE ExtendLock
  BY <1>14 DEF ExtendLock
<1>15. CASE Renewed
  BY <1>15 DEF Renewed, NextRenewal, Arm
<1>16. CASE LeaseLost
  BY <1>16 DEF LeaseLost
<1>17. CASE RenewalRejected
  BY <1>17 DEF RenewalRejected, NextRenewal, Arm
<1>18. CASE RunEnds
  BY <1>18 DEF RunEnds
<1>19. CASE AckScript \/ AckRejected
  BY <1>19 DEF AckScript, AckRejected
<1>20. CASE Sweep
  BY <1>20 DEF Sweep
<1>21. CASE Tick
  BY <1>21, TickInTime DEF InTime
<1> QED BY <1>11, <1>12, <1>13, <1>14, <1>15, <1>16, <1>17, <1>18, <1>19, <1>20, <1>21
        DEF RenewalNext

\* A sweep comes late, and later rejections only add to the time it was due.
LEMMA SweptLatePreserved ==
    ASSUME RenewalInv, RenewalNext
    PROVE  SweptLate'
<1> SUFFICES ASSUME LockRenewMs > 0, InProgress', swept' PROVE LeaseMs <= Stretch(missed')
  BY DEF SweptLate, Stretch, Gap
<1>1. missed \in Nat /\ LeaseMs \in Nat /\ Latency \in Nat
  BY RenewalAssumption DEF RenewalInv, RenewalTypeOK
<1>2. Stretch(missed) \in Nat /\ Stretch(missed + 1) \in Nat /\ Stretch(missed) <= Stretch(missed + 1)
  BY <1>1, OneMoreGap
<1>3. CASE ~ swept
  <2>1. Sweep
    BY <1>3 DEF RenewalNext, LeaseGranted, ClaimAnswered, TimerFires, ExtendLock, Renewed,
           LeaseLost, RenewalRejected, RunEnds, AckScript, AckRejected, Sweep, Tick
  <2>2. left = 0 /\ missed' = missed /\ InProgress
    BY <2>1 DEF Sweep, InProgress
  <2>3. Elapsed \in Nat /\ Elapsed <= Stretch(missed) /\ LeaseMs <= left + Elapsed
    BY <1>3, <2>2, ElapsedBound DEF RenewalInv, InTime
  <2> QED BY <1>1, <1>2, <2>2, <2>3
<1>4. CASE swept
  <2>1. missed' = missed \/ missed' = missed + 1
    BY <1>4 DEF RenewalNext, LeaseGranted, ClaimAnswered, TimerFires, ExtendLock, Renewed,
           LeaseLost, RenewalRejected, RunEnds, AckScript, AckRejected, Sweep, Tick
  <2>2. InProgress
    <3>1. run # "unclaimed"
      BY <1>4 DEF RenewalInv, Phases
    <3> QED BY <3>1 DEF RenewalNext, LeaseGranted, ClaimAnswered, TimerFires, ExtendLock, Renewed,
           LeaseLost, RenewalRejected, RunEnds, AckScript, AckRejected, Sweep, Tick, InProgress
  <2>3. LeaseMs <= Stretch(missed)
    BY <1>4, <2>2 DEF RenewalInv, SweptLate
  <2> QED BY <1>1, <1>2, <2>1, <2>3
<1> QED BY <1>3, <1>4

LEMMA RenewalSteps == RenewalInv /\ [RenewalNext]_renewal => RenewalInv'
<1> SUFFICES ASSUME RenewalInv, [RenewalNext]_renewal PROVE RenewalInv'
  OBVIOUS
<1>1. CASE RenewalNext
  BY <1>1, PhasesPreserved, InTimePreserved, SweptLatePreserved DEF RenewalInv
<1>2. CASE UNCHANGED renewal
  BY <1>2 DEF renewal, RenewalInv, RenewalTypeOK, Phases, InTime, SweptLate, InProgress,
              Elapsed, Delayed, Due, Stretch, Gap
<1> QED BY <1>1, <1>2

LEMMA RenewalInvariant == RenewalSpec => []RenewalInv
<1>1. RenewalInit => RenewalInv
  BY RenewalStarts
<1>2. RenewalInv /\ [RenewalNext]_renewal => RenewalInv'
  BY RenewalSteps
<1> QED BY <1>1, <1>2, PTL DEF RenewalSpec

\* lease-renewer.ts:51-73 keeps a lease alive through n rejected renewals in a row
\* whenever the lease is longer than Latency + (n + 1) * (LockRenewMs + Lag + Latency):
\* for every lease, period and delay, n among them.
THEOREM SurvivesMissesHolds == RenewalSpec => []SurvivesMisses
<1>1. RenewalInv => SurvivesMisses
  BY InvSurvives
<1> QED BY <1>1, RenewalInvariant, PTL

\* A renewal that is answered "lost" follows a sweep, for every lease and delay.
THEOREM NoFalseAlarmHolds == RenewalSpec => []NoFalseAlarm
<1>1. RenewalInv => NoFalseAlarm
  BY DEF RenewalInv, Phases, NoFalseAlarm
<1> QED BY <1>1, RenewalInvariant, PTL

-------------------------------------------------------------------------------
(* The pool.  A start that is awaited at one command at a time counts what it  *)
(* has done, so the loops begin after all of it; a shutdown follows the start  *)
(* and the loops, so what is stopped runs nothing.                             *)

\* What is awaited during the start: one declaration or one subscription at a
\* time, and what is done, awaited and still to do make up the whole.
StartCounts ==
    /\ \A p, q \in Queues : \A what \in {"declare", "subscribe"} :
         command[<<what, p>>] # "none" /\ command[<<what, q>>] # "none" => p = q
    /\ \A q \in Queues : command[<<"declare", q>>] # "none" =>
         /\ starting = "declare" /\ q \in Limited
         /\ declared \cup {q} \cup todo = Limited
    /\ \A q \in Queues : command[<<"subscribe", q>>] # "none" =>
         /\ starting = "subscribe"
         /\ subscribed \cup {q} \cup todo = Queues
    /\ starting = "subscribe" => declared = Limited

\* Where start() and shutdown() are and what the pool is in.
Crossing ==
    /\ starting # "off" <=> state = "starting"
    /\ state = "stopping" <=> stopping \in {"claims", "drain", "requeue", "close"}
    /\ stopping = "done" => state = "stopped"
    /\ stopping = "start" => state \in {"starting", "running", "stopped"}

\* The loops each state allows; they were started by a whole start.
LoopsFollow ==
    /\ \A q \in Queues : loop[q] # "off" =>
         /\ state \in {"running", "stopping", "stopped"}
         /\ declared = Limited /\ subscribed = Queues
    /\ state = "running" => declared = Limited /\ subscribed = Queues
    /\ state = "stopping" => \A q \in Queues : loop[q] \in {"claiming", "exited"}
    /\ stopping \in {"drain", "requeue", "close"} => LoopsExited
    /\ state = "idle" => \A s \in Connections : socket[s] = "none"

\* A drain awaits every run there is, and nothing is counted before it.
DrainCounts ==
    /\ stopping \in {"off", "start", "claims", "drain"} => result.unfinished = 0
    /\ stopping = "drain" => InFlight \subseteq awaited

AlarmCounts ==
    /\ alarms = IF degraded THEN 1 ELSE 0
    /\ socket["subscriber"] = "redialing" => degraded
    /\ socket["subscriber"] = "up" => ~ degraded

PoolInv ==
    /\ PoolTypeOK
    /\ StartCounts
    /\ Crossing
    /\ LoopsFollow
    /\ NothingLeftRunning
    /\ DrainCounts /\ DrainComplete
    /\ AlarmCounts

-------------------------------------------------------------------------------
CommandStates == {"none", "queued", "written", "rejected"}

LEMMA IssuedState ==
    ASSUME NEW c
    PROVE  Issued(c) \in {"queued", "written", "rejected"}
BY DEF Issued

\* An exchange changes only what is read, and leaves nothing of it pending.
LEMMA ExchangeDoes ==
    ASSUME NEW read, NEW sent, Exchange(read, sent),
           command \in [Commands -> CommandStates]
    PROVE  /\ command' \in [Commands -> CommandStates]
           /\ \A c \in Commands : c \notin sent /\ command'[c] # "none" =>
                c \notin read /\ command[c] # "none"
<1>1. \A c \in Commands : Issued(c) \in CommandStates
  BY IssuedState DEF CommandStates
<1>2. \A c \in Commands : command'[c] = IF c \in sent THEN Issued(c)
                                        ELSE IF c \in read THEN "none" ELSE command[c]
  BY DEF Exchange
<1>3. command' \in [Commands -> CommandStates]
  BY <1>1 DEF Exchange, CommandStates
<1> QED BY <1>2, <1>3

\* The socket events and the closing bring no command into being.
LEMMA ClosingDoes ==
    ASSUME CloseConnections, command \in [Commands -> CommandStates],
           socket \in [Connections -> {"none", "dialing", "up", "redialing", "gone"}]
    PROVE  /\ command' \in [Commands -> CommandStates]
           /\ \A what \in {"declare", "subscribe"}, q \in Queues :
                command'[<<what, q>>] = "none"
           /\ socket' \in [Connections -> {"none", "gone"}]
           /\ state' = "stopped"
           /\ UNCHANGED <<reachable, retries, degraded, alarms>>
<1>1. \A what \in {"declare", "subscribe"}, q \in Queues : <<what, q>> \in Commands
  BY DEF Commands
<1> QED BY <1>1 DEF CloseConnections, CommandStates

-------------------------------------------------------------------------------
LEMMA Unfinished ==
    Cardinality(InFlight) \in 0..Cardinality(Queues)
<1>1. IsFiniteSet(Queues) /\ InFlight \subseteq Queues
  BY PoolAssumption DEF InFlight
<1>2. IsFiniteSet(InFlight) /\ Cardinality(InFlight) <= Cardinality(Queues)
  BY <1>1, FS_Subset
<1>3. Cardinality(InFlight) \in Nat /\ Cardinality(Queues) \in Nat
  BY <1>1, <1>2, FS_CardinalityType
<1> QED BY <1>2, <1>3

LEMMA PoolStarts == PoolInit => PoolInv
<1> SUFFICES ASSUME PoolInit PROVE PoolInv
  OBVIOUS
<1> USE DEF PoolInit
<1>1. Cardinality(Queues) \in Nat
  BY PoolAssumption, FS_CardinalityType
<1>2. PoolTypeOK
  <2>1. 0 \in 0..Attempts /\ 0 \in 0..Cardinality(Queues) /\ 0 \in 0..1
    BY <1>1, PoolAssumption
  <2>2. result \in [timedOut : BOOLEAN, unfinished : 0..Cardinality(Queues)]
    BY <2>1
  <2>3. retries \in [Connections -> 0..Attempts]
    BY <2>1
  <2> QED BY <2>1, <2>2, <2>3 DEF PoolTypeOK
<1>3. StartCounts
  <2>1. \A what \in {"declare", "subscribe"}, q \in Queues : <<what, q>> \in Commands
    BY DEF Commands
  <2> QED BY <2>1 DEF StartCounts
<1>4. Crossing /\ LoopsFollow /\ NothingLeftRunning
  BY DEF Crossing, LoopsFollow, NothingLeftRunning
<1>5. DrainCounts /\ DrainComplete /\ AlarmCounts
  BY DEF DrainCounts, DrainComplete, AlarmCounts, Connections
<1> QED BY <1>2, <1>3, <1>4, <1>5 DEF PoolInv

-------------------------------------------------------------------------------
LEMMA TypePreserved ==
    ASSUME PoolInv, PoolNext
    PROVE  PoolTypeOK'
<1>1. PoolTypeOK
  BY DEF PoolInv
<1>2. command \in [Commands -> CommandStates]
  BY <1>1 DEF PoolTypeOK, CommandStates
<1>3. ASSUME NEW read, NEW sent, Exchange(read, sent)
      PROVE  command' \in [Commands -> CommandStates]
  BY <1>2, <1>3, ExchangeDoes
<1>4. ASSUME CloseConnections
      PROVE  /\ command' \in [Commands -> CommandStates]
             /\ socket' \in [Connections -> {"none", "gone"}]
             /\ state' = "stopped"
             /\ UNCHANGED <<reachable, retries, degraded, alarms>>
  BY <1>1, <1>2, <1>4, ClosingDoes DEF PoolTypeOK
<1>5. ASSUME NEW queues, NEW read, DeclareNext(queues, read), queues \subseteq Queues
      PROVE  /\ command' \in [Commands -> CommandStates]
             /\ starting' \in {"declare", "subscribe"} /\ todo' \subseteq Queues
  BY <1>3, <1>5 DEF DeclareNext, AskNext
<1>6. ASSUME NEW read, StartFails(read) PROVE PoolTypeOK'
  <2>1. CASE subscribed = {}
    <3>1. CloseConnections /\ starting' = "off"
      BY <1>6, <2>1 DEF StartFails
    <3>2. UNCHANGED <<todo, declared, subscribed, shutdown, runners>>
      BY <1>6 DEF StartFails
    <3> QED BY <1>1, <1>4, <3>1, <3>2 DEF PoolTypeOK, CommandStates, shutdown, runners
  <2>2. CASE subscribed # {}
    <3>1. Exchange(read, {Unsubscribe}) /\ starting' = "close"
      BY <1>6, <2>2 DEF StartFails
    <3>2. UNCHANGED <<network, state, todo, declared, subscribed, shutdown, runners>>
      BY <1>6, <2>2 DEF StartFails
    <3> QED BY <1>1, <1>3, <3>1, <3>2
            DEF PoolTypeOK, CommandStates, network, shutdown, runners
  <2> QED BY <2>1, <2>2
<1>7. CASE Starts
  <2>1. CASE Start
    BY <1>1, <2>1 DEF Start, Open, PoolTypeOK, shutdown, runners
  <2>2. CASE CommandConnected
    BY <1>1, <1>6, <2>2 DEF CommandConnected, Open, PoolTypeOK, shutdown, runners
  <2>3. CASE SubscriberConnected
    BY <1>1, <1>5, <1>6, <2>3, PoolAssumption
    DEF SubscriberConnected, PoolTypeOK, CommandStates, network, shutdown, runners
  <2>4. CASE StartClosed
    BY <1>1, <1>4, <2>4 DEF StartClosed, PoolTypeOK, CommandStates, shutdown, runners
  <2>5. ASSUME NEW q \in Queues, LimitDeclared(q) PROVE PoolTypeOK'
    <3>1. CASE StartFails({<<"declare", q>>})
      BY <1>6, <3>1
    <3>2. CASE ~ StartFails({<<"declare", q>>})
      <4>1. /\ starting = "declare" /\ command[<<"declare", q>>] # "none"
            /\ DeclareNext(todo, {<<"declare", q>>})
            /\ declared' = declared \cup {q}
            /\ UNCHANGED <<network, state, subscribed, shutdown, runners>>
        BY <2>5, <3>2 DEF LimitDeclared, Answered
      <4>2. q \in Limited
        BY <4>1 DEF PoolInv, StartCounts
      <4> QED BY <1>1, <1>5, <4>1, <4>2
              DEF PoolTypeOK, CommandStates, network, shutdown, runners
    <3> QED BY <3>1, <3>2
  <2>6. ASSUME NEW q \in Queues, ChannelSubscribed(q) PROVE PoolTypeOK'
    <3>1. CASE Rejected(<<"subscribe", q>>)
      BY <1>6, <2>6, <3>1 DEF ChannelSubscribed
    <3>2. CASE ~ Rejected(<<"subscribe", q>>)
      <4>1. /\ subscribed' = subscribed \cup {q}
            /\ UNCHANGED <<network, declared, shutdown, job>>
            /\ \/ AskNext("subscribe", todo, {<<"subscribe", q>>}) /\ UNCHANGED <<state, loop>>
               \/ RunnersStart /\ Exchange({<<"subscribe", q>>}, {}) /\ UNCHANGED todo
        BY <2>6, <3>2 DEF ChannelSubscribed
      <4>2. command' \in [Commands -> CommandStates]
        BY <1>3, <4>1 DEF AskNext
      <4>3. todo' \subseteq Queues
        BY <1>1, <4>1 DEF AskNext, PoolTypeOK
      <4>4. /\ starting' \in {"subscribe", "off"} /\ state' \in {state, "running"}
            /\ loop' \in [Queues -> {"off", "permit", "claiming", "parked", "exited"}]
        BY <1>1, <4>1 DEF AskNext, RunnersStart, PoolTypeOK
      <4> QED BY <1>1, <4>1, <4>2, <4>3, <4>4
              DEF PoolTypeOK, CommandStates, network, shutdown
    <3> QED BY <3>1, <3>2
  <2> QED BY <1>7, <2>1, <2>2, <2>3, <2>4, <2>5, <2>6 DEF Starts
<1>8. CASE Stops
  <2>1. CASE Shutdown
    BY <1>1, <2>1 DEF Shutdown, PoolTypeOK, network, startup, runners
  <2>2. CASE StopClaiming
    <3>1. loop' \in [Queues -> {"off", "permit", "claiming", "parked", "exited"}]
      BY <1>1, <2>2 DEF StopClaiming, PoolTypeOK
    <3> QED BY <1>1, <2>2, <3>1 DEF StopClaiming, PoolTypeOK, network, startup
  <2>3. ASSUME Requeue
        PROVE  /\ command' \in [Commands -> CommandStates]
               /\ stopping' \in {"close", "requeue"}
               /\ result' \in [timedOut : BOOLEAN, unfinished : 0..Cardinality(Queues)]
    BY <1>1, <1>3, <2>3, Unfinished DEF Requeue, PoolTypeOK
  <2>4. CASE ClaimsStopped
    <3>1. awaited' \subseteq Queues
      BY <1>1, <2>4 DEF ClaimsStopped, PoolTypeOK, InFlight
    <3>2. UNCHANGED <<network, state, startup, mode, runners>>
      BY <2>4 DEF ClaimsStopped
    <3>3. CASE Requeue
      BY <1>1, <2>3, <3>1, <3>2, <3>3
      DEF PoolTypeOK, CommandStates, network, startup, runners
    <3>4. CASE stopping' = "drain" /\ UNCHANGED <<command, result>>
      BY <1>1, <3>1, <3>2, <3>4 DEF PoolTypeOK, network, startup, runners
    <3> QED BY <2>4, <3>3, <3>4 DEF ClaimsStopped
  <2>5. CASE Drained
    BY <1>1, <2>3, <2>5 DEF Drained, PoolTypeOK, CommandStates, network, startup, runners
  <2>6. CASE DrainTimesOut
    <3>1. result' \in [timedOut : BOOLEAN, unfinished : 0..Cardinality(Queues)]
      BY <2>6, Unfinished DEF DrainTimesOut
    <3>2. command' \in [Commands -> CommandStates]
      BY <1>3, <2>6 DEF DrainTimesOut
    <3> QED BY <1>1, <2>6, <3>1, <3>2
            DEF DrainTimesOut, PoolTypeOK, CommandStates, network, startup, runners
  <2>7. CASE Closed
    BY <1>1, <1>4, <2>7 DEF Closed, PoolTypeOK, CommandStates, startup, runners
  <2>8. ASSUME NEW q \in Queues, Requeued(q) PROVE PoolTypeOK'
    <3>1. command' \in [Commands -> CommandStates]
      BY <1>3, <2>8 DEF Requeued
    <3> QED BY <1>1, <2>8, <3>1 DEF Requeued, PoolTypeOK, CommandStates, network, startup, runners
  <2> QED BY <1>8, <2>1, <2>2, <2>4, <2>5, <2>6, <2>7, <2>8 DEF Stops
<1>9. CASE Runs
  <2> SUFFICES ASSUME NEW q \in Queues,
                      Claim(q) \/ ClaimSettled(q) \/ Wake(q) \/ HandlerEnds(q) \/ AckSettled(q)
               PROVE  PoolTypeOK'
    BY <1>9 DEF Runs
  <2>1. command' \in [Commands -> CommandStates]
    BY <1>2, <1>3 DEF Claim, ClaimSettled, Wake, HandlerEnds, AckSettled
  <2>2. loop' \in [Queues -> {"off", "permit", "claiming", "parked", "exited"}]
    BY <1>1 DEF Claim, ClaimSettled, NextRound, Wake, HandlerEnds, AckSettled, PoolTypeOK, runners
  <2>3. job' \in [Queues -> {"none", "handling", "acking"}]
    BY <1>1 DEF Claim, ClaimSettled, Wake, HandlerEnds, AckSettled, PoolTypeOK, runners
  <2>4. UNCHANGED <<network, state, startup, stopping, mode, result>> /\ awaited' \subseteq Queues
    BY <1>1 DEF Claim, ClaimSettled, Wake, HandlerEnds, AckSettled, PoolTypeOK, shutdown
  <2> QED BY <1>1, <2>1, <2>2, <2>3, <2>4 DEF PoolTypeOK, CommandStates, network, startup
<1>10. CASE Sockets
  <2>0. AlarmCounts
    BY DEF PoolInv
  <2>1. ASSUME NEW s \in Connections, SocketOpens(s) PROVE PoolTypeOK'
    <3>1. command' \in [Commands -> CommandStates]
      BY <1>2, <2>1 DEF SocketOpens, CommandStates
    <3>2. degraded' \in BOOLEAN /\ alarms' \in 0..1
      BY <1>1, <2>0, <2>1 DEF SocketOpens, Restore, PoolTypeOK, AlarmCounts
    <3>3. socket' \in [Connections -> {"none", "dialing", "up", "redialing", "gone"}]
      BY <1>1, <2>1 DEF SocketOpens, PoolTypeOK
    <3> QED BY <1>1, <2>1, <3>1, <3>2, <3>3
            DEF SocketOpens, PoolTypeOK, CommandStates, startup, shutdown, runners
  <2>2. ASSUME NEW s \in Connections, AttemptFails(s) PROVE PoolTypeOK'
    <3>1. degraded' \in BOOLEAN /\ alarms' \in 0..1
      <4>1. CASE Degrade(s)
        BY <1>1, <2>0, <4>1 DEF Degrade, PoolTypeOK, AlarmCounts
      <4>2. CASE UNCHANGED <<degraded, alarms>>
        BY <1>1, <4>2 DEF PoolTypeOK
      <4> QED BY <2>2, <4>1, <4>2 DEF AttemptFails
    <3>2. retries' \in [Connections -> 0..Attempts]
      BY <1>1, <2>2, PoolAssumption DEF AttemptFails, PoolTypeOK
    <3>3. socket' \in [Connections -> {"none", "dialing", "up", "redialing", "gone"}]
      BY <1>1, <2>2 DEF AttemptFails, PoolTypeOK
    <3> QED BY <1>1, <2>2, <3>1, <3>2, <3>3
            DEF AttemptFails, PoolTypeOK, startup, shutdown, runners
  <2>3. ASSUME NEW s \in Connections, Drop(s) PROVE PoolTypeOK'
    <3>1. command' \in [Commands -> CommandStates]
      BY <1>2, <2>3 DEF Drop, CommandStates
    <3>2. degraded' \in BOOLEAN /\ alarms' \in 0..1
      BY <1>1, <2>0, <2>3 DEF Drop, Degrade, PoolTypeOK, AlarmCounts
    <3>3. socket' \in [Connections -> {"none", "dialing", "up", "redialing", "gone"}]
      BY <1>1, <2>3 DEF Drop, PoolTypeOK
    <3> QED BY <1>1, <2>3, <3>1, <3>2, <3>3
            DEF Drop, PoolTypeOK, CommandStates, startup, shutdown, runners
  <2>4. CASE NetworkChanges
    BY <1>1, <2>4 DEF NetworkChanges, PoolTypeOK, startup, shutdown, runners
  <2> QED BY <1>10, <2>1, <2>2, <2>3, <2>4 DEF Sockets
<1> QED BY <1>7, <1>8, <1>9, <1>10 DEF PoolNext

LEMMA CrossingPreserved ==
    ASSUME PoolInv, PoolNext
    PROVE  Crossing'
<1>1. Crossing /\ PoolTypeOK
  BY DEF PoolInv
<1> USE <1>1 DEF Crossing
<1>2. CASE Starts
  <2>1. CASE Start
    BY <2>1 DEF Start, shutdown
  <2>2. ASSUME NEW read, StartFails(read), state = "starting" PROVE Crossing'
    BY <2>2 DEF StartFails, CloseConnections, shutdown
  <2>3. CASE CommandConnected
    BY <2>2, <2>3 DEF CommandConnected, shutdown
  <2>4. CASE SubscriberConnected
    BY <2>2, <2>4 DEF SubscriberConnected, DeclareNext, AskNext, shutdown
  <2>5. CASE StartClosed
    BY <2>5 DEF StartClosed, CloseConnections, shutdown
  <2>6. ASSUME NEW q \in Queues, LimitDeclared(q) PROVE Crossing'
    BY <2>2, <2>6 DEF LimitDeclared, DeclareNext, AskNext, shutdown
  <2>7. ASSUME NEW q \in Queues, ChannelSubscribed(q) PROVE Crossing'
    BY <2>2, <2>7 DEF ChannelSubscribed, AskNext, RunnersStart, shutdown
  <2> QED BY <1>2, <2>1, <2>3, <2>4, <2>5, <2>6, <2>7 DEF Starts
<1>3. CASE Stops
  <2>1. CASE Shutdown
    BY <2>1 DEF Shutdown, startup, PoolTypeOK
  <2>2. CASE StopClaiming
    BY <2>2 DEF StopClaiming, StartOver, startup
  <2>3. CASE ClaimsStopped
    BY <2>3 DEF ClaimsStopped, Requeue, startup
  <2>4. CASE Drained \/ DrainTimesOut
    BY <2>4 DEF Drained, DrainTimesOut, Requeue, startup
  <2>5. CASE Closed
    BY <2>5 DEF Closed, CloseConnections, startup
  <2>6. ASSUME NEW q \in Queues, Requeued(q) PROVE Crossing'
    BY <2>6 DEF Requeued, startup
  <2> QED BY <1>3, <2>1, <2>2, <2>3, <2>4, <2>5, <2>6 DEF Stops
<1>4. CASE Runs
  BY <1>4 DEF Runs, Claim, ClaimSettled, Wake, HandlerEnds, AckSettled, startup, shutdown
<1>5. CASE Sockets
  BY <1>5 DEF Sockets, SocketOpens, AttemptFails, Drop, NetworkChanges, startup, shutdown
<1> QED BY <1>2, <1>3, <1>4, <1>5 DEF PoolNext

-------------------------------------------------------------------------------
\* A step that asks for nothing and leaves the start alone disturbs no count.
LEMMA NothingAsked ==
    ASSUME StartCounts, UNCHANGED <<starting, todo, declared, subscribed>>,
           \A what \in {"declare", "subscribe"}, q \in Queues :
               command'[<<what, q>>] # "none" => command[<<what, q>>] # "none"
    PROVE  StartCounts'
BY DEF StartCounts

LEMMA CountsPreserved ==
    ASSUME PoolInv, PoolNext
    PROVE  StartCounts'
<1>1. PoolTypeOK /\ StartCounts /\ Crossing /\ LoopsFollow
  BY DEF PoolInv
<1>2. command \in [Commands -> CommandStates]
  BY <1>1 DEF PoolTypeOK, CommandStates
<1>3. \A what \in {"declare", "subscribe"}, q \in Queues : <<what, q>> \in Commands
  BY DEF Commands
<1>4. ASSUME NEW read, NEW sent, Exchange(read, sent)
      PROVE  \A c \in Commands : c \notin sent /\ command'[c] # "none" =>
               c \notin read /\ command[c] # "none"
  BY <1>2, <1>4, ExchangeDoes
<1>5. ASSUME NEW read, NEW sent, Exchange(read, sent),
             \A c \in sent : c[1] \notin {"declare", "subscribe"},
             UNCHANGED <<starting, todo, declared, subscribed>>
      PROVE  StartCounts'
  <2>1. \A what \in {"declare", "subscribe"}, q \in Queues : <<what, q>> \notin sent
    BY <1>5
  <2> QED BY <1>1, <1>3, <1>4, <1>5, <2>1, NothingAsked
\* Once nothing is awaited of the start, the counts are those of a start over.
<1>6. ASSUME \A what \in {"declare", "subscribe"}, q \in Queues : command'[<<what, q>>] = "none",
             starting' # "subscribe"
      PROVE  StartCounts'
  BY <1>6 DEF StartCounts
<1>7. ASSUME CloseConnections, starting' \in {"off", starting}, UNCHANGED declared
      PROVE  StartCounts'
  <2>1. \A what \in {"declare", "subscribe"}, q \in Queues : command'[<<what, q>>] = "none"
    BY <1>1, <1>2, <1>7, ClosingDoes DEF PoolTypeOK
  <2> QED BY <1>1, <1>7, <2>1 DEF StartCounts
<1>8. ASSUME NEW read, StartFails(read),
             \A what \in {"declare", "subscribe"}, q \in Queues :
                 command[<<what, q>>] # "none" => <<what, q>> \in read
      PROVE  StartCounts'
  <2>1. CASE subscribed = {}
    BY <1>7, <1>8, <2>1 DEF StartFails
  <2>2. CASE subscribed # {}
    <3>1. Exchange(read, {Unsubscribe}) /\ starting' = "close"
      BY <1>8, <2>2 DEF StartFails
    <3>2. \A what \in {"declare", "subscribe"}, q \in Queues : <<what, q>> \notin {Unsubscribe}
      BY DEF Unsubscribe
    <3>3. \A what \in {"declare", "subscribe"}, q \in Queues : command'[<<what, q>>] = "none"
      BY <1>3, <1>4, <1>8, <3>1, <3>2
    <3> QED BY <1>6, <3>1, <3>3
  <2> QED BY <2>1, <2>2
<1>9. ASSUME NEW what \in {"declare", "subscribe"}, NEW queues, NEW read, AskNext(what, queues, read),
             \A w \in {"declare", "subscribe"}, q \in Queues :
                 command[<<w, q>>] # "none" => <<w, q>> \in read,
             what = "declare" => queues \subseteq Limited /\ declared' \cup queues = Limited,
             what = "subscribe" => queues \subseteq Queues /\ declared' = Limited
                                   /\ subscribed' \cup queues = Queues
      PROVE  StartCounts'
  <2>1. PICK q \in queues : /\ Exchange(read, {<<what, q>>})
                            /\ starting' = what /\ todo' = queues \ {q}
    BY <1>9 DEF AskNext
  <2>2. q \in Queues
    BY <1>9, PoolAssumption
  <2>3. \A w \in {"declare", "subscribe"}, p \in Queues :
          command'[<<w, p>>] # "none" => w = what /\ p = q
    BY <1>3, <1>4, <1>9, <2>1
  <2>4. CASE what = "declare"
    <3>1. \A p \in Queues : command'[<<"subscribe", p>>] = "none"
      BY <2>3, <2>4
    <3>2. declared' \cup {q} \cup todo' = Limited
      BY <1>9, <2>1, <2>4
    <3> QED BY <1>9, <2>1, <2>3, <2>4, <3>1, <3>2 DEF StartCounts
  <2>5. CASE what = "subscribe"
    <3>1. \A p \in Queues : command'[<<"declare", p>>] = "none"
      BY <2>3, <2>5
    <3>2. subscribed' \cup {q} \cup todo' = Queues
      BY <1>9, <2>1, <2>5
    <3> QED BY <1>9, <2>1, <2>3, <2>5, <3>1, <3>2 DEF StartCounts
  <2> QED BY <1>9, <2>4, <2>5
<1>10. ASSUME NEW queues, queues \subseteq Limited, NEW read, DeclareNext(queues, read),
              \A what \in {"declare", "subscribe"}, q \in Queues :
                  command[<<what, q>>] # "none" => <<what, q>> \in read,
              declared' \cup queues = Limited, UNCHANGED subscribed
       PROVE  StartCounts'
  <2>1. CASE AskNext("declare", queues, read)
    BY <1>9, <1>10, <2>1
  <2>2. CASE queues = {} /\ AskNext("subscribe", Queues, read)
    <3>1. subscribed' \cup Queues = Queues /\ declared' = Limited
      BY <1>1, <1>10, <2>2 DEF PoolTypeOK
    <3> QED BY <1>9, <1>10, <2>2, <3>1
  <2> QED BY <1>10, <2>1, <2>2 DEF DeclareNext
<1>11. CASE Starts
  <2>1. CASE Start
    <3>1. starting = "off"
      BY <1>1, <2>1 DEF Start, Crossing, PoolTypeOK
    <3>2. \A what \in {"declare", "subscribe"}, q \in Queues : command'[<<what, q>>] = "none"
      BY <1>1, <2>1, <3>1 DEF Start, StartCounts
    <3> QED BY <1>6, <2>1, <3>2 DEF Start
  <2>2. CASE CommandConnected
    <3>1. \A what \in {"declare", "subscribe"}, q \in Queues : command[<<what, q>>] = "none"
      BY <1>1, <2>2 DEF CommandConnected, StartCounts
    <3>2. CASE StartFails({})
      BY <1>8, <3>1, <3>2
    <3>3. CASE ~ StartFails({})
      BY <1>1, <2>2, <3>1, <3>3 DEF CommandConnected, StartCounts
    <3> QED BY <3>2, <3>3
  <2>3. CASE SubscriberConnected
    <3>1. \A what \in {"declare", "subscribe"}, q \in Queues : command[<<what, q>>] = "none"
      BY <1>1, <2>3 DEF SubscriberConnected, StartCounts
    <3>2. CASE StartFails({})
      BY <1>8, <3>1, <3>2
    <3>3. CASE ~ StartFails({})
      <4>1. DeclareNext(Limited, {}) /\ UNCHANGED <<declared, subscribed>>
        BY <2>3, <3>3 DEF SubscriberConnected
      <4>2. declared' \cup Limited = Limited
        BY <1>1, <4>1 DEF PoolTypeOK
      <4> QED BY <1>10, <3>1, <4>1, <4>2
    <3> QED BY <3>2, <3>3
  <2>4. CASE StartClosed
    BY <1>7, <2>4 DEF StartClosed
  <2>5. ASSUME NEW q \in Queues, LimitDeclared(q) PROVE StartCounts'
    <3> DEFINE c == <<"declare", q>>
    <3>1. starting = "declare" /\ command[c] # "none"
      BY <2>5 DEF LimitDeclared, Settled, Answered, Rejected
    <3>2. \A what \in {"declare", "subscribe"}, p \in Queues :
            command[<<what, p>>] # "none" => <<what, p>> \in {c}
      BY <1>1, <3>1 DEF StartCounts
    <3>3. CASE StartFails({c})
      BY <1>8, <3>2, <3>3
    <3>4. CASE ~ StartFails({c})
      <4>1. DeclareNext(todo, {c}) /\ declared' = declared \cup {q} /\ UNCHANGED subscribed
        BY <2>5, <3>4 DEF LimitDeclared
      <4>2. todo \subseteq Limited /\ declared' \cup todo = Limited
        BY <1>1, <3>1, <4>1 DEF StartCounts
      <4> QED BY <1>10, <3>2, <4>1, <4>2
    <3> QED BY <3>3, <3>4
  <2>6. ASSUME NEW q \in Queues, ChannelSubscribed(q) PROVE StartCounts'
    <3> DEFINE c == <<"subscribe", q>>
    <3>1. starting = "subscribe" /\ command[c] # "none"
      BY <2>6 DEF ChannelSubscribed, Settled, Answered, Rejected
    <3>2. \A what \in {"declare", "subscribe"}, p \in Queues :
            command[<<what, p>>] # "none" => <<what, p>> \in {c}
      BY <1>1, <3>1 DEF StartCounts
    <3>3. CASE Rejected(c)
      BY <1>8, <2>6, <3>2, <3>3 DEF ChannelSubscribed
    <3>4. CASE ~ Rejected(c)
      <4>1. subscribed' = subscribed \cup {q} /\ UNCHANGED declared
        BY <2>6, <3>4 DEF ChannelSubscribed
      <4>2. CASE AskNext("subscribe", todo, {c})
        <5>1. todo \subseteq Queues /\ declared' = Limited /\ subscribed' \cup todo = Queues
          BY <1>1, <3>1, <4>1 DEF StartCounts
        <5> QED BY <1>9, <3>2, <4>2, <5>1
      <4>3. CASE RunnersStart /\ Exchange({c}, {})
        <5>1. \A what \in {"declare", "subscribe"}, p \in Queues : command'[<<what, p>>] = "none"
          BY <1>3, <1>4, <3>2, <4>3
        <5> QED BY <1>6, <4>3, <5>1 DEF RunnersStart
      <4> QED BY <2>6, <3>4, <4>2, <4>3 DEF ChannelSubscribed
    <3> QED BY <3>3, <3>4
  <2> QED BY <1>11, <2>1, <2>2, <2>3, <2>4, <2>5, <2>6 DEF Starts
<1>12. CASE Stops
  <2>1. CASE Shutdown \/ StopClaiming
    BY <1>1, <2>1, NothingAsked DEF Shutdown, StopClaiming, startup
  <2>2. ASSUME Requeue, UNCHANGED startup PROVE StartCounts'
    <3>1. CASE Exchange({}, {Unsubscribe})
      BY <1>5, <2>2, <3>1 DEF Unsubscribe, startup
    <3>2. CASE Exchange({}, {"requeue"} \X InFlight)
      BY <1>5, <2>2, <3>2 DEF startup
    <3> QED BY <2>2, <3>1, <3>2 DEF Requeue
  <2>3. CASE ClaimsStopped
    <3>1. CASE Requeue
      BY <2>2, <2>3, <3>1 DEF ClaimsStopped
    <3>2. CASE UNCHANGED command
      BY <1>1, <2>3, <3>2, NothingAsked DEF ClaimsStopped, startup
    <3> QED BY <2>3, <3>1, <3>2 DEF ClaimsStopped
  <2>4. CASE Drained
    BY <2>2, <2>4 DEF Drained
  <2>5. CASE DrainTimesOut
    <3>1. Exchange({}, {"requeue"} \X InFlight)
      BY <2>5 DEF DrainTimesOut
    <3>2. UNCHANGED <<starting, todo, declared, subscribed>>
      BY <2>5 DEF DrainTimesOut, startup
    <3> QED BY <1>5, <3>1, <3>2
  <2>6. CASE Closed
    BY <1>7, <2>6 DEF Closed, startup
  <2>7. ASSUME NEW q \in Queues, Requeued(q) PROVE StartCounts'
    <3>1. UNCHANGED startup
      BY <2>7 DEF Requeued
    <3>2. CASE Exchange({<<"requeue", q>>}, {Unsubscribe})
      BY <1>5, <3>1, <3>2 DEF Unsubscribe, startup
    <3>3. CASE Exchange({<<"requeue", q>>}, {})
      BY <1>5, <3>1, <3>3 DEF startup
    <3> QED BY <2>7, <3>2, <3>3 DEF Requeued
  <2> QED BY <1>12, <2>1, <2>3, <2>4, <2>5, <2>6, <2>7 DEF Stops
<1>13. CASE Runs
  <2>1. ASSUME NEW q \in Queues, Claim(q) PROVE StartCounts'
    BY <1>5, <2>1 DEF Claim, startup
  <2>2. ASSUME NEW q \in Queues, ClaimSettled(q) PROVE StartCounts'
    BY <1>5, <2>2 DEF ClaimSettled, startup
  <2>3. ASSUME NEW q \in Queues, Wake(q) PROVE StartCounts'
    BY <1>1, <2>3, NothingAsked DEF Wake, startup
  <2>4. ASSUME NEW q \in Queues, HandlerEnds(q) PROVE StartCounts'
    BY <1>5, <2>4 DEF HandlerEnds, startup
  <2>5. ASSUME NEW q \in Queues, AckSettled(q) PROVE StartCounts'
    BY <1>5, <2>5 DEF AckSettled, startup
  <2> QED BY <1>13, <2>1, <2>2, <2>3, <2>4, <2>5 DEF Runs
<1>14. CASE Sockets
  <2>1. UNCHANGED startup
    BY <1>14 DEF Sockets, SocketOpens, AttemptFails, Drop, NetworkChanges
  <2>2. \A c \in Commands : command'[c] # "none" => command[c] # "none"
    BY <1>14 DEF Sockets, SocketOpens, AttemptFails, Drop, NetworkChanges
  <2> QED BY <1>1, <1>3, <2>1, <2>2, NothingAsked DEF startup
<1> QED BY <1>11, <1>12, <1>13, <1>14 DEF PoolNext

-------------------------------------------------------------------------------
\* The loops start when all is declared and subscribed, stop when told to, and
\* what they were started by does not change while one of them goes on.
LEMMA LoopsPreserved ==
    ASSUME PoolInv, PoolNext
    PROVE  LoopsFollow'
<1>1. PoolTypeOK /\ StartCounts /\ Crossing /\ LoopsFollow /\ NothingLeftRunning
  BY DEF PoolInv
<1>2. ASSUME UNCHANGED <<loop, declared, subscribed, stopping>>,
             state' \in {state, "stopped"}, state' = "idle" => UNCHANGED socket
      PROVE  LoopsFollow'
  BY <1>1, <1>2 DEF LoopsFollow, LoopsExited
\* No loop runs before the start is over.
<1>3. starting # "off" => \A q \in Queues : loop[q] = "off"
  BY <1>1 DEF Crossing, LoopsFollow
<1>4. ASSUME starting # "off", UNCHANGED <<loop, stopping>>, state' \in {state, "stopped"}
      PROVE  LoopsFollow'
  <2>1. \A q \in Queues : loop'[q] = "off"
    BY <1>3, <1>4
  <2>2. state = "starting" /\ stopping' \notin {"drain", "requeue", "close"}
    BY <1>1, <1>4 DEF Crossing
  <2>3. state' \in {"starting", "stopped"}
    BY <1>4, <2>2
  <2> QED BY <2>1, <2>2, <2>3 DEF LoopsFollow
<1>5. CASE Starts
  <2>1. CASE Start
    <3>1. state = "idle" /\ state' = "starting" /\ UNCHANGED <<loop, stopping>>
      BY <2>1 DEF Start, runners, shutdown
    <3>2. \A q \in Queues : loop'[q] = "off"
      BY <1>1, <3>1 DEF LoopsFollow
    <3>3. stopping' \notin {"drain", "requeue", "close"}
      BY <1>1, <3>1 DEF Crossing
    <3> QED BY <3>1, <3>2, <3>3 DEF LoopsFollow
  <2>2. ASSUME NEW read, StartFails(read), starting # "off" PROVE LoopsFollow'
    BY <1>4, <2>2 DEF StartFails, CloseConnections, shutdown, runners
  <2>3. CASE CommandConnected
    BY <1>4, <2>2, <2>3 DEF CommandConnected, shutdown, runners
  <2>4. CASE SubscriberConnected
    BY <1>4, <2>2, <2>4 DEF SubscriberConnected, shutdown, runners
  <2>5. CASE StartClosed
    BY <1>4, <2>5 DEF StartClosed, CloseConnections, shutdown, runners
  <2>6. ASSUME NEW q \in Queues, LimitDeclared(q) PROVE LoopsFollow'
    BY <1>4, <2>2, <2>6 DEF LimitDeclared, shutdown, runners
  <2>7. ASSUME NEW q \in Queues, ChannelSubscribed(q) PROVE LoopsFollow'
    <3>1. CASE RunnersStart /\ todo = {} /\ ~ Rejected(<<"subscribe", q>>)
      <4>1. command[<<"subscribe", q>>] # "none"
        BY <2>7 DEF ChannelSubscribed, Settled, Answered, Rejected
      <4>2. subscribed \cup {q} = Queues /\ declared = Limited
        BY <1>1, <3>1, <4>1 DEF StartCounts
      <4>3. subscribed' = Queues /\ declared' = Limited /\ UNCHANGED stopping
        BY <2>7, <3>1, <4>2 DEF ChannelSubscribed, shutdown
      <4>4. state' = "running" /\ starting # "off"
        BY <2>7, <3>1 DEF RunnersStart, ChannelSubscribed
      <4>5. stopping' \notin {"drain", "requeue", "close"}
        BY <1>1, <4>3, <4>4 DEF Crossing
      <4> QED BY <4>3, <4>4, <4>5 DEF LoopsFollow
    <3>2. CASE ~ (RunnersStart /\ todo = {} /\ ~ Rejected(<<"subscribe", q>>))
      BY <1>4, <2>2, <2>7, <3>2 DEF ChannelSubscribed, shutdown, runners
    <3> QED BY <3>1, <3>2
  <2> QED BY <1>5, <2>1, <2>3, <2>4, <2>5, <2>6, <2>7 DEF Starts
<1>6. CASE Stops
  <2>1. CASE Shutdown
    BY <1>1, <2>1 DEF Shutdown, LoopsFollow, LoopsExited, Crossing, network, startup, runners
  <2>2. CASE StopClaiming
    <3>1. state = "running" \/ UNCHANGED loop
      BY <2>2 DEF StopClaiming
    <3>2. UNCHANGED <<declared, subscribed>>
      BY <2>2 DEF StopClaiming, startup
    <3>3. CASE state = "running"
      <4>1. state' = "stopping" /\ stopping' = "claims"
        BY <2>2, <3>3 DEF StopClaiming
      <4>2. loop' = [q \in Queues |-> IF loop[q] = "claiming" THEN "claiming" ELSE "exited"]
        BY <2>2, <3>3 DEF StopClaiming
      <4>3. declared = Limited /\ subscribed = Queues
        BY <1>1, <3>3 DEF LoopsFollow
      <4> QED BY <3>2, <4>1, <4>3, <4>2 DEF LoopsFollow
    <3>4. CASE state # "running"
      <4>1. state' = "stopped" /\ stopping' = "done" /\ UNCHANGED loop
        BY <2>2, <3>4 DEF StopClaiming
      <4> QED BY <1>1, <3>2, <4>1 DEF LoopsFollow
    <3> QED BY <3>3, <3>4
  <2>3. ASSUME LoopsExited, state = "stopping", UNCHANGED <<loop, declared, subscribed, state>>
        PROVE  LoopsFollow'
    BY <1>1, <2>3 DEF LoopsFollow, LoopsExited
  <2>4. CASE ClaimsStopped
    BY <1>1, <2>3, <2>4 DEF ClaimsStopped, startup, runners, Crossing
  <2>5. CASE Drained \/ DrainTimesOut
    BY <1>1, <2>3, <2>5 DEF Drained, DrainTimesOut, startup, runners, Crossing, LoopsFollow
  <2>6. CASE Closed
    BY <1>1, <2>6 DEF Closed, CloseConnections, startup, runners, LoopsFollow
  <2>7. ASSUME NEW q \in Queues, Requeued(q) PROVE LoopsFollow'
    BY <1>1, <2>3, <2>7 DEF Requeued, startup, runners, Crossing, LoopsFollow
  <2> QED BY <1>6, <2>1, <2>2, <2>4, <2>5, <2>6, <2>7 DEF Stops
<1>7. CASE Runs
  <2> SUFFICES ASSUME NEW q \in Queues,
                      Claim(q) \/ ClaimSettled(q) \/ Wake(q) \/ HandlerEnds(q) \/ AckSettled(q)
               PROVE  LoopsFollow'
    BY <1>7 DEF Runs
  <2>1. UNCHANGED <<state, declared, subscribed, stopping, socket>>
    BY DEF Claim, ClaimSettled, Wake, HandlerEnds, AckSettled, network, startup, shutdown
  <2>2. CASE Claim(q) \/ Wake(q)
    <3>1. loop[q] \in {"permit", "parked"}
      BY <2>2 DEF Claim, Wake
    <3>2. state = "running" /\ declared = Limited /\ subscribed = Queues
      BY <1>1, <3>1 DEF LoopsFollow, NothingLeftRunning
    <3>3. stopping \notin {"drain", "requeue", "close"}
      BY <1>1, <3>2 DEF Crossing
    <3> QED BY <2>1, <3>2, <3>3 DEF LoopsFollow
  <2>3. CASE ClaimSettled(q)
    <3>1. loop[q] = "claiming"
      BY <2>3 DEF ClaimSettled
    <3>2. state \in {"running", "stopping"} /\ declared = Limited /\ subscribed = Queues
      BY <1>1, <3>1 DEF LoopsFollow, NothingLeftRunning
    <3>3. stopping \notin {"drain", "requeue", "close"}
      BY <1>1, <3>1 DEF LoopsFollow, LoopsExited
    <3>4. /\ \A p \in Queues : p # q => loop'[p] = loop[p]
          /\ state = "stopping" => loop'[q] = "exited"
      BY <1>1, <2>3, <3>2 DEF ClaimSettled, NextRound, PoolTypeOK
    <3> QED BY <1>1, <2>1, <3>2, <3>3, <3>4 DEF LoopsFollow
  <2>4. CASE HandlerEnds(q) \/ AckSettled(q)
    <3>1. UNCHANGED loop
      BY <2>4 DEF HandlerEnds, AckSettled
    <3> QED BY <1>2, <2>1, <3>1
  <2> QED BY <2>2, <2>3, <2>4
<1>8. CASE Sockets
  <2>1. UNCHANGED <<loop, declared, subscribed, stopping, state>>
    BY <1>8 DEF Sockets, SocketOpens, AttemptFails, Drop, NetworkChanges, startup, shutdown, runners
  <2>2. state = "idle" => UNCHANGED socket
    BY <1>1, <1>8 DEF Sockets, SocketOpens, AttemptFails, Drop, NetworkChanges, LoopsFollow
  <2> QED BY <1>2, <2>1, <2>2
<1> QED BY <1>5, <1>6, <1>7, <1>8 DEF PoolNext

\* What ends in a stopped pool closed its connections and had no loop running.
LEMMA StoppedPreserved ==
    ASSUME PoolInv, PoolNext
    PROVE  NothingLeftRunning'
<1>1. PoolTypeOK /\ Crossing /\ LoopsFollow /\ NothingLeftRunning
  BY DEF PoolInv
<1>2. ASSUME state' # "stopped" PROVE NothingLeftRunning'
  BY <1>2 DEF NothingLeftRunning
<1>3. ASSUME UNCHANGED <<state, socket, loop>> PROVE NothingLeftRunning'
  BY <1>1, <1>3 DEF NothingLeftRunning
<1>4. ASSUME CloseConnections, UNCHANGED loop, \A q \in Queues : loop[q] \in {"off", "exited"}
      PROVE  NothingLeftRunning'
  BY <1>4 DEF NothingLeftRunning, CloseConnections
<1>5. starting # "off" => state = "starting" /\ \A q \in Queues : loop[q] = "off"
  BY <1>1 DEF Crossing, LoopsFollow
<1>6. CASE Starts
  <2>1. CASE Start
    BY <1>2, <2>1 DEF Start
  <2>2. ASSUME NEW read, StartFails(read), starting # "off" PROVE NothingLeftRunning'
    BY <1>2, <1>4, <1>5, <2>2 DEF StartFails, runners
  <2>3. CASE CommandConnected
    BY <1>2, <1>5, <2>2, <2>3 DEF CommandConnected
  <2>4. CASE SubscriberConnected
    BY <1>2, <1>5, <2>2, <2>4 DEF SubscriberConnected
  <2>5. CASE StartClosed
    BY <1>4, <1>5, <2>5 DEF StartClosed, runners
  <2>6. ASSUME NEW q \in Queues, LimitDeclared(q) PROVE NothingLeftRunning'
    BY <1>2, <1>5, <2>2, <2>6 DEF LimitDeclared
  <2>7. ASSUME NEW q \in Queues, ChannelSubscribed(q) PROVE NothingLeftRunning'
    BY <1>2, <1>5, <2>2, <2>7 DEF ChannelSubscribed, RunnersStart
  <2> QED BY <1>6, <2>1, <2>3, <2>4, <2>5, <2>6, <2>7 DEF Starts
<1>7. CASE Stops
  <2>1. CASE Shutdown
    <3>1. CASE state = "idle"
      BY <1>1, <2>1, <3>1 DEF Shutdown, LoopsFollow, NothingLeftRunning, network, runners
    <3>2. CASE state # "idle"
      BY <1>3, <2>1, <3>2 DEF Shutdown, network, runners
    <3> QED BY <3>1, <3>2
  <2>2. CASE StopClaiming
    <3>1. state \in {"running", "stopped"}
      BY <1>1, <2>2 DEF StopClaiming, StartOver, Crossing
    <3> QED BY <1>2, <1>3, <2>2, <3>1 DEF StopClaiming, network
  <2>3. CASE ClaimsStopped \/ Drained \/ DrainTimesOut
    BY <1>3, <2>3 DEF ClaimsStopped, Drained, DrainTimesOut, network, runners
  <2>4. CASE Closed
    <3>1. \A q \in Queues : loop[q] = "exited"
      BY <1>1, <2>4 DEF Closed, LoopsFollow, LoopsExited
    <3> QED BY <1>4, <2>4, <3>1 DEF Closed, runners
  <2>5. ASSUME NEW q \in Queues, Requeued(q) PROVE NothingLeftRunning'
    BY <1>3, <2>5 DEF Requeued, network, runners
  <2> QED BY <1>7, <2>1, <2>2, <2>3, <2>4, <2>5 DEF Stops
<1>8. CASE Runs
  <2> SUFFICES ASSUME NEW q \in Queues,
                      Claim(q) \/ ClaimSettled(q) \/ Wake(q) \/ HandlerEnds(q) \/ AckSettled(q)
               PROVE  NothingLeftRunning'
    BY <1>8 DEF Runs
  <2>1. UNCHANGED <<state, socket>>
    BY DEF Claim, ClaimSettled, Wake, HandlerEnds, AckSettled, network
  <2>2. CASE Claim(q) \/ Wake(q) \/ ClaimSettled(q)
    <3>1. loop[q] \notin {"off", "exited"}
      BY <2>2 DEF Claim, Wake, ClaimSettled
    <3>2. state # "stopped"
      BY <1>1, <3>1 DEF NothingLeftRunning
    <3> QED BY <1>2, <2>1, <3>2
  <2>3. CASE HandlerEnds(q) \/ AckSettled(q)
    BY <1>3, <2>1, <2>3 DEF HandlerEnds, AckSettled
  <2> QED BY <2>2, <2>3
<1>9. CASE Sockets
  <2>1. UNCHANGED <<state, loop>>
    BY <1>9 DEF Sockets, SocketOpens, AttemptFails, Drop, NetworkChanges, runners
  <2>2. state = "stopped" => UNCHANGED socket
    BY <1>1, <1>9 DEF Sockets, SocketOpens, AttemptFails, Drop, NetworkChanges, NothingLeftRunning
  <2> QED BY <1>2, <1>3, <2>1, <2>2
<1> QED BY <1>6, <1>7, <1>8, <1>9 DEF PoolNext

-------------------------------------------------------------------------------
\* A drain waits for the runs that are there, no run begins behind its back, and
\* what it counts in the end is what is left of them.
LEMMA DrainPreserved ==
    ASSUME PoolInv, PoolNext
    PROVE  DrainCounts' /\ DrainComplete'
<1>1. PoolTypeOK /\ Crossing /\ LoopsFollow /\ DrainCounts /\ DrainComplete
  BY DEF PoolInv
<1>2. ASSUME UNCHANGED <<stopping, mode, awaited, result, job>>
      PROVE  DrainCounts' /\ DrainComplete'
  BY <1>1, <1>2 DEF DrainCounts, DrainComplete, InFlight
<1>3. CASE Starts
  <2>1. UNCHANGED <<stopping, mode, awaited, result, job>>
    <3>1. ASSUME NEW read, StartFails(read) PROVE UNCHANGED <<stopping, mode, awaited, result, job>>
      BY <3>1 DEF StartFails, shutdown, runners
    <3>2. ASSUME NEW q \in Queues, LimitDeclared(q) \/ ChannelSubscribed(q)
          PROVE  UNCHANGED <<stopping, mode, awaited, result, job>>
      BY <3>1, <3>2 DEF LimitDeclared, ChannelSubscribed, shutdown, runners
    <3> QED BY <1>3, <3>1, <3>2
            DEF Starts, Start, CommandConnected, SubscriberConnected, StartClosed, shutdown, runners
  <2> QED BY <1>2, <2>1
<1>4. CASE Stops
  <2>1. CASE Shutdown \/ StopClaiming
    <3>1. stopping \in {"off", "start"} /\ stopping' # "drain" /\ UNCHANGED result
      BY <2>1 DEF Shutdown, StopClaiming
    <3>2. result.unfinished = 0
      BY <1>1, <3>1 DEF DrainCounts
    <3> QED BY <3>1, <3>2 DEF DrainCounts, DrainComplete
  <2>2. CASE ClaimsStopped
    <3>1. result.unfinished = 0
      BY <1>1, <2>2 DEF ClaimsStopped, DrainCounts
    <3>2. CASE mode = "force" /\ Requeue
      <4>1. mode' = "force" /\ stopping' \in {"close", "requeue"}
        BY <2>2, <3>2 DEF ClaimsStopped, Requeue
      <4> QED BY <4>1 DEF DrainCounts, DrainComplete
    <3>3. CASE stopping' = "drain" /\ awaited' = InFlight /\ UNCHANGED result
      <4>1. InFlight' = InFlight
        BY <2>2 DEF ClaimsStopped, InFlight, runners
      <4> QED BY <3>1, <3>3, <4>1 DEF DrainCounts, DrainComplete
    <3> QED BY <2>2, <3>2, <3>3 DEF ClaimsStopped
  <2>3. CASE Drained
    <3>1. InFlight = {}
      BY <1>1, <2>3 DEF Drained, DrainCounts
    <3>2. result' = [result EXCEPT !.unfinished = 0] /\ stopping' = "close"
      BY <2>3, <3>1, FS_EmptySet DEF Drained, Requeue
    <3>3. result'.unfinished = 0
      BY <1>1, <3>2 DEF PoolTypeOK
    <3> QED BY <3>2, <3>3 DEF DrainCounts, DrainComplete
  <2>4. CASE DrainTimesOut
    <3>1. stopping' = "requeue" /\ result'.timedOut
      BY <2>4 DEF DrainTimesOut
    <3> QED BY <3>1 DEF DrainCounts, DrainComplete
  <2>5. ASSUME NEW q \in Queues, Requeued(q) PROVE DrainCounts' /\ DrainComplete'
    <3>1. stopping' \in {"close", "requeue"} /\ UNCHANGED <<mode, result>>
      BY <2>5 DEF Requeued
    <3> QED BY <1>1, <3>1 DEF DrainCounts, DrainComplete
  <2>6. CASE Closed
    <3>1. stopping' = "done" /\ UNCHANGED <<mode, result>>
      BY <2>6 DEF Closed
    <3> QED BY <1>1, <3>1 DEF DrainCounts, DrainComplete
  <2> QED BY <1>4, <2>1, <2>2, <2>3, <2>4, <2>5, <2>6 DEF Stops
<1>5. CASE Runs
  <2> SUFFICES ASSUME NEW q \in Queues,
                      Claim(q) \/ ClaimSettled(q) \/ Wake(q) \/ HandlerEnds(q) \/ AckSettled(q)
               PROVE  DrainCounts' /\ DrainComplete'
    BY <1>5 DEF Runs
  <2>1. UNCHANGED <<stopping, mode, result>>
    BY DEF Claim, ClaimSettled, Wake, HandlerEnds, AckSettled, shutdown
  <2>2. stopping = "drain" => InFlight' \subseteq awaited'
    <3>1. CASE Claim(q) \/ Wake(q)
      BY <1>1, <3>1 DEF Claim, Wake, DrainCounts, InFlight, shutdown
    <3>2. CASE ClaimSettled(q)
      BY <1>1, <3>2 DEF ClaimSettled, LoopsFollow, LoopsExited
    <3>3. CASE HandlerEnds(q)
      BY <1>1, <3>3 DEF HandlerEnds, DrainCounts, InFlight, PoolTypeOK, shutdown
    <3>4. CASE AckSettled(q)
      BY <1>1, <3>4 DEF AckSettled, DrainCounts, InFlight, PoolTypeOK
    <3> QED BY <3>1, <3>2, <3>3, <3>4
  <2> QED BY <1>1, <2>1, <2>2 DEF DrainCounts, DrainComplete
<1>6. CASE Sockets
  BY <1>2, <1>6 DEF Sockets, SocketOpens, AttemptFails, Drop, NetworkChanges, shutdown, runners
<1> QED BY <1>3, <1>4, <1>5, <1>6 DEF PoolNext

-------------------------------------------------------------------------------
\* The flag is set by the first failure of an outage and reset by the ready that
\* ends it, and each of the two is reported.
LEMMA AlarmPreserved ==
    ASSUME PoolInv, PoolNext
    PROVE  AlarmCounts'
<1>1. PoolTypeOK /\ Crossing /\ LoopsFollow /\ AlarmCounts
  BY DEF PoolInv
<1>2. "subscriber" \in Connections
  BY DEF Connections
<1>3. ASSUME UNCHANGED <<degraded, alarms>>,
             socket'["subscriber"] \in {socket["subscriber"], "none", "dialing", "gone"}
      PROVE  AlarmCounts'
  BY <1>1, <1>3 DEF AlarmCounts
<1>4. ASSUME CloseConnections PROVE AlarmCounts'
  BY <1>2, <1>3, <1>4 DEF CloseConnections
<1>5. ASSUME UNCHANGED network PROVE AlarmCounts'
  BY <1>1, <1>5 DEF AlarmCounts, network
<1>6. ASSUME NEW s \in Connections, Open(s) PROVE AlarmCounts'
  BY <1>1, <1>2, <1>3, <1>6 DEF Open, PoolTypeOK
<1>7. CASE Starts
  <2>1. ASSUME NEW read, StartFails(read) PROVE AlarmCounts'
    BY <1>4, <1>5, <2>1 DEF StartFails
  <2>2. ASSUME NEW q \in Queues, LimitDeclared(q) PROVE AlarmCounts'
    BY <1>5, <2>1, <2>2 DEF LimitDeclared
  <2>3. ASSUME NEW q \in Queues, ChannelSubscribed(q) PROVE AlarmCounts'
    BY <1>5, <2>1, <2>3 DEF ChannelSubscribed
  <2>4. CASE Start \/ CommandConnected
    BY <1>6, <2>1, <2>4 DEF Start, CommandConnected, Connections
  <2>5. CASE SubscriberConnected
    BY <1>5, <2>1, <2>5 DEF SubscriberConnected
  <2>6. CASE StartClosed
    BY <1>4, <2>6 DEF StartClosed
  <2> QED BY <1>7, <2>2, <2>3, <2>4, <2>5, <2>6 DEF Starts
<1>8. CASE Stops
  BY <1>4, <1>5, <1>8
  DEF Stops, Shutdown, StopClaiming, ClaimsStopped, Drained, DrainTimesOut, Closed, Requeued
<1>9. CASE Runs
  BY <1>5, <1>9 DEF Runs, Claim, ClaimSettled, Wake, HandlerEnds, AckSettled
<1>10. CASE Sockets
  <2>1. ASSUME NEW s \in Connections, SocketOpens(s) PROVE AlarmCounts'
    <3>1. CASE s = "subscriber"
      <4>1. degraded' = FALSE
        BY <2>1, <3>1, Zenon DEF SocketOpens, Restore
      <4>2. alarms' = IF degraded THEN alarms - 1 ELSE alarms
        BY <2>1, <3>1 DEF SocketOpens, Restore
      <4>3. alarms' = 0
        BY <1>1, <4>2 DEF AlarmCounts
      <4>4. socket'["subscriber"] = "up"
        BY <1>1, <1>2, <2>1, <3>1 DEF SocketOpens, PoolTypeOK
      <4> QED BY <4>1, <4>3, <4>4 DEF AlarmCounts
    <3>2. CASE s # "subscriber"
      BY <1>1, <1>2, <2>1, <3>2 DEF SocketOpens, Restore, AlarmCounts, PoolTypeOK
    <3> QED BY <3>1, <3>2
  <2>2. ASSUME NEW s \in Connections, Degrade(s),
               s # "subscriber" => socket'["subscriber"] = socket["subscriber"],
               s = "subscriber" => socket'["subscriber"] # "up"
        PROVE  AlarmCounts'
    <3>1. CASE s = "subscriber"
      <4>1. degraded' = TRUE
        BY <2>2, <3>1, Zenon DEF Degrade
      <4>2. alarms' = IF ~ degraded THEN alarms + 1 ELSE alarms
        BY <2>2, <3>1 DEF Degrade
      <4>3. alarms' = 1
        BY <1>1, <4>2 DEF AlarmCounts
      <4> QED BY <2>2, <3>1, <4>1, <4>3 DEF AlarmCounts
    <3>2. CASE s # "subscriber"
      BY <1>1, <1>2, <2>2, <3>2 DEF Degrade, AlarmCounts, PoolTypeOK
    <3> QED BY <3>1, <3>2
  <2>3. ASSUME NEW s \in Connections, AttemptFails(s) PROVE AlarmCounts'
    <3>1. CASE Degrade(s) /\ UNCHANGED socket
      BY <2>2, <2>3, <3>1 DEF AttemptFails
    <3>2. CASE socket' = [socket EXCEPT ![s] = "gone"] /\ UNCHANGED <<degraded, alarms>>
      BY <1>1, <1>2, <1>3, <3>2 DEF PoolTypeOK
    <3> QED BY <2>3, <3>1, <3>2 DEF AttemptFails
  <2>4. ASSUME NEW s \in Connections, Drop(s) PROVE AlarmCounts'
    <3>1. Degrade(s) /\ socket' = [socket EXCEPT ![s] = "redialing"]
      BY <2>4 DEF Drop
    <3> QED BY <1>1, <1>2, <2>2, <3>1 DEF PoolTypeOK
  <2>5. CASE NetworkChanges
    BY <1>3, <2>5 DEF NetworkChanges
  <2> QED BY <1>10, <2>1, <2>3, <2>4, <2>5 DEF Sockets
<1> QED BY <1>7, <1>8, <1>9, <1>10 DEF PoolNext

-------------------------------------------------------------------------------
LEMMA PoolSteps == PoolInv /\ [PoolNext]_pool => PoolInv'
<1> SUFFICES ASSUME PoolInv, [PoolNext]_pool PROVE PoolInv'
  OBVIOUS
<1>1. CASE PoolNext
  BY <1>1, TypePreserved, CountsPreserved, CrossingPreserved, LoopsPreserved,
     StoppedPreserved, DrainPreserved, AlarmPreserved DEF PoolInv
<1>2. CASE UNCHANGED pool
  <2> USE <1>2 DEF PoolInv, pool, network, startup, shutdown, runners
  <2>1. PoolTypeOK' /\ AlarmCounts'
    BY DEF PoolTypeOK, AlarmCounts
  <2>2. StartCounts' /\ Crossing'
    BY DEF StartCounts, Crossing
  <2>3. LoopsFollow' /\ NothingLeftRunning'
    BY DEF LoopsFollow, LoopsExited, NothingLeftRunning
  <2>4. DrainCounts' /\ DrainComplete'
    BY DEF DrainCounts, DrainComplete, InFlight
  <2> QED BY <2>1, <2>2, <2>3, <2>4
<1> QED BY <1>1, <1>2

LEMMA PoolInvariant == PoolSpec => []PoolInv
<1>1. PoolInit => PoolInv
  BY PoolStarts
<1>2. PoolInv /\ [PoolNext]_pool => PoolInv'
  BY PoolSteps
<1> QED BY <1>1, <1>2, PTL DEF PoolSpec

\* A pool runs as a whole or not at all, whichever calls cross and fail: doStart and
\* doShutdown, for any queues and any outages.
THEOREM AllOrNothingHolds == PoolSpec => []AllOrNothing
<1>1. PoolInv => AllOrNothing
  BY DEF PoolInv, AllOrNothing, NoHalfStart, LoopsFollow
<1> QED BY <1>1, PoolInvariant, PTL

\* A drain that did not time out left nothing unfinished.
THEOREM DrainCompleteHolds == PoolSpec => []DrainComplete
<1>1. PoolInv => DrainComplete
  BY DEF PoolInv
<1> QED BY <1>1, PoolInvariant, PTL

\* One alarm stands through an outage of the subscriber, none outside of one.
THEOREM AlarmExactHolds == PoolSpec => []AlarmExact
<1>1. PoolInv => AlarmExact
  BY DEF PoolInv, AlarmExact, AlarmCounts
<1> QED BY <1>1, PoolInvariant, PTL

===============================================================================
