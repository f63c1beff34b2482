------------------------------- MODULE Semaphore -------------------------------
(***************************************************************************)
(* The local semaphore of the worker package: permits, a FIFO of waiters,  *)
(* and an abort signal per caller.  A step is one synchronous call; what a *)
(* caller does once its promise has settled is a step of its own, so the   *)
(* calls of others, and its own abort, may come in between.  A claim loop  *)
(* that holds several permits of a batch is several callers here.          *)
(***************************************************************************)
EXTENDS Naturals, FiniteSets, Sequences

CONSTANTS
    Callers,    \* whoever acquires: the claim loop, and the runs it starts
    Permits     \* the semaphore's max

ASSUME SemaphoreAssumption ==
    /\ IsFiniteSet(Callers)
    /\ Permits \in Nat \ {0}

VARIABLES
    current,    \* permits handed out
    waiters,    \* callers whose promise is pending, the oldest first
    caller,     \* what has become of each caller's last call
    aborted     \* callers whose signal was aborted, for good

semaphore == <<current, waiters, caller, aborted>>

\* "granted" and "refused": the promise is settled, its caller has not resumed.
Progress == {"idle", "waiting", "granted", "refused", "holding"}

SemaphoreInit ==
    /\ current = 0
    /\ waiters = <<>>
    /\ caller = [c \in Callers |-> "idle"]
    /\ aborted = {}

\* Mutant: the bound is off by one.
FreeOffByOne == current <= Permits
Free == current < Permits

AcquireRefused(c) ==
    /\ caller[c] = "idle"
    /\ c \in aborted
    /\ caller' = [caller EXCEPT ![c] = "refused"]
    /\ UNCHANGED <<current, waiters, aborted>>

AcquireNow(c) ==
    /\ caller[c] = "idle"
    /\ c \notin aborted
    /\ Free
    /\ current' = current + 1
    /\ caller' = [caller EXCEPT ![c] = "granted"]
    /\ UNCHANGED <<waiters, aborted>>

AcquireLater(c) ==
    /\ caller[c] = "idle"
    /\ c \notin aborted
    /\ ~ Free
    /\ waiters' = Append(waiters, c)
    /\ caller' = [caller EXCEPT ![c] = "waiting"]
    /\ UNCHANGED <<current, aborted>>

Acquire(c) == AcquireRefused(c) \/ AcquireNow(c) \/ AcquireLater(c)

\* It looks at no signal and never waits.
TryAcquire(c) ==
    /\ caller[c] = "idle"
    /\ Free
    /\ current' = current + 1
    /\ caller' = [caller EXCEPT ![c] = "holding"]
    /\ UNCHANGED <<waiters, aborted>>

\* The queue without its i-th entry.
Without(i) == SubSeq(waiters, 1, i - 1) \o SubSeq(waiters, i + 1, Len(waiters))

\* Mutant: the rejected waiter stays in the queue.
AbortKeepsWaiter(c) ==
    /\ c \notin aborted
    /\ aborted' = aborted \cup {c}
    /\ caller' = [caller EXCEPT ![c] = IF @ = "waiting" THEN "refused" ELSE @]
    /\ UNCHANGED <<current, waiters>>

\* The abort listener: it finds its waiter in the queue, or it does nothing.
Abort(c) ==
    /\ c \notin aborted
    /\ aborted' = aborted \cup {c}
    /\ UNCHANGED current
    /\ \/ \E i \in DOMAIN waiters :
            /\ waiters[i] = c
            /\ waiters' = Without(i)
            /\ caller' = [caller EXCEPT ![c] = "refused"]
       \/ /\ \A i \in DOMAIN waiters : waiters[i] # c
          /\ UNCHANGED <<waiters, caller>>

\* The continuation of acquire() runs in its caller.
Resume(c) ==
    /\ caller[c] \in {"granted", "refused"}
    /\ caller' = [caller EXCEPT ![c] = IF @ = "granted" THEN "holding" ELSE "idle"]
    /\ UNCHANGED <<current, waiters, aborted>>

\* Mutant: the permit is counted back although it went to a waiter.
HandOverCountedBack(c) ==
    /\ waiters # <<>>
    /\ waiters' = Tail(waiters)
    /\ caller' = [caller EXCEPT ![c] = "idle", ![Head(waiters)] = "granted"]
    /\ current' = current - 1

\* Mutant: the newest waiter is served.
HandOverToNewest(c) ==
    /\ waiters # <<>>
    /\ waiters' = SubSeq(waiters, 1, Len(waiters) - 1)
    /\ caller' = [caller EXCEPT ![c] = "idle", ![waiters[Len(waiters)]] = "granted"]
    /\ UNCHANGED current

\* The permit goes to the oldest waiter and stays counted.
HandOver(c) ==
    /\ waiters # <<>>
    /\ waiters' = Tail(waiters)
    /\ caller' = [caller EXCEPT ![c] = "idle", ![Head(waiters)] = "granted"]
    /\ UNCHANGED current

\* Mutant: a permit is put back beside waiters.
PutBackUnseen(c) ==
    /\ caller' = [caller EXCEPT ![c] = "idle"]
    /\ current' = current - 1
    /\ UNCHANGED waiters

PutBack(c) ==
    /\ waiters = <<>>
    /\ caller' = [caller EXCEPT ![c] = "idle"]
    /\ current' = current - 1
    /\ UNCHANGED waiters

Release(c) ==
    /\ caller[c] = "holding"
    /\ HandOver(c) \/ PutBack(c)
    /\ UNCHANGED aborted

SemaphoreNext ==
    \E c \in Callers : Acquire(c) \/ TryAcquire(c) \/ Abort(c) \/ Resume(c) \/ Release(c)

SemaphoreSpec == SemaphoreInit /\ [][SemaphoreNext]_semaphore

\* A settled promise resumes its caller, and whoever holds a permit returns it.
SemaphoreFairness == \A c \in Callers : WF_semaphore(Resume(c)) /\ WF_semaphore(Release(c))
FairSemaphoreSpec == SemaphoreSpec /\ SemaphoreFairness

-------------------------------------------------------------------------------

Waiting == {c \in Callers : caller[c] = "waiting"}

\* Permits that are somebody's: held, or granted to one who has not resumed.
Taken == {c \in Callers : caller[c] \in {"granted", "holding"}}

\* Types.
SemaphoreTypeOK ==
    /\ current \in 0..Permits
    /\ waiters \in Seq(Callers)
    /\ caller \in [Callers -> Progress]
    /\ aborted \subseteq Callers

\* The queue holds each pending caller once and nobody else: an abort that
\* crosses the hand-over of a permit neither leaves a dead waiter behind, which
\* would swallow a permit, nor removes one that was served (semaphore.ts:50).
QueueExact ==
    /\ Waiting = {waiters[i] : i \in DOMAIN waiters}
    /\ \A i, j \in DOMAIN waiters : waiters[i] = waiters[j] => i = j

\* No permit is lost or invented: the counter is the number of permits that are
\* somebody's, whatever is aborted, refused or handed over meanwhile.
PermitsExact == current = Cardinality(Taken)

\* Nobody waits beside a free permit: release() hands permits over while there
\* are waiters, so a claim loop cannot sleep on an idle semaphore.
NoIdlePermit == waiters # <<>> => current = Permits

\* What every caller of semaphore.ts relies on, at every moment between two calls.
SemaphoreExact == SemaphoreTypeOK /\ QueueExact /\ PermitsExact /\ NoIdlePermit

\* While permits are returned every waiter is served or refused in the end: newer
\* callers, tryAcquire and aborts cannot keep it waiting for ever.
Served == \A c \in Callers : caller[c] = "waiting" ~> caller[c] # "waiting"

===============================================================================
