-------------------------- MODULE WorkerSafetyProofs --------------------------
(***************************************************************************)
(* What the workers promise each other and their jobs, for any number of   *)
(* both: no lease is orphaned, the end of a job is reported at most once,  *)
(* and no wake-up is lost.                                                 *)
(***************************************************************************)
EXTENDS WorkerRunnerProofs

-------------------------------------------------------------------------------
(* What each step does to the worker that takes it. *)

\* Only worker w changes.
Alone(w) == \A v \in Workers : v # w => runner'[v] = runner[v]

SameJobs(r, s) == s.leases = r.leases /\ s.inflight = r.inflight
                    /\ s.handing = r.handing /\ s.news = r.news
SameLoop(r, s) == s.state = r.state /\ s.loop = r.loop /\ s.wakePending = r.wakePending

LEMMA PlainEffects ==
    ASSUME runner \in [Workers -> Process], NEW w \in Workers
    PROVE  LET r == runner[w]
               s == runner'[w] IN
           /\ Boot(w) => /\ Alone(w) /\ SameJobs(r, s)
                         /\ r.state = "idle" /\ s.state \in {"declared", "stopped"}
                         /\ s.loop = r.loop
           /\ StartRunner(w) => /\ Alone(w) /\ SameJobs(r, s)
                                /\ r.state = "declared" /\ s.state = "running"
                                /\ s.loop = "acquire"
           /\ SendClaim(w) => /\ Alone(w) /\ SameJobs(r, s) /\ r.state = "running"
                              /\ s.state = r.state /\ s.loop = "claiming"
           /\ LeaveLoop(w) => /\ Alone(w) /\ SameJobs(r, s) /\ r.loop = "acquire"
                              /\ s.state = r.state /\ s.loop = "exited"
           /\ PollTimeout(w) => /\ Alone(w) /\ SameJobs(r, s) /\ r.loop = "parked"
                                /\ s.state = r.state /\ s.loop = "acquire"
           /\ SweepAnswered(w) => /\ Alone(w) /\ SameLoop(r, s) /\ s.leases = r.leases
                                  /\ s.inflight = r.inflight /\ s.handing = r.handing
                                  /\ s.news = {}
           /\ \A l \in r.handing : RequeueScript(w, l) =>
                /\ Alone(w) /\ SameLoop(r, s) /\ s.leases = r.leases
                /\ s.inflight = r.inflight /\ s.handing = r.handing \ {l}
                /\ s.news = r.news
<1> DEFINE r == runner[w]
           s == runner'[w]
<1>1. r \in Process
  OBVIOUS
<1>2. Boot(w) => /\ Alone(w) /\ SameJobs(r, s)
                 /\ r.state = "idle" /\ s.state \in {"declared", "stopped"}
                 /\ s.loop = r.loop
  BY DEF Boot, Alone, SameJobs, Process
<1>3. StartRunner(w) => /\ Alone(w) /\ SameJobs(r, s)
                        /\ r.state = "declared" /\ s.state = "running"
                        /\ s.loop = "acquire"
  BY DEF StartRunner, Alone, SameJobs, Process
<1>4. SendClaim(w) => /\ Alone(w) /\ SameJobs(r, s) /\ r.state = "running"
                      /\ s.state = r.state /\ s.loop = "claiming"
  BY DEF SendClaim, Alone, SameJobs, Process
<1>5. LeaveLoop(w) => /\ Alone(w) /\ SameJobs(r, s) /\ r.loop = "acquire"
                      /\ s.state = r.state /\ s.loop = "exited"
  BY DEF LeaveLoop, Alone, SameJobs, Process
<1>6. PollTimeout(w) => /\ Alone(w) /\ SameJobs(r, s) /\ r.loop = "parked"
                        /\ s.state = r.state /\ s.loop = "acquire"
  BY DEF PollTimeout, Alone, SameJobs, Process
<1>7. SweepAnswered(w) => /\ Alone(w) /\ SameLoop(r, s) /\ s.leases = r.leases
                          /\ s.inflight = r.inflight /\ s.handing = r.handing
                          /\ s.news = {}
  BY DEF SweepAnswered, Alone, SameLoop, Process
<1>8. ASSUME NEW l \in r.handing, RequeueScript(w, l)
      PROVE  /\ Alone(w) /\ SameLoop(r, s) /\ s.leases = r.leases
             /\ s.inflight = r.inflight /\ s.handing = r.handing \ {l}
             /\ s.news = r.news
  BY <1>8 DEF RequeueScript, Alone, SameLoop, Process
<1> QED BY <1>2, <1>3, <1>4, <1>5, <1>6, <1>7, <1>8

\* A wake-up moves a parked loop; otherwise it is remembered.
IsWoken(r, s) == IF r.loop = "parked" THEN s.loop = "acquire"
                                      ELSE s.loop = r.loop /\ s.wakePending = TRUE

LEMMA WakeEffects ==
    ASSUME runner \in [Workers -> Process], NEW w \in Workers
    PROVE  LET r == runner[w]
               s == runner'[w] IN
           /\ Deliver(w) => /\ Alone(w) /\ SameJobs(r, s) /\ s.state = r.state /\ IsWoken(r, s)
           /\ StopClaiming(w) => /\ Alone(w) /\ SameJobs(r, s) /\ IsWoken(r, s)
                                 /\ r.state = "running" /\ s.state = "stopping"
           /\ ClaimRefused(w) => /\ Alone(w) /\ SameJobs(r, s) /\ s.state = r.state
                                 /\ r.loop = "refused"
                                 /\ s.loop = IF r.wakePending THEN "acquire" ELSE "parked"
<1> DEFINE r == runner[w]
           t == Woken(r)
           stopping == [t EXCEPT !.state = "stopping"]
           permits == r.free + r.batch
           back == [r EXCEPT !.free = permits, !.batch = 0]
           u == Park(back)
<1>1. r \in Process
  OBVIOUS
<1>2. Deliver(w) => runner' = [runner EXCEPT ![w] = t]
  BY DEF Deliver
<1>3. StopClaiming(w) => runner' = [runner EXCEPT ![w] = stopping] /\ r.state = "running"
  BY DEF StopClaiming
<1>4. ClaimRefused(w) => runner' = [runner EXCEPT ![w] = u] /\ r.loop = "refused"
  BY DEF ClaimRefused
<1> HIDE DEF r, permits
<1>5. t \in Process /\ SameJobs(r, t) /\ t.state = r.state /\ IsWoken(r, t)
  BY <1>1 DEF Woken, IsWoken, SameJobs, Process
<1> HIDE DEF t
<1>6. SameJobs(r, stopping) /\ stopping.state = "stopping" /\ IsWoken(r, stopping)
  BY <1>5 DEF SameJobs, IsWoken, Process
<1>7. /\ SameJobs(r, u) /\ u.state = r.state
      /\ u.loop = IF r.wakePending THEN "acquire" ELSE "parked"
  BY <1>1 DEF Park, SameJobs, Process
<1> HIDE DEF stopping, u
<1>8. ASSUME NEW x, runner' = [runner EXCEPT ![w] = x] PROVE Alone(w) /\ runner'[w] = x
  BY <1>8 DEF Alone
<1> QED BY <1>2, <1>3, <1>4, <1>5, <1>6, <1>7, <1>8 DEF r

\* What a claim comes back with.
LEMMA ClaimEffects ==
    ASSUME runner \in [Workers -> Process], NEW w \in Workers
    PROVE  LET r == runner[w]
               s == runner'[w]
               n == runner[w].batch IN
           /\ ClaimScript(w) =>
                /\ Alone(w) /\ r.loop = "claiming" /\ s.state = r.state
                /\ s.inflight = r.inflight /\ s.handing = r.handing /\ s.news = r.news
                /\ s.wakePending = r.wakePending
                /\ IF BatchSize(n) >= 1
                   THEN /\ Claim(n) /\ s.loop = "granted"
                        /\ s.leases = {[job |-> j, token |-> issued[j] + 1] : j \in Granted(n)}
                   ELSE /\ UNCHANGED <<store, history>>
                        /\ s.loop = "refused" /\ s.leases = r.leases
           /\ ClaimGranted(w) =>
                /\ Alone(w) /\ r.loop = "granted" /\ s.state = r.state /\ s.loop = "acquire"
                /\ s.handing = r.handing /\ s.news = r.news /\ s.leases = {}
                /\ s.inflight = r.inflight \cup
                     {[lease |-> l, renew |-> TRUE, late |-> FALSE, at |-> "handler"] : l \in r.leases}
<1> DEFINE r == runner[w]
           n == r.batch
           granted == {[job |-> j, token |-> issued[j] + 1] : j \in Granted(n)}
           t == [r EXCEPT !.loop = "granted", !.leases = granted]
           u == [r EXCEPT !.loop = "refused"]
           started == {[lease |-> l, renew |-> TRUE, late |-> FALSE, at |-> "handler"] : l \in r.leases}
           jobs == r.inflight \cup started
           permits == r.free + r.batch - Cardinality(r.leases)
           x == [r EXCEPT !.loop = "acquire", !.batch = 0, !.leases = {}, !.free = permits,
                          !.inflight = jobs]
<1>1. r \in Process
  OBVIOUS
<1>2. ClaimScript(w) =>
        /\ r.loop = "claiming"
        /\ IF BatchSize(n) >= 1
           THEN Claim(n) /\ runner' = [runner EXCEPT ![w] = t]
           ELSE UNCHANGED <<store, history>> /\ runner' = [runner EXCEPT ![w] = u]
  BY DEF ClaimScript
<1>3. ClaimGranted(w) => r.loop = "granted" /\ runner' = [runner EXCEPT ![w] = x]
  BY DEF ClaimGranted
<1> HIDE DEF r, granted, permits, jobs
<1>4. /\ t.state = r.state /\ t.inflight = r.inflight /\ t.handing = r.handing /\ t.news = r.news
      /\ t.wakePending = r.wakePending /\ t.loop = "granted" /\ t.leases = granted
  BY <1>1 DEF Process
<1>5. /\ u.state = r.state /\ u.inflight = r.inflight /\ u.handing = r.handing /\ u.news = r.news
      /\ u.wakePending = r.wakePending /\ u.loop = "refused" /\ u.leases = r.leases
  BY <1>1 DEF Process
<1>6. /\ x.state = r.state /\ x.handing = r.handing /\ x.news = r.news
      /\ x.loop = "acquire" /\ x.leases = {} /\ x.inflight = jobs
  BY <1>1 DEF Process
<1> HIDE DEF t, u, x
<1>7. ASSUME NEW y, runner' = [runner EXCEPT ![w] = y] PROVE Alone(w) /\ runner'[w] = y
  BY <1>7 DEF Alone
<1>8. ClaimScript(w) =>
        /\ Alone(w) /\ r.loop = "claiming" /\ runner'[w].state = r.state
        /\ runner'[w].inflight = r.inflight /\ runner'[w].handing = r.handing
        /\ runner'[w].news = r.news /\ runner'[w].wakePending = r.wakePending
        /\ IF BatchSize(n) >= 1
           THEN Claim(n) /\ runner'[w].loop = "granted" /\ runner'[w].leases = granted
           ELSE /\ UNCHANGED <<store, history>>
                /\ runner'[w].loop = "refused" /\ runner'[w].leases = r.leases
  BY <1>2, <1>4, <1>5, <1>7
<1>9. ClaimGranted(w) =>
        /\ Alone(w) /\ r.loop = "granted" /\ runner'[w].state = r.state
        /\ runner'[w].loop = "acquire" /\ runner'[w].handing = r.handing
        /\ runner'[w].news = r.news /\ runner'[w].leases = {} /\ runner'[w].inflight = jobs
  BY <1>3, <1>6, <1>7
<1> QED BY <1>8, <1>9 DEF r, granted, jobs

\* The end of a worker, planned or not.
LEMMA EndEffects ==
    ASSUME runner \in [Workers -> Process], NEW w \in Workers
    PROVE  LET r == runner[w]
               s == runner'[w] IN
           /\ ForceRequeue(w) =>
                /\ Alone(w) /\ s.leases = r.leases /\ s.news = r.news
                /\ r.state = "stopping" /\ r.loop = "exited"
                /\ s.state = "requeuing" /\ s.loop = r.loop
                /\ s.handing = {e.lease : e \in r.inflight}
                /\ s.inflight = {[e EXCEPT !.renew = FALSE] : e \in r.inflight}
           /\ Close(w) =>
                /\ Alone(w) /\ s.leases = r.leases /\ s.news = {}
                /\ r.state = "requeuing" /\ r.handing = {} /\ s.state = "stopped"
                /\ s.loop = r.loop /\ s.handing = r.handing /\ s.inflight = Running(r)
           /\ Drop(w) =>
                /\ Alone(w) /\ "drop" \in happened' /\ s.news = {} /\ s.inflight = Running(r)
                /\ s.state = r.state /\ r.state \in {"running", "stopping", "requeuing"}
                /\ r.loop \notin {"claiming", "granted", "refused"} => s.loop = r.loop
                /\ s.leases = {} /\ s.handing = {}
           /\ Crash(w) =>
                /\ Alone(w) /\ "crash" \in happened' /\ s.news = {} /\ s.inflight = {}
                /\ s.state = "crashed" /\ s.loop = "off" /\ s.leases = {} /\ s.handing = {}
<1> DEFINE r == runner[w]
           named == {e.lease : e \in r.inflight}
           quiet == {[e EXCEPT !.renew = FALSE] : e \in r.inflight}
           jobs == Running(r)
           t == [r EXCEPT !.state = "requeuing", !.handing = named, !.inflight = quiet]
           freed == r.free + Cardinality(r.inflight) - Cardinality(jobs)
           u == [r EXCEPT !.state = "stopped", !.inflight = jobs, !.free = freed, !.news = {}]
           back == r.free + r.batch + Cardinality(r.inflight) - Cardinality(jobs)
           kept == [r EXCEPT !.inflight = jobs, !.handing = {}, !.news = {},
                             !.batch = 0, !.leases = {}, !.free = back]
           x == IF r.loop \in {"claiming", "granted", "refused"} THEN Park(kept) ELSE kept
           y == [r EXCEPT !.state = "crashed", !.loop = "off", !.batch = 0, !.leases = {},
                          !.free = Concurrency, !.wakePending = FALSE,
                          !.inflight = {}, !.handing = {}, !.news = {}]
<1>1. r \in Process
  OBVIOUS
<1>2. ForceRequeue(w) =>
        runner' = [runner EXCEPT ![w] = t] /\ r.state = "stopping" /\ r.loop = "exited"
  BY DEF ForceRequeue
<1>3. Close(w) => runner' = [runner EXCEPT ![w] = u] /\ r.state = "requeuing" /\ r.handing = {}
  BY DEF Close
<1>4. Drop(w) => /\ runner' = [runner EXCEPT ![w] = x] /\ "drop" \in happened'
                 /\ r.state \in {"running", "stopping", "requeuing"}
  BY DEF Drop, Accident
<1>5. Crash(w) => runner' = [runner EXCEPT ![w] = y] /\ "crash" \in happened'
  BY DEF Crash, Accident
<1> HIDE DEF r, named, quiet, jobs, freed, back
<1>6. /\ t.leases = r.leases /\ t.news = r.news /\ t.state = "requeuing" /\ t.loop = r.loop
      /\ t.handing = named /\ t.inflight = quiet
  BY <1>1 DEF Process
<1>7. /\ u.leases = r.leases /\ u.news = {} /\ u.state = "stopped" /\ u.loop = r.loop
      /\ u.handing = r.handing /\ u.inflight = jobs
  BY <1>1 DEF Process
<1>8. /\ kept.news = {} /\ kept.inflight = jobs /\ kept.state = r.state /\ kept.loop = r.loop
      /\ kept.leases = {} /\ kept.handing = {}
  BY <1>1 DEF Process
<1>9. Park(kept).news = {} /\ Park(kept).inflight = jobs /\ Park(kept).state = r.state
      /\ Park(kept).leases = {} /\ Park(kept).handing = {}
  BY <1>1 DEF Process, Park
<1>10. /\ x.news = {} /\ x.inflight = jobs /\ x.state = r.state
       /\ r.loop \notin {"claiming", "granted", "refused"} => x.loop = r.loop
       /\ x.leases = {} /\ x.handing = {}
  <2> HIDE DEF kept
  <2> QED BY <1>8, <1>9
<1>11. /\ y.news = {} /\ y.inflight = {} /\ y.state = "crashed" /\ y.loop = "off"
       /\ y.leases = {} /\ y.handing = {}
  BY <1>1 DEF Process
<1> HIDE DEF t, u, x, y
<1>12. ASSUME NEW z, runner' = [runner EXCEPT ![w] = z] PROVE Alone(w) /\ runner'[w] = z
  BY <1>12 DEF Alone
<1> QED BY <1>2, <1>3, <1>4, <1>5, <1>6, <1>7, <1>10, <1>11, <1>12 DEF r, named, quiet, jobs

\* The entry of a job gives way to another for the same lease.
Replaced(r, s, e, at) == \E f \in InFlight :
    f.lease = e.lease /\ f.at = at /\ s.inflight = (r.inflight \ {e}) \cup {f}

Answers == {"completed", "waiting", "failed", "stale"}

LEMMA JobEffects ==
    ASSUME runner \in [Workers -> Process], NEW w \in Workers, NEW e \in runner[w].inflight
    PROVE  LET r == runner[w]
               s == runner'[w] IN
           /\ Job(w, e) => /\ Alone(w) /\ SameLoop(r, s) /\ s.leases = r.leases
                           /\ s.handing = r.handing /\ s.news = r.news
           /\ \A ack \in AckSent : HandlerEnds(w, e, ack) =>
                IF r.state = "stopped" THEN s.inflight = r.inflight \ {e} ELSE Replaced(r, s, e, ack)
           /\ AckScript(w, e) => /\ e.at \in AckSent /\ Execute(e.at, e.lease)
                                 /\ Replaced(r, s, e, Answer(e.at, e.lease))
           /\ AckAnswered(w, e) => e.at \in Answers /\ s.inflight = r.inflight \ {e}
           /\ Renew(w, e) => s.inflight = r.inflight \/ Replaced(r, s, e, e.at)
<1> DEFINE r == runner[w]
           s == runner'[w]
           Rest == /\ Alone(w) /\ SameLoop(r, s) /\ s.leases = r.leases
                   /\ s.handing = r.handing /\ s.news = r.news
<1>1. r \in Process /\ e \in InFlight
  BY DEF Process
<1>2. ASSUME NEW f, Moved(w, e, f) PROVE Rest /\ s.inflight = (r.inflight \ {e}) \cup {f}
  <2> DEFINE jobs == (r.inflight \ {e}) \cup {f}
             t == [r EXCEPT !.inflight = jobs]
  <2>1. runner' = [runner EXCEPT ![w] = t]
    BY <1>2 DEF Moved
  <2> HIDE DEF jobs
  <2>2. SameLoop(r, t) /\ t.leases = r.leases /\ t.handing = r.handing /\ t.news = r.news
        /\ t.inflight = jobs
    BY <1>1 DEF Process, SameLoop
  <2> HIDE DEF t
  <2>3. Alone(w) /\ s = t
    BY <2>1 DEF Alone
  <2> QED BY <2>2, <2>3 DEF jobs
<1>3. Settle(w, e) => Rest /\ s.inflight = r.inflight \ {e}
  <2> SUFFICES ASSUME Settle(w, e) PROVE Rest /\ s.inflight = r.inflight \ {e}
    OBVIOUS
  <2> DEFINE jobs == r.inflight \ {e}
             permits == r.free + 1
             t == [r EXCEPT !.inflight = jobs, !.free = permits]
  <2>1. runner' = [runner EXCEPT ![w] = t]
    BY DEF Settle
  <2> HIDE DEF jobs, permits
  <2>2. SameLoop(r, t) /\ t.leases = r.leases /\ t.handing = r.handing /\ t.news = r.news
        /\ t.inflight = jobs
    BY <1>1 DEF Process, SameLoop
  <2> HIDE DEF t
  <2>3. Alone(w) /\ s = t
    BY <2>1 DEF Alone
  <2> QED BY <2>2, <2>3 DEF jobs
<1>4. ASSUME NEW at \in {"handler", "complete", "fail", "completed", "waiting", "failed", "stale"},
             NEW renew \in BOOLEAN, NEW late \in BOOLEAN,
             Moved(w, e, [e EXCEPT !.at = at, !.renew = renew, !.late = late])
      PROVE  Rest /\ Replaced(r, s, e, at)
  <2> DEFINE f == [e EXCEPT !.at = at, !.renew = renew, !.late = late]
  <2>1. f \in InFlight /\ f.lease = e.lease /\ f.at = at
    BY <1>1 DEF InFlight
  <2> HIDE DEF f
  <2> QED BY <1>2, <1>4, <2>1 DEF Replaced, f
<1>5. ASSUME NEW ack \in AckSent, HandlerEnds(w, e, ack)
      PROVE  Rest /\ IF r.state = "stopped" THEN s.inflight = r.inflight \ {e}
                                            ELSE Replaced(r, s, e, ack)
  <2>1. CASE r.state = "stopped"
    BY <1>3, <1>5, <2>1 DEF HandlerEnds
  <2>2. CASE r.state # "stopped"
    <3> DEFINE late == e.lease \in r.handing
    <3>1. Moved(w, e, [e EXCEPT !.at = ack, !.renew = FALSE, !.late = late]) /\ late \in BOOLEAN
      BY <1>5, <2>2 DEF HandlerEnds
    <3> HIDE DEF late
    <3> QED BY <1>4, <2>2, <3>1 DEF AckSent
  <2> QED BY <2>1, <2>2
<1>6. ASSUME AckScript(w, e)
      PROVE  /\ Rest /\ e.at \in AckSent /\ Execute(e.at, e.lease)
             /\ Replaced(r, s, e, Answer(e.at, e.lease))
  <2> DEFINE a == Answer(e.at, e.lease)
             f == [e EXCEPT !.at = a]
  <2>1. e.at \in AckSent /\ Execute(e.at, e.lease) /\ Moved(w, e, f)
    BY <1>6 DEF AckScript
  <2>2. a \in {"completed", "waiting", "failed", "stale"}
    BY DEF Answer
  <2> HIDE DEF a
  <2>3. f \in InFlight /\ f.lease = e.lease /\ f.at = a
    BY <1>1, <2>2 DEF InFlight
  <2> HIDE DEF f
  <2>4. Rest /\ s.inflight = (r.inflight \ {e}) \cup {f}
    BY <1>2, <2>1
  <2>5. Replaced(r, s, e, a)
    BY <2>3, <2>4 DEF Replaced
  <2> QED BY <2>1, <2>4, <2>5 DEF a
<1>7. ASSUME AckAnswered(w, e) PROVE Rest /\ e.at \in Answers /\ s.inflight = r.inflight \ {e}
  BY <1>3, <1>7 DEF AckAnswered, Answers
<1>8. ASSUME Renew(w, e) PROVE Rest /\ (s.inflight = r.inflight \/ Replaced(r, s, e, e.at))
  <2>1. CASE UNCHANGED runner
    BY <2>1 DEF Alone, SameLoop
  <2>2. CASE Moved(w, e, [e EXCEPT !.renew = FALSE])
    <3> DEFINE f == [e EXCEPT !.renew = FALSE]
    <3>1. f \in InFlight /\ f.lease = e.lease /\ f.at = e.at
      BY <1>1 DEF InFlight
    <3> HIDE DEF f
    <3> QED BY <1>2, <2>2, <3>1 DEF Replaced, f
  <2> QED BY <1>8, <2>1, <2>2 DEF Renew
<1>9. Job(w, e) => Rest
  BY <1>5, <1>6, <1>7, <1>8 DEF Job
<1> HIDE DEF Rest
<1>10. \A ack \in AckSent : HandlerEnds(w, e, ack) =>
          IF r.state = "stopped" THEN s.inflight = r.inflight \ {e} ELSE Replaced(r, s, e, ack)
  BY <1>5
<1>11. AckScript(w, e) => /\ e.at \in AckSent /\ Execute(e.at, e.lease)
                          /\ Replaced(r, s, e, Answer(e.at, e.lease))
  BY <1>6
<1> QED BY <1>7, <1>8, <1>9, <1>10, <1>11 DEF Rest

\* A sweep leaves the worker's jobs alone and brings news of those it ended.
LEMMA SweepEffects ==
    ASSUME runner \in [Workers -> Process], NEW w \in Workers, Sweep(w)
    PROVE  LET r == runner[w]
               s == runner'[w] IN
           /\ Alone(w) /\ SameLoop(r, s)
           /\ s.leases = r.leases /\ s.inflight = r.inflight /\ s.handing = r.handing
           /\ s.news = r.news \cup {j \in JobIds : outcome[j] = "none" /\ outcome'[j] = "failed"}
<1> DEFINE r == runner[w]
           more == {j \in JobIds : outcome[j] = "none" /\ outcome'[j] = "failed"}
           all == r.news \cup more
           t == [r EXCEPT !.news = all]
<1>1. r \in Process /\ runner' = [runner EXCEPT ![w] = t]
  BY DEF Sweep
<1> HIDE DEF all
<1>2. SameLoop(r, t) /\ t.leases = r.leases /\ t.inflight = r.inflight /\ t.handing = r.handing
      /\ t.news = all
  BY <1>1 DEF Process, SameLoop
<1> HIDE DEF t
<1>3. Alone(w) /\ runner'[w] = t
  BY <1>1 DEF Alone
<1> QED BY <1>2, <1>3 DEF all

-------------------------------------------------------------------------------
(* No lease is orphaned. *)

Current(l) == Holds(l.job, l.token)
Calm == happened \cap {"drop", "crash"} = {}

\* An answer is behind a lease that is spent.  A worker hands its jobs back
\* when its claim loop has ended, and then holds no current lease but those it
\* is handing back; one that was never started, or has ended, claims nothing.
Careful(r) ==
    /\ \A e \in r.inflight : e.at \in Answers => ~Current(e.lease)
    /\ r.state \in {"idle", "declared"} => r.inflight = {}
    /\ r.state = "requeuing" => r.loop = "exited"
    /\ r.state \in {"stopped", "crashed"} => r.loop \in {"off", "exited"}
    /\ Calm /\ r.state = "requeuing" =>
         \A e \in r.inflight : e.lease \in r.handing \/ ~Current(e.lease)

\* Only a dropped connection and a crash leave a claim to be executed for nobody.
LeaseInv ==
    /\ \A w \in Workers : Careful(runner[w])
    /\ Calm => \A c \in strays : c.op # "claim"

LEMMA CalmBefore ==
    ASSUME SystemNext, Calm'
    PROVE  Calm
BY AccidentsKept DEF Calm

\* Whatever a script does under a lease, the lease is spent by it.
LEMMA ExecuteSpends ==
    ASSUME IInv, NEW l \in Lease, WasIssued(l), NEW op \in {"complete", "fail", "requeue"},
           Execute(op, l)
    PROVE  ~Current(l)'
<1>1. l.job \in JobIds /\ l.token \in Tokens(l.job) /\ TypeOK /\ [Next]_vars
  BY ExecuteIsStep DEF Lease, WasIssued, Tokens, IInv
<1>2. CASE ~Current(l)
  BY <1>1, <1>2, NeverCurrentAgain DEF Current
<1>3. CASE Current(l)
  <2>1. active' = active \ {l.job} /\ UNCHANGED issued
    BY <1>3 DEF Current, Execute, CompleteScript, FailScript, Complete, FailRetry, FailFinal,
                RequeueActive, history
  <2>2. IInv' /\ l.token \in Tokens(l.job)'
    BY <1>1, <2>1, InvNext DEF Tokens
  <2>3. Holds(l.job, l.token)' => l.job \in active'
    BY <1>1, <2>2 DEF Holds, Exists, IInv, JobInv, Recorded, Consistent, Tokens
  <2> QED BY <2>1, <2>3 DEF Current
<1> QED BY <1>2, <1>3

\* A lease of a worker that is spent stays spent.
LEMMA SpentForGood ==
    ASSUME SystemInv, SystemNext, NEW w \in Workers, NEW l \in Held(runner[w]), ~Current(l)
    PROVE  ~Current(l)'
<1>1. IInv /\ [Next]_vars /\ l \in Lease /\ WasIssued(l)
  BY StoreStep DEF SystemInv, Process, AllIssued, Held, InFlight
<1>2. l.job \in JobIds /\ l.token \in Tokens(l.job)
  BY <1>1 DEF Lease, WasIssued, Tokens
<1> QED BY <1>1, <1>2, NeverCurrentAgain DEF Current

\* A worker that takes no step stays careful.
LEMMA CarefulBystander ==
    ASSUME SystemInv, SystemNext, NEW v \in Workers, Careful(runner[v]), runner'[v] = runner[v]
    PROVE  Careful(runner[v])'
<1>1. \A e \in runner[v].inflight : ~Current(e.lease) => ~Current(e.lease)'
  BY SpentForGood DEF Held
<1> QED BY <1>1, CalmBefore DEF Careful

\* A worker whose jobs go on under the leases it had, answered only when the
\* lease is spent, stays careful.
LEMMA CarefulKept ==
    ASSUME SystemInv, SystemNext, NEW w \in Workers, Careful(runner[w]),
           \A f \in runner'[w].inflight : \E e \in runner[w].inflight :
               /\ e.lease = f.lease
               /\ f.at \in Answers => e.at = f.at \/ ~Current(f.lease)',
           runner'[w].state \in {"idle", "declared"} => runner[w].state \in {"idle", "declared"},
           runner'[w].state = "requeuing" => runner'[w].loop = "exited",
           runner'[w].state \in {"stopped", "crashed"} => runner'[w].loop \in {"off", "exited"},
           runner'[w].state = "requeuing" =>
               /\ runner[w].state = "requeuing"
               /\ \A l \in runner[w].handing : l \in runner'[w].handing \/ ~Current(l)'
    PROVE  Careful(runner[w])'
<1> DEFINE r == runner[w]
           s == runner'[w]
<1>1. \A e \in r.inflight : ~Current(e.lease) => ~Current(e.lease)'
  BY SpentForGood DEF Held
<1>2. \A f \in s.inflight : f.at \in Answers => ~Current(f.lease)'
  BY <1>1 DEF Careful
<1>3. Calm' /\ s.state = "requeuing" => \A f \in s.inflight : f.lease \in s.handing \/ ~Current(f.lease)'
  BY <1>1, CalmBefore DEF Careful
<1>4. s.state \in {"idle", "declared"} => s.inflight = {}
  BY DEF Careful
<1> QED BY <1>2, <1>3, <1>4 DEF Careful

LEMMA CarefulJob ==
    ASSUME SystemInv, SystemNext, NEW w \in Workers, Careful(runner[w]),
           NEW e \in runner[w].inflight, Job(w, e)
    PROVE  Careful(runner[w])'
<1> DEFINE r == runner[w]
           s == runner'[w]
<1>0. runner \in [Workers -> Process] /\ e \in InFlight /\ IInv /\ e.lease \in Lease /\ WasIssued(e.lease)
  BY DEF SystemInv, Process, InFlight, AllIssued, Held
<1>1. SameLoop(r, s) /\ s.handing = r.handing
  BY <1>0, JobEffects
<1>2. ASSUME NEW at, Replaced(r, s, e, at), at \in Answers => e.at = at \/ ~Current(e.lease)'
      PROVE  \A f \in s.inflight : \E g \in r.inflight :
               /\ g.lease = f.lease
               /\ f.at \in Answers => g.at = f.at \/ ~Current(f.lease)'
  BY <1>2 DEF Replaced
<1>3. \A f \in s.inflight : \E g \in r.inflight :
        /\ g.lease = f.lease
        /\ f.at \in Answers => g.at = f.at \/ ~Current(f.lease)'
  <2>1. ASSUME NEW ack \in AckSent, HandlerEnds(w, e, ack)
        PROVE  s.inflight = r.inflight \ {e} \/ Replaced(r, s, e, ack)
    BY <1>0, <2>1, JobEffects
  <2>2. \A ack \in AckSent : ack \notin Answers
    BY DEF AckSent, Answers
  <2>3. CASE AckScript(w, e)
    <3>1. e.at \in AckSent /\ Execute(e.at, e.lease) /\ Replaced(r, s, e, Answer(e.at, e.lease))
      BY <1>0, <2>3, JobEffects
    <3>2. ~Current(e.lease)'
      BY <1>0, <3>1, ExecuteSpends DEF AckSent
    <3> QED BY <1>2, <3>1, <3>2
  <2>4. CASE AckAnswered(w, e)
    BY <1>0, <2>4, JobEffects
  <2>5. CASE Renew(w, e)
    <3>1. s.inflight = r.inflight \/ Replaced(r, s, e, e.at)
      BY <1>0, <2>5, JobEffects
    <3> QED BY <1>2, <3>1
  <2> QED BY <1>2, <2>1, <2>2, <2>3, <2>4, <2>5 DEF Job
<1> QED BY <1>1, <1>3, CarefulKept DEF SameLoop, Careful

\* The worker that takes a step stays careful.
LEMMA CarefulStep ==
    ASSUME SystemInv, SystemNext, NEW w \in Workers, Careful(runner[w]), OneWorker(w)
    PROVE  Careful(runner[w])'
<1> DEFINE r == runner[w]
           s == runner'[w]
<1>0. /\ runner \in [Workers -> Process] /\ r \in Process
      /\ r.state \in {"idle", "declared"} => r.loop = "off"
  BY DEF SystemInv, Orderly, PermitsOf
<1>1. ASSUME s.inflight = r.inflight,
             s.state \in {"idle", "declared"} => r.state \in {"idle", "declared"},
             s.state = "requeuing" => s.loop = "exited",
             s.state \in {"stopped", "crashed"} => s.loop \in {"off", "exited"},
             s.state = "requeuing" =>
                 /\ r.state = "requeuing"
                 /\ \A l \in r.handing : l \in s.handing \/ ~Current(l)'
      PROVE  Careful(runner[w])'
  BY <1>1, CarefulKept
<1>2. CASE Boot(w)
  BY <1>0, <1>1, <1>2, PlainEffects DEF SameJobs
<1>3. CASE StartRunner(w)
  BY <1>0, <1>1, <1>3, PlainEffects DEF SameJobs
<1>4. CASE SendClaim(w)
  BY <1>0, <1>1, <1>4, PlainEffects DEF SameJobs
<1>5. CASE LeaveLoop(w)
  BY <1>0, <1>1, <1>5, PlainEffects DEF SameJobs, Careful
<1>6. CASE PollTimeout(w)
  BY <1>0, <1>1, <1>6, PlainEffects DEF SameJobs, Careful
<1>7. CASE SweepAnswered(w)
  BY <1>0, <1>1, <1>7, PlainEffects DEF SameLoop, Careful
<1>8. ASSUME NEW l \in r.handing, RequeueScript(w, l) PROVE Careful(runner[w])'
  <2>1. Execute("requeue", l)
    BY <1>8 DEF RequeueScript
  <2>2. l \in Lease /\ WasIssued(l) /\ IInv
    BY DEF SystemInv, Process, AllIssued, Held
  <2>3. ~Current(l)'
    BY <2>1, <2>2, ExecuteSpends
  <2>4. SameLoop(r, s) /\ s.inflight = r.inflight /\ s.handing = r.handing \ {l}
    BY <1>0, <1>8, PlainEffects
  <2> QED BY <1>1, <2>3, <2>4 DEF SameLoop, Careful
<1>9. CASE Deliver(w)
  BY <1>0, <1>1, <1>9, WakeEffects DEF SameJobs, IsWoken, Careful
<1>10. CASE StopClaiming(w)
  BY <1>0, <1>1, <1>10, WakeEffects DEF SameJobs
<1>11. CASE ClaimRefused(w)
  BY <1>0, <1>1, <1>11, WakeEffects DEF SameJobs, Careful
<1>12. CASE ClaimScript(w)
  BY <1>0, <1>1, <1>12, ClaimEffects DEF Careful
<1>13. CASE Sweep(w)
  BY <1>0, <1>1, <1>13, SweepEffects DEF SameLoop, Careful
<1>14. CASE NoticesLost(w)
  BY <1>14, CarefulBystander DEF NoticesLost
<1>15. CASE ClaimGranted(w)
  <2> DEFINE new == {[lease |-> l, renew |-> TRUE, late |-> FALSE, at |-> "handler"] : l \in r.leases}
  <2>1. s.inflight = r.inflight \cup new /\ s.state = r.state /\ r.loop = "granted"
    BY <1>0, <1>15, ClaimEffects
  <2>2. \A f \in new : f.at = "handler"
    OBVIOUS
  <2> HIDE DEF new
  <2>3. r.state \notin {"idle", "declared", "requeuing", "stopped", "crashed"}
    BY <1>0, <2>1 DEF Careful
  <2>4. \A e \in r.inflight : ~Current(e.lease) => ~Current(e.lease)'
    BY SpentForGood DEF Held
  <2> QED BY <2>1, <2>2, <2>3, <2>4 DEF Careful, Answers
<1>16. CASE ForceRequeue(w)
  <2>1. /\ r.loop = "exited" /\ s.state = "requeuing" /\ s.loop = r.loop
        /\ s.handing = {e.lease : e \in r.inflight}
        /\ s.inflight = {[e EXCEPT !.renew = FALSE] : e \in r.inflight}
    BY <1>0, <1>16, EndEffects
  <2>2. ASSUME NEW f \in s.inflight
        PROVE  \E e \in r.inflight : e.lease = f.lease /\ e.at = f.at
    <3>1. PICK e \in r.inflight : f = [e EXCEPT !.renew = FALSE]
      BY <2>1
    <3>2. e \in InFlight
      BY <1>0 DEF Process
    <3> QED BY <3>1, <3>2 DEF InFlight
  <2>3. \A e \in r.inflight : ~Current(e.lease) => ~Current(e.lease)'
    BY SpentForGood DEF Held
  <2> QED BY <2>1, <2>2, <2>3 DEF Careful
<1>17. CASE Close(w) \/ Drop(w) \/ Crash(w)
  <2>1. Running(r) \subseteq r.inflight /\ \A e \in Running(r) : e.at \notin Answers
    BY DEF Running, Answers
  <2>2. CASE Close(w)
    <3>1. s.state = "stopped" /\ s.loop = r.loop /\ r.state = "requeuing" /\ s.inflight = Running(r)
      BY <1>0, <2>2, EndEffects
    <3> QED BY <2>1, <3>1 DEF Careful
  <2>3. CASE Drop(w)
    <3>1. /\ s.state = r.state /\ r.state \in {"running", "stopping", "requeuing"}
          /\ r.loop \notin {"claiming", "granted", "refused"} => s.loop = r.loop
          /\ s.inflight = Running(r) /\ "drop" \in happened'
      BY <1>0, <2>3, EndEffects
    <3>2. ~Calm'
      BY <3>1 DEF Calm
    <3> QED BY <2>1, <3>1, <3>2 DEF Careful
  <2>4. CASE Crash(w)
    <3>1. s.state = "crashed" /\ s.loop = "off" /\ s.inflight = {}
      BY <1>0, <2>4, EndEffects
    <3> QED BY <3>1 DEF Careful
  <2> QED BY <1>17, <2>2, <2>3, <2>4
<1>18. ASSUME NEW e \in r.inflight, Job(w, e) PROVE Careful(runner[w])'
  BY <1>18, CarefulJob
<1> QED BY <1>2, <1>3, <1>4, <1>5, <1>6, <1>7, <1>8, <1>9, <1>10, <1>11, <1>12, <1>13, <1>14,
           <1>15, <1>16, <1>17, <1>18 DEF OneWorker, Loop

\* Only worker w moves in a step of worker w.
LEMMA OthersStand ==
    ASSUME runner \in [Workers -> Process], NEW w \in Workers, OneWorker(w)
    PROVE  Alone(w)
<1>1. NoticesLost(w) => Alone(w)
  BY DEF NoticesLost, Alone
<1>2. (\E e \in runner[w].inflight : Job(w, e)) => Alone(w)
  BY JobEffects
<1> QED BY <1>1, <1>2, PlainEffects, WakeEffects, ClaimEffects, EndEffects, SweepEffects
        DEF OneWorker, Loop

\* A step is one worker's, or leaves the workers alone.
LEMMA WhoMoves ==
    ASSUME SystemNext
    PROVE  UNCHANGED runner \/ \E w \in Workers : OneWorker(w)
BY DEF SystemNext, OneWorker, Produce, Expire, process, StrayScript, EvictHash, LimitRemoved

\* A lasting worker that goes away tells nobody to claim for it.
LEMMA NoStrayClaims ==
    ASSUME SystemInv, LeaseInv, SystemNext, Calm'
    PROVE  \A c \in strays' : c.op # "claim"
<1>1. runner \in [Workers -> Process] /\ Calm /\ (\A c \in strays : c.op # "claim")
  BY CalmBefore DEF SystemInv, LeaseInv
<1>2. ASSUME NEW w \in Workers, Close(w) PROVE \A c \in strays' : c.op # "claim"
  <2>1. runner[w].state = "requeuing" /\ \E S \in SUBSET Pending(w) : strays' = strays \cup S
    BY <1>2 DEF Close
  <2>2. runner[w].loop # "claiming"
    BY <2>1 DEF LeaseInv, Careful
  <2>3. \A e \in runner[w].inflight : e.at \in AckSent => e.at # "claim"
    BY DEF AckSent
  <2>4. \A c \in Pending(w) : c.op # "claim"
    BY <2>2, <2>3 DEF Pending
  <2> QED BY <1>1, <2>1, <2>4
<1>3. ASSUME NEW w \in Workers, Drop(w) \/ Crash(w) PROVE FALSE
  BY <1>1, <1>3, EndEffects DEF Calm
<1>4. CASE \E c \in strays : StrayScript(c)
  BY <1>1, <1>4 DEF StrayScript
<1>5. CASE Produce \/ (\E j \in JobIds : Expire(j)) \/ EvictHash \/ LimitRemoved
  BY <1>1, <1>5 DEF Produce, Expire, process, EvictHash, LimitRemoved
<1>6. ASSUME NEW w \in Workers, NEW e \in runner[w].inflight, Job(w, e) PROVE UNCHANGED strays
  BY <1>6 DEF Job, HandlerEnds, AckScript, AckAnswered, Renew
<1>7. ASSUME NEW w \in Workers,
             \/ Boot(w) \/ StartRunner(w) \/ Loop(w) \/ Deliver(w) \/ Sweep(w) \/ SweepAnswered(w)
             \/ StopClaiming(w) \/ ForceRequeue(w) \/ (\E l \in runner[w].handing : RequeueScript(w, l))
             \/ NoticesLost(w)
      PROVE  UNCHANGED strays
  BY <1>7 DEF Boot, StartRunner, Loop, SendClaim, LeaveLoop, ClaimScript, ClaimRefused,
              ClaimGranted, PollTimeout, Deliver, Sweep, SweepAnswered, StopClaiming,
              ForceRequeue, RequeueScript, NoticesLost
<1> QED BY <1>1, <1>2, <1>3, <1>4, <1>5, <1>6, <1>7 DEF SystemNext

LEMMA LeaseSteps == SystemInv /\ LeaseInv /\ [SystemNext]_system => LeaseInv'
<1>1. CASE UNCHANGED system
  BY <1>1 DEF system, process, store, LeaseInv, Careful, Current, Calm, Holds, Exists
<1>2. ASSUME SystemInv, LeaseInv, SystemNext PROVE LeaseInv'
  <2>1. ASSUME NEW v \in Workers PROVE Careful(runner[v])'
    <3>1. Careful(runner[v]) /\ runner \in [Workers -> Process]
      BY <1>2 DEF LeaseInv, SystemInv
    <3>2. CASE runner'[v] = runner[v]
      BY <1>2, <3>1, <3>2, CarefulBystander
    <3>3. ASSUME NEW w \in Workers, OneWorker(w) PROVE v = w \/ runner'[v] = runner[v]
      BY <3>1, <3>3, OthersStand DEF Alone
    <3> QED BY <1>2, <3>1, <3>2, <3>3, WhoMoves, CarefulStep
  <2> QED BY <1>2, <2>1, NoStrayClaims DEF LeaseInv
<1> QED BY <1>1, <1>2

LEMMA LeaseInvariant == SystemSpec => []LeaseInv
<1>1. SystemInit => LeaseInv
  BY DEF SystemInit, LeaseInv, Careful
<1> QED BY <1>1, LeaseSteps, SystemInvariant, PTL DEF SystemSpec

\* A worker in charge of a lease, going about its business.
Carries(r, l) ==
    /\ r.state \notin {"stopped", "crashed"}
    /\ l \in r.leases \cup {e.lease : e \in r.inflight}

\* A worker lets go of a lease only when it is spent, or in an accident.
LEMMA CarriesOn ==
    ASSUME SystemInv, LeaseInv, SystemNext, Calm', NEW w \in Workers, OneWorker(w),
           NEW l, Carries(runner[w], l), Current(l)'
    PROVE  Carries(runner'[w], l)
<1> DEFINE r == runner[w]
           s == runner'[w]
<1>0. /\ runner \in [Workers -> Process] /\ r \in Process /\ OnePlaceEach(r) /\ Careful(r) /\ IInv
      /\ r.state \in {"idle", "declared"} => r.loop = "off"
      /\ r.loop # "granted" => r.leases = {}
  BY DEF SystemInv, Orderly, PermitsOf, LeaseInv
<1>1. l \in Lease /\ WasIssued(l) /\ l \in Held(r) /\ Current(l)
  <2>1. l \in Held(r) /\ AllIssued(r)
    BY DEF Carries, Held, SystemInv
  <2>2. l \in Lease
    BY <1>0, <2>1 DEF Held, Process, InFlight
  <2> QED BY <2>1, <2>2, SpentForGood DEF AllIssued
<1>2. ASSUME s.leases = r.leases, s.inflight = r.inflight, s.state \notin {"stopped", "crashed"}
      PROVE  Carries(s, l)
  BY <1>2 DEF Carries
<1>3. r.state \notin {"idle", "stopped", "crashed"}
  BY <1>0 DEF Carries, Careful
<1>4. ~Boot(w)
  BY <1>3 DEF Boot
<1>5. ASSUME StartRunner(w) \/ SendClaim(w) \/ LeaveLoop(w) \/ PollTimeout(w) PROVE Carries(s, l)
  BY <1>0, <1>2, <1>3, <1>5, PlainEffects DEF SameJobs
<1>6. ASSUME SweepAnswered(w) \/ \E k \in r.handing : RequeueScript(w, k) PROVE Carries(s, l)
  BY <1>0, <1>2, <1>3, <1>6, PlainEffects DEF SameLoop
<1>7. ASSUME Deliver(w) \/ StopClaiming(w) \/ ClaimRefused(w) PROVE Carries(s, l)
  BY <1>0, <1>2, <1>3, <1>7, WakeEffects DEF SameJobs
<1>8. ASSUME Sweep(w) PROVE Carries(s, l)
  BY <1>0, <1>2, <1>3, <1>8, SweepEffects DEF SameLoop
<1>9. ASSUME NoticesLost(w) PROVE Carries(s, l)
  BY <1>9 DEF NoticesLost
<1>10. ASSUME ClaimScript(w) PROVE Carries(s, l)
  <2>1. r.loop = "claiming" /\ s.state = r.state /\ s.inflight = r.inflight
    BY <1>0, <1>10, ClaimEffects
  <2>2. r.leases = {}
    BY <1>0, <2>1
  <2> QED BY <1>3, <2>1, <2>2 DEF Carries
<1>11. ASSUME ClaimGranted(w) PROVE Carries(s, l)
  <2> DEFINE Entry(k) == [lease |-> k, renew |-> TRUE, late |-> FALSE, at |-> "handler"]
             new == {Entry(k) : k \in r.leases}
  <2>1. s.state = r.state /\ s.inflight = r.inflight \cup new
    BY <1>0, <1>11, ClaimEffects
  <2>2. \A k \in r.leases : Entry(k) \in new /\ Entry(k).lease = k
    OBVIOUS
  <2> HIDE DEF new, Entry
  <2> QED BY <1>3, <2>1, <2>2 DEF Carries
<1>12. ASSUME ForceRequeue(w) PROVE Carries(s, l)
  <2>1. /\ s.state = "requeuing" /\ s.leases = r.leases
        /\ s.inflight = {[e EXCEPT !.renew = FALSE] : e \in r.inflight}
    BY <1>0, <1>12, EndEffects
  <2>2. ASSUME NEW e \in r.inflight PROVE \E f \in s.inflight : f.lease = e.lease
    <3>1. e \in InFlight
      BY <1>0 DEF Process
    <3>2. [e EXCEPT !.renew = FALSE] \in s.inflight /\ [e EXCEPT !.renew = FALSE].lease = e.lease
      BY <2>1, <3>1 DEF InFlight
    <3> QED BY <3>2
  <2> QED BY <2>1, <2>2 DEF Carries
<1>13. ASSUME Close(w) PROVE FALSE
  <2>1. r.state = "requeuing" /\ r.handing = {}
    BY <1>0, <1>13, EndEffects
  <2>2. r.leases = {} /\ \A e \in r.inflight : ~Current(e.lease)
    BY <1>0, <2>1, CalmBefore DEF Careful
  <2> QED BY <1>1, <2>2 DEF Carries
<1>14. ASSUME Drop(w) \/ Crash(w) PROVE FALSE
  BY <1>0, <1>14, EndEffects DEF Calm
<1>15. ASSUME NEW e \in r.inflight, Job(w, e) PROVE Carries(s, l)
  <2>1. SameLoop(r, s) /\ s.leases = r.leases
    BY <1>0, <1>15, JobEffects
  <2>2. ASSUME NEW at, Replaced(r, s, e, at)
        PROVE  \A g \in r.inflight : \E f \in s.inflight : f.lease = g.lease
    BY <2>2 DEF Replaced
  <2>3. ASSUME s.inflight = r.inflight \/ \E at : Replaced(r, s, e, at) PROVE Carries(s, l)
    BY <1>3, <2>1, <2>2, <2>3 DEF Carries, SameLoop
  <2>4. ASSUME AckAnswered(w, e) PROVE Carries(s, l)
    <3>1. e.at \in Answers /\ s.inflight = r.inflight \ {e}
      BY <1>0, <2>4, JobEffects
    <3>2. e.lease # l
      BY <1>0, <1>1, <3>1 DEF Careful
    <3> QED BY <1>3, <2>1, <3>1, <3>2 DEF Carries, SameLoop
  <2>5. ASSUME NEW ack \in AckSent, HandlerEnds(w, e, ack) PROVE Replaced(r, s, e, ack)
    BY <1>0, <1>3, <2>5, JobEffects
  <2>6. AckScript(w, e) => \E at : Replaced(r, s, e, at)
    BY <1>0, JobEffects
  <2>7. Renew(w, e) => s.inflight = r.inflight \/ Replaced(r, s, e, e.at)
    BY <1>0, JobEffects
  <2> QED BY <1>15, <2>3, <2>4, <2>5, <2>6, <2>7 DEF Job
<1> QED BY <1>4, <1>5, <1>6, <1>7, <1>8, <1>9, <1>10, <1>11, <1>12, <1>13, <1>14, <1>15
        DEF OneWorker, Loop

\* A token is issued by the claim of a worker, waiting for it or gone.
LEMMA TokensByClaim ==
    ASSUME SystemInv, SystemNext
    PROVE  \/ UNCHANGED issued
           \/ \E w \in Workers : ClaimScript(w)
           \/ \E c \in strays : c.op = "claim"
<1>0. TypeOK /\ StraysIssued
  BY DEF SystemInv, IInv
<1>1. ASSUME NEW w \in Workers, NEW e \in runner[w].inflight, Job(w, e) PROVE UNCHANGED issued
  <2>1. e.lease \in Lease /\ WasIssued(e.lease)
    BY DEF SystemInv, Process, InFlight, AllIssued, Held
  <2>2. AckScript(w, e) => UNCHANGED issued
    BY <1>0, <2>1, ExecuteIsStep DEF AckScript, AckSent
  <2> QED BY <1>1, <2>2 DEF Job, HandlerEnds, AckAnswered, Renew, Extend, NoScript, history
<1>2. ASSUME NEW w \in Workers, NEW l \in runner[w].handing, RequeueScript(w, l)
      PROVE  UNCHANGED issued
  <2>1. l \in Lease /\ WasIssued(l)
    BY DEF SystemInv, Process, AllIssued, Held
  <2> QED BY <1>0, <1>2, <2>1, ExecuteIsStep DEF RequeueScript
<1>3. ASSUME NEW c \in strays, StrayScript(c), c.op # "claim" PROVE UNCHANGED issued
  <2>1. c.op \in {"complete", "fail", "requeue"} /\ c.lease \in Lease /\ WasIssued(c.lease)
    BY <1>0, <1>3 DEF StraysIssued, Commands
  <2> QED BY <1>0, <1>3, <2>1, ExecuteIsStep DEF StrayScript
<1>4. ASSUME NEW w \in Workers, Sweep(w) PROVE UNCHANGED issued
  BY <1>4 DEF Sweep, Recover
<1>5. CASE Produce \/ (\E j \in JobIds : Expire(j)) \/ EvictHash \/ LimitRemoved
  BY <1>5 DEF Produce, Enqueue, Expire, LeaseExpires, EvictHash, HashLost, LimitRemoved,
              RemoveLimit, history
<1>6. ASSUME NEW w \in Workers, Boot(w) PROVE UNCHANGED issued
  BY <1>6 DEF Boot, Declare, NoScript, history
<1>7. ASSUME NEW w \in Workers,
             \/ StartRunner(w) \/ SendClaim(w) \/ LeaveLoop(w) \/ ClaimRefused(w)
             \/ ClaimGranted(w) \/ PollTimeout(w) \/ Deliver(w) \/ SweepAnswered(w)
             \/ StopClaiming(w) \/ ForceRequeue(w) \/ Close(w) \/ Drop(w) \/ Crash(w)
             \/ NoticesLost(w)
      PROVE  UNCHANGED issued
  BY <1>7 DEF StartRunner, SendClaim, LeaveLoop, ClaimRefused, ClaimGranted, PollTimeout,
              Deliver, SweepAnswered, StopClaiming, ForceRequeue, Close, Drop, Crash,
              NoticesLost, history
<1> QED BY <1>1, <1>2, <1>3, <1>4, <1>5, <1>6, <1>7 DEF SystemNext, Loop

\* The worker whose claim is granted has every new lease in hand.
LEMMA GrantIsCarried ==
    ASSUME SystemInv, LeaseInv, NEW w \in Workers, ClaimScript(w),
           NEW j \in JobIds, NewLease(j)
    PROVE  Carries(runner'[w], [job |-> j, token |-> hash'[j].token])
<1> DEFINE r == runner[w]
           s == runner'[w]
           n == r.batch
<1>0. runner \in [Workers -> Process] /\ Careful(r) /\ issued \in [JobIds -> Nat]
  BY DEF SystemInv, LeaseInv, IInv, TypeOK
<1>1. r.loop = "claiming" /\ s.state = r.state
  BY <1>0, ClaimEffects
<1>2. BatchSize(n) >= 1
  <2> SUFFICES ASSUME ~(BatchSize(n) >= 1) PROVE FALSE
    OBVIOUS
  <2>1. UNCHANGED issued
    BY <1>0, ClaimEffects DEF history
  <2> QED BY <1>0, <2>1 DEF NewLease
<1>3. Claim(n) /\ s.leases = {[job |-> i, token |-> issued[i] + 1] : i \in Granted(n)}
  BY <1>0, <1>2, ClaimEffects
<1>4. j \in Granted(n)
  BY <1>0, <1>3 DEF Claim, NewLease
<1>5. [job |-> j, token |-> hash'[j].token] \in s.leases
  BY <1>3, <1>4 DEF NewLease
<1>6. s.state \notin {"stopped", "crashed"}
  BY <1>0, <1>1 DEF Careful
<1> QED BY <1>5, <1>6 DEF Carries

\* Shutdown leaves no job behind, however claims, acks and requeues cross: as
\* long as no worker crashes or loses its connection, each active job is in
\* the hands of a live worker under its current token.
THEOREM NoOrphanedLeaseHolds == SystemSpec => []NoOrphanedLease
<1>1. SystemInit => NoOrphanedLease
  BY DEF SystemInit, Init, NoOrphanedLease
<1>2. SystemInv /\ LeaseInv /\ NoOrphanedLease /\ [SystemNext]_system => NoOrphanedLease'
  <2>1. CASE UNCHANGED system
    BY <2>1 DEF system, process, store, NoOrphanedLease, InCharge, Exists
  <2>2. ASSUME SystemInv, LeaseInv, NoOrphanedLease, SystemNext PROVE NoOrphanedLease'
    <3> SUFFICES ASSUME Calm', NEW j \in JobIds, j \in active', Exists(j)',
                        NEW l, l = [job |-> j, token |-> hash'[j].token]
                 PROVE  \E v \in Workers : Carries(runner'[v], l)
      <4>1. active' \subseteq JobIds
        BY <2>2, SystemSteps DEF SystemInv, IInv, TypeOK
      <4> QED BY <4>1 DEF NoOrphanedLease, InCharge, Carries, Calm
    <3>1. IInv /\ [Next]_vars /\ runner \in [Workers -> Process]
      BY <2>2, StoreStep DEF SystemInv
    <3>2. Calm
      BY <2>2, CalmBefore
    <3>3. Current(l)'
      BY DEF Current, Holds
    <3>4. CASE SameLease(j)
      <4>1. PICK v \in Workers : InCharge(v, j)
        BY <2>2, <3>2, <3>4 DEF NoOrphanedLease, Calm, SameLease
      <4>2. Carries(runner[v], l)
        BY <3>4, <4>1 DEF InCharge, Carries, SameLease
      <4>3. CASE runner'[v] = runner[v]
        BY <4>2, <4>3
      <4>4. ASSUME runner'[v] # runner[v] PROVE OneWorker(v)
        <5>1. PICK w \in Workers : OneWorker(w)
          BY <2>2, <4>4, WhoMoves
        <5>2. v = w
          BY <3>1, <4>4, <5>1, OthersStand DEF Alone
        <5> QED BY <5>1, <5>2
      <4>5. OneWorker(v) => Carries(runner'[v], l)
        BY <2>2, <3>3, <4>2, CarriesOn
      <4> QED BY <4>3, <4>4, <4>5
    <3>5. CASE NewLease(j)
      <4>1. ~UNCHANGED issued
        BY <3>1, <3>5 DEF NewLease, IInv, TypeOK
      <4>2. PICK w \in Workers : ClaimScript(w)
        BY <2>2, <3>2, <4>1, TokensByClaim DEF LeaseInv
      <4> QED BY <2>2, <3>5, <4>2, GrantIsCarried
    <3> QED BY <3>1, <3>4, <3>5, ActiveLease
  <2> QED BY <2>1, <2>2
<1> QED BY <1>1, <1>2, SystemInvariant, LeaseInvariant, PTL DEF SystemSpec

-------------------------------------------------------------------------------
(* The end of a job is reported once. *)

Verdicts(r) == {e \in r.inflight : e.at \in {"completed", "failed"}}
Owes(r) == {e.lease.job : e \in Verdicts(r)} \cup r.news

\* A worker owes a report of the runs whose answer was final and of the jobs
\* its sweep ended; nobody else owes one of the same job, and none is given.
Reporting(r) ==
    /\ \A e \in Verdicts(r) : outcome[e.lease.job] = e.at
    /\ \A j \in r.news : outcome[j] = "failed"
    /\ \A j \in Owes(r) : told[j] = <<>>
    /\ \A e, f \in Verdicts(r) : e.lease.job = f.lease.job => e.lease = f.lease
    /\ \A e \in Verdicts(r) : e.lease.job \notin r.news

ToldOnce == \A j \in JobIds : told[j] # <<>> =>
    told[j] = <<told[j][1]>> /\ told[j][1].event = outcome[j] /\ outcome[j] # "none"

ReportInv ==
    /\ \A w \in Workers : Reporting(runner[w])
    /\ \A v, w \in Workers : v # w => Owes(runner[v]) \cap Owes(runner[w]) = {}
    /\ ToldOnce

\* A job with a verdict, or in the news, has an outcome.
LEMMA OwedHasOutcome ==
    ASSUME NEW r \in Process, Reporting(r), NEW j \in Owes(r)
    PROVE  j \in JobIds /\ outcome[j] # "none" /\ told[j] = <<>>
BY DEF Reporting, Owes, Verdicts, Process, InFlight, Lease

OutcomesStay == \A j \in JobIds : outcome[j] # "none" => outcome'[j] = outcome[j]

LEMMA OutcomesFinal ==
    ASSUME IInv, [Next]_vars
    PROVE  OutcomesStay
BY OutcomeSeals DEF OutcomesStay, Sealed, vars, history

\* What a worker owes after a step that brings no verdict and no news.
From(r, s) ==
    /\ \A f \in Verdicts(s) : \E e \in Verdicts(r) : e.lease = f.lease /\ e.at = f.at
    /\ s.news \subseteq r.news

LEMMA FromOwes ==
    ASSUME NEW r, NEW s, From(r, s)
    PROVE  Owes(s) \subseteq Owes(r)
BY DEF From, Owes

LEMMA ReportingKept ==
    ASSUME OutcomesStay, NEW w \in Workers, runner[w] \in Process,
           Reporting(runner[w]), From(runner[w], runner'[w]),
           \A j \in Owes(runner'[w]) : told'[j] = told[j]
    PROVE  Reporting(runner[w])'
<1> DEFINE r == runner[w]
           s == runner'[w]
<1>1. \A j \in Owes(s) : j \in JobIds /\ outcome'[j] = outcome[j] /\ told'[j] = <<>>
  BY FromOwes, OwedHasOutcome DEF OutcomesStay
<1>2. \A f \in Verdicts(s) : f.lease.job \in Owes(s)
  BY DEF Owes
<1>3. s.news \subseteq Owes(s)
  BY DEF Owes
<1>4. \A f \in Verdicts(s) : outcome'[f.lease.job] = f.at
  BY <1>1, <1>2 DEF Reporting, From
<1>5. \A j \in s.news : outcome'[j] = "failed"
  BY <1>1, <1>3 DEF Reporting, From
<1>6. \A e, f \in Verdicts(s) : e.lease.job = f.lease.job => e.lease = f.lease
  BY DEF Reporting, From
<1>7. \A e \in Verdicts(s) : e.lease.job \notin s.news
  BY DEF Reporting, From
<1> QED BY <1>1, <1>4, <1>5, <1>6, <1>7 DEF Reporting

\* Steps that bring neither verdicts nor news, and report nothing.
LEMMA ReportQuiet ==
    ASSUME SystemInv, ReportInv, OutcomesStay, UNCHANGED told,
           \A v \in Workers : From(runner[v], runner'[v])
    PROVE  ReportInv'
<1>1. ASSUME NEW v \in Workers PROVE Reporting(runner[v])'
  BY ReportingKept DEF SystemInv, ReportInv
<1>2. \A v \in Workers : Owes(runner'[v]) \subseteq Owes(runner[v])
  BY FromOwes
<1>3. ToldOnce'
  BY DEF ReportInv, ToldOnce, OutcomesStay
<1> QED BY <1>1, <1>2, <1>3 DEF ReportInv

\* The worker that takes a step comes to owe jobs that had no outcome before.
LEMMA ReportNews ==
    ASSUME SystemInv, ReportInv, OutcomesStay, UNCHANGED told,
           NEW w \in Workers, Alone(w), Reporting(runner[w])',
           \A j \in Owes(runner'[w]) : j \in Owes(runner[w]) \/ (j \in JobIds /\ outcome[j] = "none")
    PROVE  ReportInv'
<1>0. \A v \in Workers : runner[v] \in Process /\ Reporting(runner[v])
  BY DEF SystemInv, ReportInv
<1>1. ASSUME NEW v \in Workers, v # w PROVE Reporting(runner[v])' /\ runner'[v] = runner[v]
  <2>1. runner'[v] = runner[v] /\ From(runner[v], runner'[v])
    BY <1>1 DEF Alone, From
  <2> QED BY <1>0, <2>1, ReportingKept
<1>2. \A v \in Workers : v # w => Owes(runner'[v]) \cap Owes(runner'[w]) = {}
  <2> SUFFICES ASSUME NEW v \in Workers, v # w, NEW j \in Owes(runner[v]), j \in Owes(runner'[w])
               PROVE  FALSE
    BY <1>1
  <2>1. outcome[j] # "none"
    BY <1>0, OwedHasOutcome
  <2> QED BY <2>1 DEF ReportInv
<1>3. ToldOnce'
  BY DEF ReportInv, ToldOnce, OutcomesStay
<1>4. \A u, v \in Workers : u # v => Owes(runner'[u]) \cap Owes(runner'[v]) = {}
  BY <1>1, <1>2 DEF ReportInv
<1> QED BY <1>1, <1>3, <1>4 DEF ReportInv

\* The worker that takes a step reports jobs it owed, and owes them no more.
LEMMA ReportGiven ==
    ASSUME SystemInv, ReportInv, UNCHANGED outcome,
           NEW w \in Workers, Alone(w), From(runner[w], runner'[w]),
           NEW S, S \subseteq Owes(runner[w]), S \cap Owes(runner'[w]) = {},
           NEW event, Tell(S, event), \A j \in S : event.event = outcome[j]
    PROVE  ReportInv'
<1>0. /\ \A v \in Workers : runner[v] \in Process /\ Reporting(runner[v])
      /\ S \subseteq JobIds /\ OutcomesStay
      /\ \A j \in JobIds : j \notin S => told'[j] = told[j]
      /\ \A j \in S : told[j] = <<>> /\ outcome[j] # "none"
  <2>1. \A v \in Workers : runner[v] \in Process /\ Reporting(runner[v])
    BY DEF SystemInv, ReportInv
  <2>2. \A j \in S : j \in JobIds /\ told[j] = <<>> /\ outcome[j] # "none"
    BY <2>1, OwedHasOutcome
  <2> QED BY <2>1, <2>2 DEF Tell, OutcomesStay
<1>1. \A v \in Workers : From(runner[v], runner'[v])
  BY DEF Alone, From
<1>2. \A v \in Workers : Owes(runner'[v]) \subseteq Owes(runner[v])
  BY <1>1, FromOwes
<1>3. \A v \in Workers : S \cap Owes(runner'[v]) = {}
  BY <1>2 DEF ReportInv
<1>4. ASSUME NEW v \in Workers PROVE Reporting(runner[v])'
  <2>1. \A j \in Owes(runner'[v]) : told'[j] = told[j]
    BY <1>0, <1>2, <1>3, OwedHasOutcome
  <2> QED BY <1>0, <1>1, <2>1, ReportingKept
<1>5. ASSUME NEW j \in S
      PROVE  told'[j] = <<told'[j][1]>> /\ told'[j][1] = event
  <2>1. told'[j] = Append(<<>>, event)
    BY <1>0 DEF Tell
  <2> QED BY <2>1
<1>6. ToldOnce'
  BY <1>0, <1>5 DEF ReportInv, ToldOnce
<1> QED BY <1>2, <1>4, <1>6 DEF ReportInv

\* A final answer is given to the run that was current, and is the outcome.
LEMMA AckOutcome ==
    ASSUME IInv, NEW l \in Lease, WasIssued(l), NEW op \in AckSent, Execute(op, l),
           Answer(op, l) \in {"completed", "failed"}
    PROVE  outcome[l.job] = "none" /\ outcome'[l.job] = Answer(op, l)
<1>1. /\ l.job \in JobIds /\ l.token \in Tokens(l.job) /\ TypeOK /\ JobInv(l.job)
      /\ outcome \in [JobIds -> Outcomes]
  BY DEF Lease, WasIssued, Tokens, IInv, TypeOK
<1>2. Holds(l.job, l.token)
  BY DEF Answer
<1>3. outcome[l.job] = "none"
  BY <1>1, <1>2, HolderIsActive
<1>4. CASE op = "complete"
  <2>1. Answer(op, l) = "completed"
    BY <1>2, <1>4 DEF Answer
  <2>2. outcome' = Announced("completed", {l.job})
    BY <1>2, <1>4 DEF Execute, CompleteScript, Complete
  <2> QED BY <1>1, <1>3, <2>1, <2>2 DEF Announced
<1>5. CASE op = "fail"
  <2>1. Answer(op, l) = "failed" /\ ~(hash[l.job].failures + 1 <= hash[l.job].maxRetries)
    BY <1>2, <1>5 DEF Answer
  <2>2. FailScript(l)
    BY <1>2, <1>5 DEF Execute
  <2>3. outcome' = Announced("failed", {l.job})
    BY <2>1, <2>2 DEF FailScript, FailRetry, FailFinal
  <2> QED BY <1>1, <1>3, <2>1, <2>3 DEF Announced
<1> QED BY <1>4, <1>5 DEF AckSent

\* An acknowledgement is executed: its worker may come to owe a report.
LEMMA ReportAck ==
    ASSUME SystemInv, ReportInv, SystemNext, NEW w \in Workers, NEW e \in runner[w].inflight,
           AckScript(w, e)
    PROVE  ReportInv'
<1> DEFINE r == runner[w]
           s == runner'[w]
           j == e.lease.job
           a == Answer(e.at, e.lease)
<1>0. /\ IInv /\ OutcomesStay /\ runner \in [Workers -> Process] /\ r \in Process /\ Reporting(r)
      /\ e \in InFlight /\ e.lease \in Lease /\ WasIssued(e.lease) /\ j \in JobIds
      /\ \A f, g \in r.inflight : f.lease = g.lease => f = g
  BY StoreStep, OutcomesFinal DEF SystemInv, ReportInv, Process, InFlight, Lease, AllIssued, Held,
     Orderly, OnePlaceEach
<1>1. /\ Alone(w) /\ s.news = r.news /\ UNCHANGED told
      /\ e.at \in AckSent /\ Execute(e.at, e.lease)
  BY <1>0, JobEffects DEF Job, AckScript
<1>2. PICK f \in InFlight : f.lease = e.lease /\ f.at = a /\ s.inflight = (r.inflight \ {e}) \cup {f}
  BY <1>0, JobEffects DEF Replaced
<1>3. \A g \in Verdicts(s) : g = f \/ g \in Verdicts(r)
  BY <1>2 DEF Verdicts
<1>4. CASE a \notin {"completed", "failed"}
  <2>1. From(r, s)
    BY <1>1, <1>2, <1>3, <1>4 DEF From, Verdicts
  <2>2. \A v \in Workers : From(runner[v], runner'[v])
    BY <1>1, <2>1 DEF Alone, From
  <2> QED BY <1>0, <1>1, <2>2, ReportQuiet
<1>5. CASE a \in {"completed", "failed"}
  <2>1. outcome[j] = "none" /\ outcome'[j] = a
    BY <1>0, <1>1, <1>5, AckOutcome
  <2>2. j \notin Owes(r)
    BY <1>0, <2>1, OwedHasOutcome
  <2>3. \A g \in Verdicts(r) : g.lease.job # j /\ g.lease.job \in Owes(r)
    BY <2>2 DEF Owes
  <2>4. \A i \in Owes(s) : i = j \/ i \in Owes(r)
    BY <1>1, <1>2, <1>3 DEF Owes
  <2>5. told[j] = <<>>
    BY <1>0, <2>1 DEF ReportInv, ToldOnce
  <2>6. \A i \in Owes(r) : i \in JobIds /\ outcome'[i] = outcome[i] /\ told[i] = <<>>
    BY <1>0, OwedHasOutcome DEF OutcomesStay
  <2>7. \A g \in Verdicts(s) : outcome'[g.lease.job] = g.at
    BY <1>0, <1>2, <1>3, <2>1, <2>3, <2>6 DEF Reporting
  <2>8. \A i \in s.news : outcome'[i] = "failed" /\ i # j
    BY <1>0, <1>1, <2>2, <2>6 DEF Reporting, Owes
  <2>9. \A i \in Owes(s) : told'[i] = <<>>
    BY <1>1, <2>4, <2>5, <2>6
  <2>10. \A g, h \in Verdicts(s) : g.lease.job = h.lease.job => g.lease = h.lease
    BY <1>0, <1>2, <1>3, <2>3 DEF Reporting
  <2>11. \A g \in Verdicts(s) : g.lease.job \notin s.news
    BY <1>0, <1>1, <1>2, <1>3, <2>8 DEF Reporting
  <2>12. Reporting(runner[w])'
    BY <2>7, <2>8, <2>9, <2>10, <2>11 DEF Reporting
  <2> QED BY <1>0, <1>1, <2>1, <2>4, <2>12, ReportNews
<1> QED BY <1>4, <1>5

\* An answer is read: a final one is reported, if the lease was still current.
LEMMA ReportAnswered ==
    ASSUME SystemInv, ReportInv, SystemNext, NEW w \in Workers, NEW e \in runner[w].inflight,
           AckAnswered(w, e)
    PROVE  ReportInv'
<1> DEFINE r == runner[w]
           s == runner'[w]
           j == e.lease.job
<1>0. /\ OutcomesStay /\ runner \in [Workers -> Process] /\ r \in Process /\ Reporting(r)
      /\ \A f, g \in r.inflight : f.lease = g.lease => f = g
  BY StoreStep, OutcomesFinal DEF SystemInv, ReportInv, Orderly, OnePlaceEach
<1>1. /\ Alone(w) /\ s.news = r.news /\ s.inflight = r.inflight \ {e} /\ UNCHANGED outcome
  BY <1>0, JobEffects DEF Job, AckAnswered, history
<1>2. From(r, s)
  BY <1>1 DEF From, Verdicts
<1>3. CASE e.at \notin {"completed", "failed"}
  <2>1. UNCHANGED told
    BY <1>3 DEF AckAnswered
  <2>2. \A v \in Workers : From(runner[v], runner'[v])
    BY <1>1, <1>2 DEF Alone, From
  <2> QED BY <1>0, <2>1, <2>2, ReportQuiet
<1>4. CASE e.at \in {"completed", "failed"}
  <2> DEFINE event == [event |-> e.at, by |-> w, token |-> e.lease.token]
  <2>1. Tell({j}, event) /\ event.event = e.at
    BY <1>4 DEF AckAnswered
  <2> HIDE DEF event
  <2>2. e \in Verdicts(r)
    BY <1>4 DEF Verdicts
  <2>3. {j} \subseteq Owes(r) /\ outcome[j] = e.at
    BY <1>0, <2>2 DEF Owes, Reporting
  <2>4. j \notin s.news
    BY <1>0, <1>1, <2>2 DEF Reporting
  <2>5. ASSUME NEW g \in Verdicts(s) PROVE g.lease.job # j
    <3>1. g \in Verdicts(r) /\ g # e /\ g \in r.inflight
      BY <1>1, <2>5 DEF Verdicts
    <3> QED BY <1>0, <2>2, <3>1 DEF Reporting, Verdicts
  <2>6. {j} \cap Owes(s) = {}
    BY <2>4, <2>5 DEF Owes
  <2>7. \A i \in {j} : event.event = outcome[i]
    BY <2>1, <2>3
  <2> QED BY <1>1, <1>2, <2>1, <2>3, <2>6, <2>7, ReportGiven
<1> QED BY <1>3, <1>4

\* A sweep brings news of jobs it ended; they are reported when it answers.
LEMMA ReportSweep ==
    ASSUME SystemInv, ReportInv, SystemNext, NEW w \in Workers, Sweep(w)
    PROVE  ReportInv'
<1> DEFINE r == runner[w]
           s == runner'[w]
           more == {j \in JobIds : outcome[j] = "none" /\ outcome'[j] = "failed"}
<1>0. /\ OutcomesStay /\ runner \in [Workers -> Process] /\ r \in Process /\ Reporting(r)
      /\ UNCHANGED told
  BY StoreStep, OutcomesFinal DEF SystemInv, ReportInv, Sweep
<1>1. Alone(w) /\ s.inflight = r.inflight /\ s.news = r.news \cup more
  BY <1>0, SweepEffects
<1>2. Verdicts(s) = Verdicts(r)
  BY <1>1 DEF Verdicts
<1>3. \A j \in more : j \in JobIds /\ outcome[j] = "none" /\ outcome'[j] = "failed" /\ told[j] = <<>>
  BY DEF ReportInv, ToldOnce
<1> HIDE DEF more
<1>4. Owes(s) = Owes(r) \cup more
  BY <1>1, <1>2 DEF Owes
<1>5. \A j \in Owes(r) : j \in JobIds /\ outcome[j] # "none" /\ outcome'[j] = outcome[j] /\ told[j] = <<>>
  BY <1>0, OwedHasOutcome DEF OutcomesStay
<1>6. (\A e \in Verdicts(r) : e.lease.job \in Owes(r)) /\ r.news \subseteq Owes(r)
  BY DEF Owes
<1>7. \A e \in Verdicts(s) : outcome'[e.lease.job] = e.at
  BY <1>0, <1>2, <1>5, <1>6 DEF Reporting
<1>8. \A j \in s.news : outcome'[j] = "failed"
  BY <1>0, <1>1, <1>3, <1>5, <1>6 DEF Reporting
<1>9. \A j \in Owes(s) : told'[j] = <<>>
  BY <1>0, <1>3, <1>4, <1>5
<1>10. \A e \in Verdicts(s) : e.lease.job \notin s.news
  BY <1>0, <1>1, <1>2, <1>3, <1>5, <1>6 DEF Reporting
<1>11. Reporting(runner[w])'
  BY <1>0, <1>2, <1>7, <1>8, <1>9, <1>10 DEF Reporting
<1> QED BY <1>0, <1>1, <1>3, <1>4, <1>11, ReportNews

LEMMA ReportSwept ==
    ASSUME SystemInv, ReportInv, SystemNext, NEW w \in Workers, SweepAnswered(w)
    PROVE  ReportInv'
<1> DEFINE r == runner[w]
           s == runner'[w]
           event == [event |-> "failed", by |-> w, token |-> 0]
<1>0. runner \in [Workers -> Process] /\ Reporting(r)
  BY DEF SystemInv, ReportInv
<1>1. Alone(w) /\ s.inflight = r.inflight /\ s.news = {} /\ UNCHANGED outcome /\ Tell(r.news, event)
  BY <1>0, PlainEffects DEF SweepAnswered, history
<1>2. event.event = "failed"
  OBVIOUS
<1> HIDE DEF event
<1>3. Verdicts(s) = Verdicts(r)
  BY <1>1 DEF Verdicts
<1>4. From(r, s)
  BY <1>1, <1>3 DEF From
<1>5. r.news \subseteq Owes(r) /\ r.news \cap Owes(s) = {}
  BY <1>0, <1>1, <1>3 DEF Owes, Reporting
<1>6. \A j \in r.news : event.event = outcome[j]
  BY <1>0, <1>2 DEF Reporting
<1> QED BY <1>1, <1>4, <1>5, <1>6, ReportGiven

LEMMA ReportSteps == SystemInv /\ ReportInv /\ [SystemNext]_system => ReportInv'
<1>1. CASE UNCHANGED system
  BY <1>1 DEF system, process, history, ReportInv, Reporting, ToldOnce, Owes, Verdicts
<1>2. ASSUME SystemInv, ReportInv, SystemNext PROVE ReportInv'
  <2>0. OutcomesStay /\ runner \in [Workers -> Process]
    BY <1>2, StoreStep, OutcomesFinal DEF SystemInv
  <2>1. ASSUME UNCHANGED told, NEW w \in Workers, Alone(w), From(runner[w], runner'[w])
        PROVE  ReportInv'
    <3>1. \A v \in Workers : From(runner[v], runner'[v])
      BY <2>1 DEF Alone, From
    <3> QED BY <1>2, <2>0, <2>1, <3>1, ReportQuiet
  <2>2. ASSUME UNCHANGED <<told, runner>> PROVE ReportInv'
    <3>1. \A v \in Workers : From(runner[v], runner'[v])
      BY <2>2 DEF From
    <3> QED BY <1>2, <2>0, <2>2, <3>1, ReportQuiet
  <2>3. ASSUME \/ Produce \/ (\E j \in JobIds : Expire(j)) \/ (\E c \in strays : StrayScript(c))
               \/ EvictHash \/ LimitRemoved \/ \E w \in Workers : NoticesLost(w)
        PROVE  ReportInv'
    BY <2>2, <2>3 DEF Produce, Expire, process, StrayScript, EvictHash, LimitRemoved, NoticesLost
  <2>4. ASSUME NEW w \in Workers, runner'[w].inflight \subseteq runner[w].inflight,
               runner'[w].news \subseteq runner[w].news
        PROVE  From(runner[w], runner'[w])
    BY <2>4 DEF From, Verdicts
  <2>5. ASSUME NEW w \in Workers,
               \/ Boot(w) \/ StartRunner(w) \/ SendClaim(w) \/ LeaveLoop(w) \/ PollTimeout(w)
               \/ \E l \in runner[w].handing : RequeueScript(w, l)
        PROVE  ReportInv'
    <3>1. UNCHANGED told
      BY <2>5 DEF Boot, StartRunner, SendClaim, LeaveLoop, PollTimeout, RequeueScript
    <3>2. Alone(w) /\ runner'[w].inflight = runner[w].inflight /\ runner'[w].news = runner[w].news
      BY <2>0, <2>5, PlainEffects DEF SameJobs
    <3> QED BY <2>1, <2>4, <3>1, <3>2
  <2>6. ASSUME NEW w \in Workers, Deliver(w) \/ StopClaiming(w) \/ ClaimRefused(w)
        PROVE  ReportInv'
    <3>1. UNCHANGED told
      BY <2>6 DEF Deliver, StopClaiming, ClaimRefused
    <3>2. Alone(w) /\ runner'[w].inflight = runner[w].inflight /\ runner'[w].news = runner[w].news
      BY <2>0, <2>6, WakeEffects DEF SameJobs
    <3> QED BY <2>1, <2>4, <3>1, <3>2
  <2>7. ASSUME NEW w \in Workers, ClaimScript(w) PROVE ReportInv'
    <3>1. UNCHANGED told
      BY <2>7 DEF ClaimScript
    <3>2. Alone(w) /\ runner'[w].inflight = runner[w].inflight /\ runner'[w].news = runner[w].news
      BY <2>0, <2>7, ClaimEffects
    <3> QED BY <2>1, <2>4, <3>1, <3>2
  <2>8. ASSUME NEW w \in Workers, ClaimGranted(w) PROVE ReportInv'
    <3> DEFINE new == {[lease |-> l, renew |-> TRUE, late |-> FALSE, at |-> "handler"] :
                          l \in runner[w].leases}
    <3>1. UNCHANGED told
      BY <2>8 DEF ClaimGranted
    <3>2. /\ Alone(w) /\ runner'[w].news = runner[w].news
          /\ runner'[w].inflight = runner[w].inflight \cup new
      BY <2>0, <2>8, ClaimEffects
    <3>3. \A f \in new : f.at = "handler"
      OBVIOUS
    <3> HIDE DEF new
    <3>4. From(runner[w], runner'[w])
      BY <3>2, <3>3 DEF From, Verdicts
    <3> QED BY <2>1, <3>1, <3>2, <3>4
  <2>9. ASSUME NEW w \in Workers, ForceRequeue(w) PROVE ReportInv'
    <3>1. UNCHANGED told
      BY <2>9 DEF ForceRequeue
    <3>2. /\ Alone(w) /\ runner'[w].news = runner[w].news
          /\ runner'[w].inflight = {[e EXCEPT !.renew = FALSE] : e \in runner[w].inflight}
      BY <2>0, <2>9, EndEffects
    <3>3. ASSUME NEW f \in Verdicts(runner'[w])
          PROVE  \E e \in Verdicts(runner[w]) : e.lease = f.lease /\ e.at = f.at
      <4>1. PICK e \in runner[w].inflight : f = [e EXCEPT !.renew = FALSE]
        BY <3>2 DEF Verdicts
      <4>2. e \in InFlight
        BY <2>0 DEF Process
      <4>3. e.lease = f.lease /\ e.at = f.at
        BY <4>1, <4>2 DEF InFlight
      <4> QED BY <4>1, <4>3 DEF Verdicts
    <3>4. From(runner[w], runner'[w])
      BY <3>2, <3>3 DEF From
    <3> QED BY <2>1, <3>1, <3>2, <3>4
  <2>10. ASSUME NEW w \in Workers, Close(w) \/ Drop(w) \/ Crash(w) PROVE ReportInv'
    <3>1. UNCHANGED told
      BY <2>10 DEF Close, Drop, Crash
    <3>2. /\ Alone(w) /\ runner'[w].news = {}
          /\ runner'[w].inflight = {} \/ runner'[w].inflight = Running(runner[w])
      BY <2>0, <2>10, EndEffects
    <3>3. Running(runner[w]) \subseteq runner[w].inflight
      BY DEF Running
    <3> QED BY <2>1, <2>4, <3>1, <3>2, <3>3
  <2>11. ASSUME NEW w \in Workers, NEW e \in runner[w].inflight, Job(w, e) PROVE ReportInv'
    <3>1. CASE AckScript(w, e)
      BY <1>2, <3>1, ReportAck
    <3>2. CASE AckAnswered(w, e)
      BY <1>2, <3>2, ReportAnswered
    <3>3. Alone(w) /\ runner'[w].news = runner[w].news
      BY <2>0, <2>11, JobEffects
    <3>4. ASSUME NEW at, Replaced(runner[w], runner'[w], e, at), at \in AckSent \cup {e.at}
          PROVE  From(runner[w], runner'[w])
      BY <3>3, <3>4 DEF From, Replaced, Verdicts, AckSent
    <3>5. ASSUME NEW ack \in AckSent, HandlerEnds(w, e, ack) PROVE ReportInv'
      <4>1. UNCHANGED told
        BY <3>5 DEF HandlerEnds
      <4>2. runner'[w].inflight = runner[w].inflight \ {e} \/ Replaced(runner[w], runner'[w], e, ack)
        BY <2>0, <3>5, JobEffects
      <4> QED BY <2>1, <2>4, <3>3, <3>4, <4>1, <4>2
    <3>6. CASE Renew(w, e)
      <4>1. UNCHANGED told
        BY <3>6 DEF Renew
      <4>2. runner'[w].inflight = runner[w].inflight \/ Replaced(runner[w], runner'[w], e, e.at)
        BY <2>0, <3>6, JobEffects
      <4> QED BY <2>1, <2>4, <3>3, <3>4, <4>1, <4>2
    <3> QED BY <2>11, <3>1, <3>2, <3>5, <3>6 DEF Job
  <2>12. ASSUME NEW w \in Workers, Sweep(w) \/ SweepAnswered(w) PROVE ReportInv'
    BY <1>2, <2>12, ReportSweep, ReportSwept
  <2> QED BY <1>2, <2>3, <2>5, <2>6, <2>7, <2>8, <2>9, <2>10, <2>11, <2>12 DEF SystemNext, Loop
<1> QED BY <1>1, <1>2

\* Of all the workers that run a job or sweep it, at most one reports its end,
\* once, and it reports the job's outcome.
THEOREM EndReportedOnceHolds == SystemSpec => []EndReportedOnce
<1>1. SystemInit => ReportInv
  <2> SUFFICES ASSUME SystemInit PROVE ReportInv
    OBVIOUS
  <2>1. \A w \in Workers : runner[w].inflight = {} /\ runner[w].news = {}
    BY DEF SystemInit
  <2>2. \A w \in Workers : Verdicts(runner[w]) = {} /\ Owes(runner[w]) = {}
    BY <2>1 DEF Verdicts, Owes
  <2>3. ToldOnce
    BY DEF SystemInit, ToldOnce
  <2> QED BY <2>1, <2>2, <2>3 DEF ReportInv, Reporting
<1>2. ReportInv => EndReportedOnce
  <2> SUFFICES ASSUME ReportInv, NEW j \in JobIds
               PROVE  /\ Len(told[j]) <= 1
                      /\ \A i \in DOMAIN told[j] : told[j][i].event = outcome[j]
    BY DEF EndReportedOnce
  <2>1. CASE told[j] = <<>>
    BY <2>1
  <2>2. CASE told[j] # <<>>
    <3> DEFINE event == told[j][1]
    <3>1. told[j] = <<event>> /\ event.event = outcome[j]
      BY <2>2 DEF ReportInv, ToldOnce
    <3> HIDE DEF event
    <3> QED BY <3>1
  <2> QED BY <2>1, <2>2
<1> QED BY <1>1, <1>2, ReportSteps, SystemInvariant, PTL DEF SystemSpec

-------------------------------------------------------------------------------
(* No wake-up is lost. *)

\* A loop that will wait for a notification unless one has come.
Dozing(r) == r.state = "running" /\ (r.loop = "parked" \/ (r.loop = "refused" /\ ~r.wakePending))

\* While nothing is lost, there is no limit yet or it is the one every worker
\* is configured with, and a dozing worker beside a job is about to be told.
WakeInv == Lossless =>
    /\ conc = NoLimit \/ \A w \in Workers : runner[w].limit = conc
    /\ \A w \in Workers : Claimable /\ Dozing(runner[w]) => notices[w] > 0

LEMMA LosslessBefore ==
    ASSUME SystemInv, SystemNext, Lossless'
    PROVE  Lossless /\ "remove" \notin happened' /\ "drop" \notin happened' /\ "notice" \notin happened'
<1>1. happened \subseteq happened'
  BY AccidentsKept
<1>2. \A w \in Workers : runner'[w].limit = runner[w].limit
  BY LimitsStay DEF SystemInv
<1> QED BY <1>1, <1>2 DEF Lossless

\* A claim comes back empty only if there was nothing to claim.
LEMMA RefusedWhenFull ==
    ASSUME TypeOK, NEW count \in 1..ClaimBatch, ~(BatchSize(count) >= 1)
    PROVE  ~Claimable
<1>1. /\ Cardinality(active) \in Nat /\ conc.limit \in Nat /\ count \in Nat /\ count >= 1
      /\ Len(waiting) \in Nat /\ (waiting # <<>> => Len(waiting) >= 1)
  BY JobSetSize, BatchAssumption DEF TypeOK
<1>2. CASE Limited
  <2>1. Free(count) = conc.limit - Cardinality(active)
    BY <1>2 DEF Free
  <2> QED BY <1>1, <1>2, <2>1 DEF BatchSize, Smaller, Claimable
<1>3. CASE ~Limited
  <2>1. Free(count) = count
    BY <1>3 DEF Free
  <2> QED BY <1>1, <1>3, <2>1 DEF BatchSize, Smaller, Claimable
<1> QED BY <1>2, <1>3

\* A worker takes to dozing only after a claim that found nothing.
LEMMA DozesOff ==
    ASSUME SystemInv, SystemNext, "drop" \notin happened', NEW w \in Workers, OneWorker(w),
           Dozing(runner'[w])
    PROVE  /\ runner[w].state = "running"
           /\ Dozing(runner[w]) \/ (~Claimable /\ UNCHANGED store)
           /\ ~Boot(w) /\ ~Deliver(w) /\ ~Close(w) /\ ~Crash(w)
<1> DEFINE r == runner[w]
           s == runner'[w]
<1>0. runner \in [Workers -> Process] /\ r \in Process /\ TypeOK
  BY DEF SystemInv, IInv
<1>1. ~Boot(w) /\ ~StartRunner(w) /\ ~SendClaim(w) /\ ~LeaveLoop(w) /\ ~PollTimeout(w)
  BY <1>0, PlainEffects DEF Dozing
<1>2. ~Deliver(w) /\ ~StopClaiming(w)
  BY <1>0, WakeEffects DEF Dozing, IsWoken
<1>3. ~ClaimGranted(w)
  BY <1>0, ClaimEffects DEF Dozing
<1>4. ~ForceRequeue(w) /\ ~Close(w) /\ ~Drop(w) /\ ~Crash(w)
  BY <1>0, EndEffects DEF Dozing
<1>5. CASE SameLoop(r, s)
  BY <1>1, <1>2, <1>4, <1>5 DEF SameLoop, Dozing
<1>6. CASE ClaimRefused(w)
  BY <1>0, <1>1, <1>2, <1>4, <1>6, WakeEffects DEF Dozing
<1>7. CASE ClaimScript(w)
  <2>1. r.loop = "claiming" /\ s.state = r.state
    BY <1>0, <1>7, ClaimEffects
  <2>2. ~(BatchSize(r.batch) >= 1) /\ UNCHANGED store
    BY <1>0, <1>7, ClaimEffects DEF Dozing
  <2>3. r.batch \in 1..ClaimBatch
    BY <2>1, BatchAssumption DEF SystemInv, Orderly, PermitsOf, Process
  <2> QED BY <1>0, <1>1, <1>2, <1>4, <2>1, <2>2, <2>3, RefusedWhenFull DEF Dozing
<1>8. SweepAnswered(w) \/ (\E l \in r.handing : RequeueScript(w, l)) => SameLoop(r, s)
  BY <1>0, PlainEffects
<1>9. Sweep(w) => SameLoop(r, s)
  BY <1>0, SweepEffects
<1>10. (\E e \in r.inflight : Job(w, e)) => SameLoop(r, s)
  BY <1>0, JobEffects
<1>11. NoticesLost(w) => SameLoop(r, s)
  BY DEF NoticesLost, SameLoop
<1> QED BY <1>1, <1>2, <1>3, <1>4, <1>5, <1>6, <1>7, <1>8, <1>9, <1>10, <1>11 DEF OneWorker, Loop

\* What is published on its way to every worker; what a step does not deliver
\* or lose stays on its way.
LEMMA NoticeSteps ==
    ASSUME SystemInv, SystemNext
    PROVE  /\ Notify \/ ~published' \/ UNCHANGED store
           /\ \/ Notify \/ UNCHANGED notices
              \/ \E w \in Workers : /\ Deliver(w) \/ Close(w) \/ Crash(w) \/ NoticesLost(w)
                                    /\ \A v \in Workers : v # w => notices'[v] = notices[v]
<1> DEFINE Heard == Notify \/ ~published' \/ UNCHANGED store
           Kept == \/ Notify \/ UNCHANGED notices
                   \/ \E w \in Workers : /\ Deliver(w) \/ Close(w) \/ Crash(w) \/ NoticesLost(w)
                                         /\ \A v \in Workers : v # w => notices'[v] = notices[v]
<1>1. ASSUME NEW op, NEW l, Execute(op, l) PROVE Notify \/ UNCHANGED <<store, notices>>
  BY <1>1 DEF Execute, NoScript
<1>2. CASE Produce \/ EvictHash \/ LimitRemoved
  BY <1>2 DEF Produce, EvictHash, HashLost, LimitRemoved, RemoveLimit
<1>3. ASSUME NEW j \in JobIds, Expire(j) PROVE Heard /\ Kept
  BY <1>3 DEF Expire, LeaseExpires, process
<1>4. ASSUME NEW c \in strays, StrayScript(c) PROVE Heard /\ Kept
  BY <1>1, <1>4 DEF StrayScript, Claim, NoScript
<1>5. ASSUME NEW w \in Workers, NEW e \in runner[w].inflight, Job(w, e) PROVE Heard /\ Kept
  BY <1>1, <1>5 DEF Job, HandlerEnds, AckScript, AckAnswered, Renew, Extend, NoScript
<1>6. ASSUME NEW w \in Workers, NEW l \in runner[w].handing, RequeueScript(w, l) PROVE Heard /\ Kept
  BY <1>1, <1>6 DEF RequeueScript
<1>7. ASSUME NEW w \in Workers, Boot(w) \/ ClaimScript(w) \/ Sweep(w) PROVE Heard /\ Kept
  BY <1>7 DEF Boot, Declare, NoScript, ClaimScript, Claim, Sweep
<1>8. ASSUME NEW w \in Workers, Deliver(w) \/ Close(w) \/ Crash(w) \/ NoticesLost(w)
      PROVE  Heard /\ Kept
  <2>1. UNCHANGED store
    BY <1>8 DEF Deliver, Close, Crash, NoticesLost
  <2>2. \A v \in Workers : v # w => notices'[v] = notices[v]
    BY <1>8 DEF SystemInv, Deliver, Close, Crash, NoticesLost
  <2> QED BY <1>8, <2>1, <2>2
<1>9. ASSUME NEW w \in Workers,
             \/ StartRunner(w) \/ SendClaim(w) \/ LeaveLoop(w) \/ ClaimRefused(w)
             \/ ClaimGranted(w) \/ PollTimeout(w) \/ SweepAnswered(w)
             \/ StopClaiming(w) \/ ForceRequeue(w) \/ Drop(w)
      PROVE  Heard /\ Kept
  BY <1>9 DEF StartRunner, SendClaim, LeaveLoop, ClaimRefused, ClaimGranted, PollTimeout,
              SweepAnswered, StopClaiming, ForceRequeue, Drop
<1> HIDE DEF Heard, Kept
<1>10. Heard /\ Kept
  <2>1. Produce \/ EvictHash \/ LimitRemoved => Heard /\ Kept
    BY <1>2 DEF Heard, Kept
  <2> QED BY <2>1, <1>3, <1>4, <1>5, <1>6, <1>7, <1>8, <1>9 DEF SystemNext, Loop
<1> QED BY <1>10 DEF Heard, Kept

\* The stored limit is absent or everybody's, and stays so.
LEMMA LimitAgreed ==
    ASSUME SystemInv, WakeInv, SystemNext, Lossless'
    PROVE  /\ conc' = NoLimit \/ \A w \in Workers : runner'[w].limit = conc'
           /\ conc' # conc => conc = NoLimit /\ \E w \in Workers : Boot(w)
<1>1. Lossless /\ "remove" \notin happened'
  BY LosslessBefore
<1>2. runner \in [Workers -> Process]
  BY DEF SystemInv
<1>3. \A w \in Workers : runner'[w].limit = runner[w].limit
  BY <1>2, LimitsStay
<1>4. CASE conc' = conc
  BY <1>1, <1>3, <1>4 DEF WakeInv
<1>5. CASE conc' # conc
  <2>1. PICK w \in Workers : Boot(w) /\ runner[w].limit.version > conc.version
    BY <1>1, <1>5, LimitByBoot
  <2> DEFINE l == runner[w].limit
  <2>2. conc' = [limit |-> l.limit, version |-> l.version]
    BY <2>1 DEF Boot, Declare
  <2>3. l \in [limit : Limits, version : Versions] \cup {NoLimit}
    BY <1>2 DEF Process
  <2>4. conc' = l
    <3> HIDE DEF l
    <3> QED BY <2>2, <2>3 DEF NoLimit
  <2>5. \A v \in Workers : runner[v].limit = l
    BY <1>1 DEF Lossless
  <2>6. l.version \in Nat
    <3> HIDE DEF l
    <3>1. CASE l \in [limit : Limits, version : Versions]
      BY <3>1, LimitAssumption
    <3>2. CASE l = NoLimit
      BY <3>2 DEF NoLimit
    <3> QED BY <2>3, <3>1, <3>2
  <2>7. conc # l
    BY <2>1, <2>6
  <2>8. conc = NoLimit
    BY <1>1, <2>5, <2>7 DEF WakeInv
  <2> QED BY <1>3, <2>1, <2>4, <2>5, <2>8
<1> QED BY <1>4, <1>5

LEMMA WakeSteps == SystemInv /\ WakeInv /\ [SystemNext]_system => WakeInv'
<1>1. CASE UNCHANGED system
  BY <1>1 DEF system, process, store, WakeInv, Lossless, Claimable, Limited, Dozing
<1>2. ASSUME SystemInv, WakeInv, SystemNext PROVE WakeInv'
  <2> SUFFICES ASSUME Lossless', NEW v \in Workers, Claimable', Dozing(runner'[v])
               PROVE  notices'[v] > 0
    <3>1. Lossless' => (conc' = NoLimit \/ \A w \in Workers : runner'[w].limit = conc')
      BY <1>2, LimitAgreed
    <3> QED BY <3>1 DEF WakeInv, Dozing
  <2>1. /\ Lossless /\ "drop" \notin happened' /\ "notice" \notin happened'
        /\ runner \in [Workers -> Process] /\ IInv /\ TypeOK
        /\ notices \in [Workers -> 0..MaxNotices] /\ MaxNotices \in Nat \ {0}
    BY <1>2, LosslessBefore, WorkerAssumption DEF SystemInv, IInv
  <2>2. \/ runner'[v] = runner[v]
        \/ OneWorker(v) /\ ~Boot(v)
    BY <1>2, <2>1, WhoMoves, OthersStand, DozesOff DEF Alone
  <2>3. /\ runner[v].state = "running"
        /\ Dozing(runner[v]) \/ (~Claimable /\ UNCHANGED store)
        /\ runner'[v] = runner[v] \/ (~Deliver(v) /\ ~Close(v) /\ ~Crash(v))
    BY <1>2, <2>1, <2>2, DozesOff DEF Dozing
  <2>4. UNCHANGED store => (Claimable <=> Claimable')
    BY DEF store, Claimable, Limited
  <2>5. Dozing(runner[v])
    BY <2>3, <2>4
  <2>6. Notify \/ ~published' \/ UNCHANGED store
    BY <1>2, NoticeSteps
  <2>7. CASE Notify /\ published'
    <3>1. notices'[v] = Smaller(notices[v] + 1, MaxNotices)
      BY <2>3, <2>7 DEF Notify, Subscribed
    <3> QED BY <2>1, <3>1 DEF Smaller
  <2>8. CASE Claimable
    <3>1. notices[v] > 0
      BY <1>2, <2>1, <2>5, <2>8 DEF WakeInv
    <3>2. CASE Notify /\ ~published'
      BY <3>1, <3>2 DEF Notify
    <3>3. CASE UNCHANGED notices
      BY <3>1, <3>3
    <3>4. ASSUME NEW w \in Workers, Deliver(w) \/ Close(w) \/ Crash(w) \/ NoticesLost(w),
                 \A x \in Workers : x # w => notices'[x] = notices[x]
          PROVE  notices'[v] > 0
      <4>1. ~NoticesLost(w)
        BY <2>1 DEF NoticesLost, Accident
      <4>2. w # v
        <5> SUFFICES ASSUME w = v PROVE FALSE
          OBVIOUS
        <5>1. OneWorker(v)
          BY <3>4 DEF OneWorker
        <5> QED BY <1>2, <2>1, <3>4, <4>1, <5>1, DozesOff
      <4> QED BY <3>1, <3>4, <4>2
    <3> QED BY <1>2, <2>7, <3>2, <3>3, <3>4, NoticeSteps
  <2>9. CASE ~Claimable
    <3>1. CASE conc' = conc
      <4>1. [Next]_vars /\ ~UNCHANGED vars
        BY <1>2, <2>4, <2>9, SystemSteps DEF vars
      <4>2. published'
        BY <2>1, <2>9, <3>1, <4>1, CapacityPublishes
      <4> QED BY <2>4, <2>6, <2>7, <2>9, <4>2
    <3>2. CASE conc' # conc
      <4>1. PICK w \in Workers : conc = NoLimit /\ Boot(w)
        BY <1>2, <3>2, LimitAgreed
      <4>2. UNCHANGED waiting
        BY <4>1 DEF Boot, Declare, NoScript, store
      <4>3. Claimable
        BY <4>1, <4>2 DEF Claimable, Limited, NoLimit
      <4> QED BY <2>9, <4>3
    <3> QED BY <3>1, <3>2
  <2> QED BY <2>8, <2>9
<1> QED BY <1>1, <1>2

\* A worker waits for a notification beside a job it could claim only while one
\* is on its way to it: what makes a job claimable is announced, the loop
\* remembers what comes between its empty claim and its wait, and a limit that
\* boots later than a waiting worker can only take permits away.
THEOREM NoLostWakeupHolds == SystemSpec => []NoLostWakeup
<1>1. SystemInit => WakeInv
  BY DEF SystemInit, Init, WakeInv, Claimable
<1>2. WakeInv => NoLostWakeup
  BY DEF WakeInv, NoLostWakeup, Dozing, Parked
<1> QED BY <1>1, <1>2, WakeSteps, SystemInvariant, PTL DEF SystemSpec

===============================================================================
