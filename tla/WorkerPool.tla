------------------------------ MODULE WorkerPool ------------------------------
(***************************************************************************)
(* The worker pool: start() and shutdown(), called at any time, over a     *)
(* command and a subscriber connection that outlive any outage once they   *)
(* are established, with one runner per queue.  A step is what the pool or *)
(* a runner does between two awaits, or an event of a socket.  Repeated    *)
(* calls of start() and shutdown() share the first one's promise and       *)
(* change nothing, so each is made once here.  What the scripts do to the  *)
(* jobs is WorkerRunner's; this module is about who waits for whom.        *)
(***************************************************************************)
EXTENDS Naturals, FiniteSets

CONSTANTS
    Queues,         \* the queues of the pool's definitions, in no given order
    Limited,        \* those whose definition declares a global limit
    Modes,          \* the ways shutdown() may be called
    Attempts        \* INITIAL_CONNECT_ATTEMPTS

ASSUME PoolAssumption ==
    /\ Queues # {} /\ IsFiniteSet(Queues)
    /\ Limited \subseteq Queues
    /\ Modes \subseteq {"force", "drain", "timeout"}    \* "timeout": drain with one
    /\ Attempts \in Nat

VARIABLES
    reachable,  \* Redis accepts connections and answers
    socket,     \* the two connections
    retries,    \* failed attempts of each one's first connect
    degraded,   \* notificationsDegraded
    alarms,     \* history: degraded events without their restored event
    command,    \* what has become of each command that is awaited
    state,      \* the pool's state
    starting,   \* the await doStart is at
    todo,       \* queues still to declare, then to subscribe
    declared,   \* history: limits declared without conflict
    subscribed, \* channels subscribed so far
    stopping,   \* the await doShutdown is at
    mode,       \* of the first shutdown()
    awaited,    \* runs that the drain waits for
    result,     \* of the shutdown
    loop,       \* each runner's claim loop
    job         \* each runner's run: it has one permit

network == <<reachable, socket, retries, degraded, alarms>>
startup == <<starting, todo, declared, subscribed>>
shutdown == <<stopping, mode, awaited, result>>
runners == <<loop, job>>
pool == <<network, command, state, startup, shutdown, runners>>

Connections == {"command", "subscriber"}
Commands == {"declare", "subscribe", "claim", "ack", "requeue"} \X Queues \cup {<<"unsubscribe", "all">>}
Unsubscribe == <<"unsubscribe", "all">>
Over(c) == IF c[1] \in {"subscribe", "unsubscribe"} THEN "subscriber" ELSE "command"

PoolInit ==
    /\ reachable \in BOOLEAN
    /\ socket = [s \in Connections |-> "none"]
    /\ retries = [s \in Connections |-> 0]
    /\ degraded = FALSE
    /\ alarms = 0
    /\ command = [c \in Commands |-> "none"]
    /\ state = "idle"
    /\ starting = "off"
    /\ todo = {}
    /\ declared = {}
    /\ subscribed = {}
    /\ stopping = "off"
    /\ mode = "force"
    /\ awaited = {}
    /\ result = [timedOut |-> FALSE, unfinished |-> 0]
    /\ loop = [q \in Queues |-> "off"]
    /\ job = [q \in Queues |-> "none"]

InFlight == {q \in Queues : job[q] # "none"}

-------------------------------------------------------------------------------
(* Commands: written at once or kept by the offline queue until the socket is *)
(* back; a drop rejects the written ones, a disconnect all of them.           *)

Issued(c) == CASE socket[Over(c)] = "up" -> "written"
               [] socket[Over(c)] = "gone" -> "rejected"
               [] OTHER -> "queued"

\* The answers to some commands are read and others are sent.
Exchange(read, sent) ==
    command' = [c \in Commands |-> IF c \in sent THEN Issued(c)
                                   ELSE IF c \in read THEN "none" ELSE command[c]]

Answered(c) == command[c] = "written" /\ reachable
Rejected(c) == command[c] = "rejected"
Settled(c) == Answered(c) \/ Rejected(c)

-------------------------------------------------------------------------------
(* The sockets *)

\* Mutants: an event per retry; the flag is never reset.
DegradeEachRetry(s) ==
    /\ degraded' = (degraded \/ s = "subscriber")
    /\ alarms' = IF s = "subscriber" /\ alarms < 2 THEN alarms + 1 ELSE alarms
Degrade(s) ==
    /\ degraded' = (degraded \/ s = "subscriber")
    /\ alarms' = IF s = "subscriber" /\ ~ degraded THEN alarms + 1 ELSE alarms

\* Mutant: the restored event leaves the flag set.
RestoreOnce(s) ==
    /\ UNCHANGED degraded
    /\ alarms' = IF s = "subscriber" /\ degraded /\ alarms > 0 THEN alarms - 1 ELSE alarms
Restore(s) ==
    /\ degraded' = (degraded /\ s # "subscriber")
    /\ alarms' = IF s = "subscriber" /\ degraded THEN alarms - 1 ELSE alarms

\* "ready": what the offline queue kept is written.
SocketOpens(s) ==
    /\ socket[s] \in {"dialing", "redialing"}
    /\ reachable
    /\ socket' = [socket EXCEPT ![s] = "up"]
    /\ command' = [c \in Commands |-> IF Over(c) = s /\ command[c] = "queued"
                                      THEN "written" ELSE command[c]]
    /\ Restore(s)
    /\ UNCHANGED <<reachable, retries, state, startup, shutdown, runners>>

\* reconnectStrategy: the first connect has some attempts, a reconnect any number.
AttemptFails(s) ==
    /\ socket[s] \in {"dialing", "redialing"}
    /\ ~ reachable
    /\ \/ /\ socket[s] = "redialing" \/ retries[s] < Attempts
          /\ retries' = [retries EXCEPT ![s] = IF socket[s] = "dialing" THEN @ + 1 ELSE @]
          /\ Degrade(s)
          /\ UNCHANGED socket
       \/ /\ socket[s] = "dialing" /\ retries[s] = Attempts
          /\ socket' = [socket EXCEPT ![s] = "gone"]
          /\ UNCHANGED <<retries, degraded, alarms>>
    /\ UNCHANGED <<reachable, command, state, startup, shutdown, runners>>

Drop(s) ==
    /\ socket[s] = "up"
    /\ socket' = [socket EXCEPT ![s] = "redialing"]
    /\ command' = [c \in Commands |-> IF Over(c) = s /\ command[c] = "written"
                                      THEN "rejected" ELSE command[c]]
    /\ Degrade(s)
    /\ UNCHANGED <<reachable, retries, state, startup, shutdown, runners>>

NetworkChanges ==
    /\ reachable' = ~ reachable
    /\ UNCHANGED <<socket, retries, degraded, alarms, command, state, startup, shutdown, runners>>

\* The sockets are closed, which rejects what is still awaited over them.
CloseConnections ==
    /\ socket' = [s \in Connections |-> IF socket[s] = "none" THEN "none" ELSE "gone"]
    /\ command' = [c \in Commands |->
                     IF c[1] \in {"declare", "subscribe", "unsubscribe"} THEN "none"
                     ELSE IF command[c] = "none" THEN "none" ELSE "rejected"]
    /\ state' = "stopped"
    /\ UNCHANGED <<reachable, retries, degraded, alarms>>

-------------------------------------------------------------------------------
(* start() *)

Open(s) ==
    /\ socket' = [socket EXCEPT ![s] = "dialing"]
    /\ UNCHANGED <<reachable, retries, degraded, alarms>>

Start ==
    /\ state = "idle"
    /\ state' = "starting"
    /\ starting' = "command"
    /\ Open("command")
    /\ UNCHANGED <<command, todo, declared, subscribed, shutdown, runners>>

\* Mutant: a failed start leaves its connections open.
StartFailsOpen(read) ==
    /\ starting' = "off"
    /\ state' = "stopped"
    /\ Exchange(read, {})
    /\ UNCHANGED <<network, todo, declared, subscribed, shutdown, runners>>

\* The catch of doStart.
StartFails(read) ==
    /\ starting' = IF subscribed = {} THEN "off" ELSE "close"
    /\ IF subscribed = {} THEN CloseConnections
       ELSE Exchange(read, {Unsubscribe}) /\ UNCHANGED <<network, state>>
    /\ UNCHANGED <<todo, declared, subscribed, shutdown, runners>>

CommandConnected ==
    /\ starting = "command"
    /\ socket["command"] # "dialing"
    /\ IF socket["command"] = "gone" THEN StartFails({})
       ELSE /\ starting' = "subscriber"
            /\ Open("subscriber")
            /\ UNCHANGED <<command, state, todo, declared, subscribed, shutdown, runners>>

\* The next of some queues is declared or subscribed.
AskNext(what, queues, read) ==
    \E q \in queues :
        /\ Exchange(read, {<<what, q>>})
        /\ starting' = what
        /\ todo' = queues \ {q}

DeclareNext(queues, read) ==
    \/ AskNext("declare", queues, read)
    \/ queues = {} /\ AskNext("subscribe", Queues, read)

SubscriberConnected ==
    /\ starting = "subscriber"
    /\ socket["subscriber"] # "dialing"
    /\ IF socket["subscriber"] = "gone" THEN StartFails({})
       ELSE /\ DeclareNext(Limited, {})
            /\ UNCHANGED <<network, state, declared, subscribed, shutdown, runners>>

\* Mutant: only an answer ends the await, a rejection is not caught.
LimitDeclaredUncaught(q) ==
    LET c == <<"declare", q>> IN
    /\ starting = "declare"
    /\ Answered(c)
    /\ DeclareNext(todo, {c})
    /\ declared' = declared \cup {q}
    /\ UNCHANGED <<network, state, subscribed, shutdown, runners>>

\* Mutant: a conflict does not end the start.
LimitDeclaredAnyway(q) ==
    LET c == <<"declare", q>> IN
    /\ starting = "declare"
    /\ Settled(c)
    /\ DeclareNext(todo, {c})
    /\ declared' \in {declared, declared \cup {q}}
    /\ UNCHANGED <<network, state, subscribed, shutdown, runners>>

\* An error or a conflict ends the start, whichever queue it is.
LimitDeclared(q) ==
    LET c == <<"declare", q>> IN
    /\ starting = "declare"
    /\ Settled(c)
    /\ \/ StartFails({c})
       \/ /\ Answered(c)
          /\ DeclareNext(todo, {c})
          /\ declared' = declared \cup {q}
          /\ UNCHANGED <<network, state, subscribed, shutdown, runners>>

RunnersStart ==
    /\ state' = "running"
    /\ starting' = "off"
    /\ loop' = [q \in Queues |-> "permit"]

ChannelSubscribed(q) ==
    LET c == <<"subscribe", q>> IN
    /\ starting = "subscribe"
    /\ Settled(c)
    /\ IF Rejected(c) THEN StartFails({c})
       ELSE /\ subscribed' = subscribed \cup {q}
            /\ \/ AskNext("subscribe", todo, {c}) /\ UNCHANGED <<state, loop>>
               \/ todo = {} /\ RunnersStart /\ Exchange({c}, {}) /\ UNCHANGED todo
            /\ UNCHANGED <<network, declared, shutdown, job>>

StartClosed ==
    /\ starting = "close"
    /\ Settled(Unsubscribe)
    /\ starting' = "off"
    /\ CloseConnections
    /\ UNCHANGED <<todo, declared, subscribed, shutdown, runners>>

-------------------------------------------------------------------------------
(* A runner *)

Claim(q) ==
    /\ loop[q] = "permit"
    /\ job[q] = "none"
    /\ loop' = [loop EXCEPT ![q] = "claiming"]
    /\ Exchange({}, {<<"claim", q>>})
    /\ UNCHANGED <<network, state, startup, shutdown, job>>

\* Mutant: a loop told to stop goes on after its claim.
NextRoundAnyway(there) == there
\* The loop goes on only in a running pool.
NextRound(there) == IF state = "running" THEN there ELSE "exited"

ClaimSettled(q) ==
    LET c == <<"claim", q>> IN
    /\ loop[q] = "claiming"
    /\ \/ /\ Answered(c)
          /\ job' = [job EXCEPT ![q] = "handling"]
          /\ loop' = [loop EXCEPT ![q] = NextRound("permit")]
       \/ /\ Settled(c)    \* nothing to run, or an error
          /\ loop' = [loop EXCEPT ![q] = NextRound("parked")]
          /\ UNCHANGED job
    /\ Exchange({c}, {})
    /\ UNCHANGED <<network, state, startup, shutdown>>

Wake(q) ==
    /\ loop[q] = "parked"
    /\ loop' = [loop EXCEPT ![q] = "permit"]
    /\ UNCHANGED <<network, command, state, startup, shutdown, job>>

HandlerEnds(q) ==
    /\ job[q] = "handling"
    /\ job' = [job EXCEPT ![q] = "acking"]
    /\ Exchange({}, {<<"ack", q>>})
    /\ UNCHANGED <<network, state, startup, shutdown, loop>>

AckSettled(q) ==
    /\ job[q] = "acking"
    /\ Settled(<<"ack", q>>)
    /\ job' = [job EXCEPT ![q] = "none"]
    /\ awaited' = awaited \ {q}
    /\ Exchange({<<"ack", q>>}, {})
    /\ UNCHANGED <<network, state, startup, stopping, mode, result, loop>>

-------------------------------------------------------------------------------
(* shutdown() *)

Shutdown ==
    /\ stopping = "off"
    /\ mode' \in Modes
    /\ \/ state = "idle" /\ state' = "stopped" /\ stopping' = "done"
       \/ state # "idle" /\ stopping' = "start" /\ UNCHANGED state
    /\ UNCHANGED <<network, command, startup, awaited, result, runners>>

\* Mutant: doShutdown does not wait for a start under way.
StartOverUnawaited == TRUE
StartOver == starting = "off"

\* The start is over: every loop is told to stop, and those that are not in the
\* middle of a claim do so at once.
StopClaiming ==
    /\ stopping = "start"
    /\ StartOver
    /\ \/ /\ state = "running"
          /\ state' = "stopping"
          /\ stopping' = "claims"
          /\ loop' = [q \in Queues |-> IF loop[q] = "claiming" THEN "claiming" ELSE "exited"]
       \/ /\ state # "running"
          /\ state' = "stopped"
          /\ stopping' = "done"
          /\ UNCHANGED loop
    /\ UNCHANGED <<network, command, startup, mode, awaited, result, job>>

\* forceRequeueInflight of every runner, then unsubscribe.
Requeue ==
    /\ result' = [result EXCEPT !.unfinished = Cardinality(InFlight)]
    /\ IF InFlight = {} THEN stopping' = "close" /\ Exchange({}, {Unsubscribe})
       ELSE stopping' = "requeue" /\ Exchange({}, {"requeue"} \X InFlight)

\* Mutant: the drain does not wait for the claims under way.
LoopsExitedOne == \E q \in Queues : loop[q] = "exited"
LoopsExited == \A q \in Queues : loop[q] = "exited"

ClaimsStopped ==
    /\ stopping = "claims"
    /\ LoopsExited
    /\ \/ /\ mode = "force"
          /\ Requeue
          /\ UNCHANGED awaited
       \/ /\ mode # "force"
          /\ stopping' = "drain"
          /\ awaited' = InFlight
          /\ UNCHANGED <<command, result>>
    /\ UNCHANGED <<network, state, startup, mode, runners>>

Drained ==
    /\ stopping = "drain"
    /\ awaited = {}
    /\ Requeue
    /\ UNCHANGED <<network, state, startup, mode, awaited, runners>>

DrainTimesOut ==
    /\ stopping = "drain"
    /\ mode = "timeout"
    /\ awaited # {}
    /\ stopping' = "requeue"
    /\ result' = [timedOut |-> TRUE, unfinished |-> Cardinality(InFlight)]
    /\ Exchange({}, {"requeue"} \X InFlight)
    /\ UNCHANGED <<network, state, startup, mode, awaited, runners>>

Requeued(q) ==
    LET c == <<"requeue", q>> IN
    /\ stopping = "requeue"
    /\ Settled(c)
    /\ IF \A d \in {"requeue"} \X Queues : d = c \/ command[d] = "none"
       THEN stopping' = "close" /\ Exchange({c}, {Unsubscribe})
       ELSE Exchange({c}, {}) /\ UNCHANGED stopping
    /\ UNCHANGED <<network, state, startup, mode, awaited, result, runners>>

Closed ==
    /\ stopping = "close"
    /\ Settled(Unsubscribe)
    /\ stopping' = "done"
    /\ CloseConnections
    /\ UNCHANGED <<startup, mode, awaited, result, runners>>

-------------------------------------------------------------------------------

Starts == \/ Start \/ CommandConnected \/ SubscriberConnected \/ StartClosed
          \/ \E q \in Queues : LimitDeclared(q) \/ ChannelSubscribed(q)
Stops == \/ Shutdown \/ StopClaiming \/ ClaimsStopped \/ Drained \/ DrainTimesOut \/ Closed
         \/ \E q \in Queues : Requeued(q)
Runs == \E q \in Queues : \/ Claim(q) \/ ClaimSettled(q) \/ Wake(q)
                          \/ HandlerEnds(q) \/ AckSettled(q)
Sockets == \/ \E s \in Connections : SocketOpens(s) \/ AttemptFails(s) \/ Drop(s)
           \/ NetworkChanges

PoolNext == Starts \/ Stops \/ Runs \/ Sockets

PoolSpec == PoolInit /\ [][PoolNext]_pool

\* Attempts end, a cut network closes its sockets, awaits that can go on do, and a
\* timeout comes; handlers need not return, start() and shutdown() need not be called.
PoolFairness ==
    /\ \A s \in Connections : /\ WF_pool(SocketOpens(s) \/ AttemptFails(s))
                              /\ WF_pool(~ reachable /\ Drop(s))
    /\ WF_pool(CommandConnected) /\ WF_pool(SubscriberConnected) /\ WF_pool(StartClosed)
    /\ WF_pool(StopClaiming) /\ WF_pool(ClaimsStopped) /\ WF_pool(Drained)
    /\ WF_pool(DrainTimesOut) /\ WF_pool(Closed)
    /\ \A q \in Queues :
        /\ WF_pool(LimitDeclared(q)) /\ WF_pool(ChannelSubscribed(q)) /\ WF_pool(Requeued(q))
        /\ WF_pool(ClaimSettled(q)) /\ WF_pool(AckSettled(q))

FairPoolSpec == PoolSpec /\ PoolFairness

-------------------------------------------------------------------------------

\* Types.
PoolTypeOK ==
    /\ reachable \in BOOLEAN
    /\ socket \in [Connections -> {"none", "dialing", "up", "redialing", "gone"}]
    /\ retries \in [Connections -> 0..Attempts]
    /\ degraded \in BOOLEAN
    /\ alarms \in 0..1
    /\ command \in [Commands -> {"none", "queued", "written", "rejected"}]
    /\ state \in {"idle", "starting", "running", "stopping", "stopped"}
    /\ starting \in {"off", "command", "subscriber", "declare", "subscribe", "close"}
    /\ todo \subseteq Queues
    /\ declared \subseteq Limited
    /\ subscribed \subseteq Queues
    /\ stopping \in {"off", "start", "claims", "drain", "requeue", "close", "done"}
    /\ mode \in Modes \cup {"force"}
    /\ awaited \subseteq Queues
    /\ result \in [timedOut : BOOLEAN, unfinished : 0..Cardinality(Queues)]
    /\ loop \in [Queues -> {"off", "permit", "claiming", "parked", "exited"}]
    /\ job \in [Queues -> {"none", "handling", "acking"}]

\* No runner consumes unless the whole pool came up: every limit is declared
\* without conflict and every channel subscribed, whichever step failed or was cut
\* off; a conflict on the last queue must leave nothing running on the first.
NoHalfStart ==
    (\E q \in Queues : loop[q] # "off") =>
        declared = Limited /\ subscribed = Queues

\* A stopped pool owns no connection and no running claim loop, however start and
\* shutdown crossed and wherever the start failed.
NothingLeftRunning ==
    state = "stopped" =>
        /\ \A s \in Connections : socket[s] \in {"none", "gone"}
        /\ \A q \in Queues : loop[q] \in {"off", "exited"}

\* A pool runs as a whole or not at all, whichever calls cross and fail.
AllOrNothing == NoHalfStart /\ NothingLeftRunning

\* A drain that did not time out left nothing unfinished: it waits for the runs of
\* the claims that were under way when it was asked for, in every queue.
DrainComplete == mode # "force" /\ ~ result.timedOut => result.unfinished = 0

\* Degraded and restored alternate, once per outage of the subscriber however many
\* attempts it takes: one alarm stands while it redials, none while it is up.
AlarmExact ==
    /\ PoolTypeOK
    /\ socket["subscriber"] = "redialing" => alarms = 1
    /\ socket["subscriber"] = "up" => alarms = 0

\* Once Redis stays reachable a start ends, in either way.
StartSettles == <>[]reachable => (state = "starting" ~> state # "starting")

\* Once Redis stays reachable a shutdown ends, although handlers never return,
\* unless it is a drain without a timeout; that one ends when they do.
ShutdownSettles ==
    /\ <>[]reachable => (stopping # "off" /\ mode # "drain" ~> stopping = "done")
    /\ <>[]reachable /\ (\A q \in Queues : []<>(job[q] # "handling"))
         => (stopping # "off" ~> stopping = "done")

\* No call of the pool outlives an outage that ends.
CallsSettle == StartSettles /\ ShutdownSettles

\* redis-connection.ts:88-89 says: the initial connect fails fast "so
\* `WorkerPool.start()` reports an unreachable Redis instead of hanging".
StartReportsUnreachable == <>[]~reachable => (state = "starting" ~> state # "starting")

===============================================================================
