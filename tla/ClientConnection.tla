--------------------------- MODULE ClientConnection ---------------------------
(***************************************************************************)
(* The producer: connect(), enqueue() and disconnect() calls of one        *)
(* QueueClient, in any order and overlapping, over a raw Redis client that *)
(* dials, drops and redials by itself.  A step is what one call does       *)
(* between two awaits, or one event of a socket or of Redis; the calls     *)
(* that await the same connect go on together.                             *)
(***************************************************************************)
EXTENDS Naturals, FiniteSets

CONSTANTS
    Connects,       \* the calls of connect(), each made at most once
    Enqueues,       \* the calls of enqueue()
    Disconnects,    \* the calls of disconnect()
    None,
    Attempts        \* INITIAL_CONNECT_ATTEMPTS

Calls == Connects \cup Enqueues \cup Disconnects

ASSUME ClientAssumption ==
    /\ Attempts \in Nat
    /\ IsFiniteSet(Calls)
    /\ None \notin Calls
    /\ Connects \cap Enqueues = {} /\ Disconnects \cap (Connects \cup Enqueues) = {}

VARIABLES
    reachable,  \* Redis accepts connections
    closed,     \* disconnect() was called
    client,     \* the raw client kept, named by the call that made it, or None
    promise,    \* the call whose connect is under way and shared, or None
    raw,        \* the raw client each call made, if it made one
    stage,      \* where each call is
    result,     \* how each call ended
    executed    \* how often Redis executed the script of each enqueue

producer == <<reachable, closed, client, promise, raw, stage, result, executed>>

\* "dialing" is also a raw client between the attempts of a reconnect.
Raw == [socket : {"none", "dialing", "up", "gone"}, ever : BOOLEAN, retries : 0..Attempts]

\* "sent", "answered", "refused": on the wire, then executed or rejected by Redis;
\* "stray": given up by the client, though Redis may still execute it.
Stages == {"new", "dialing", "opened", "joined", "connected", "sent", "answered", "refused",
           "stray", "done"}
Results == {"none", "ok", "conn", "closed", "rejected"}
OnTheWire == {"sent", "answered", "refused"}

ClientInit ==
    /\ reachable \in BOOLEAN
    /\ closed = FALSE
    /\ client = None
    /\ promise = None
    /\ raw = [c \in Calls |-> [socket |-> "none", ever |-> FALSE, retries |-> 0]]
    /\ stage = [c \in Calls |-> "new"]
    /\ result = [c \in Calls |-> "none"]
    /\ executed = [c \in Calls |-> 0]

\* These calls go to a stage, or end with a result.
Reach(calls, there) ==
    /\ stage' = [c \in Calls |-> IF c \in calls THEN there ELSE stage[c]]
    /\ UNCHANGED result
End(calls, outcome) ==
    /\ stage' = [c \in Calls |-> IF c \in calls THEN "done" ELSE stage[c]]
    /\ result' = [c \in Calls |-> IF c \in calls THEN outcome ELSE result[c]]

\* A call and those that share its connect.
Party(c) == {c} \cup {d \in Calls : stage[d] = "joined"}

-------------------------------------------------------------------------------
(* connect(), on its own or as the first await of enqueue() *)

Dial(c) ==
    /\ promise' = c
    /\ raw' = [raw EXCEPT ![c].socket = "dialing"]
    /\ Reach({c}, "dialing")

\* Mutant: every call that finds no client dials for itself.
ConnectUnshared(c) ==
    /\ c \in Connects \cup Enqueues
    /\ stage[c] = "new"
    /\ ~ closed /\ client = None /\ Dial(c)
    /\ UNCHANGED <<reachable, closed, client, executed>>

Connect(c) ==
    /\ c \in Connects \cup Enqueues
    /\ stage[c] = "new"
    /\ \/ closed /\ End({c}, "closed") /\ UNCHANGED <<promise, raw>>
       \/ ~ closed /\ client # None /\ Reach({c}, "connected") /\ UNCHANGED <<promise, raw>>
       \/ ~ closed /\ client = None /\ promise # None /\ Reach({c}, "joined") /\ UNCHANGED <<promise, raw>>
       \/ ~ closed /\ client = None /\ promise = None /\ Dial(c)
    /\ UNCHANGED <<reachable, closed, client, executed>>

\* Mutant: doConnect does not look at closed once the socket is open.
ConnectedUnchecked(c) ==
    /\ stage[c] = "opened"
    /\ client' = c
    /\ Reach(Party(c), "connected")
    /\ promise' = None
    /\ UNCHANGED <<reachable, closed, raw, executed>>

\* The end of doConnect: a disconnect() that came meanwhile saw no client, so the
\* raw one is closed here.
Connected(c) ==
    /\ stage[c] = "opened"
    /\ \/ /\ closed
          /\ raw' = [raw EXCEPT ![c].socket = "gone"]
          /\ End(Party(c), "closed")
          /\ UNCHANGED client
       \/ /\ ~ closed
          /\ client' = c
          /\ Reach(Party(c), "connected")
          /\ UNCHANGED raw
    /\ promise' = None
    /\ UNCHANGED <<reachable, closed, executed>>

ConnectEnds(c) ==
    /\ c \in Connects
    /\ stage[c] = "connected"
    /\ End({c}, "ok")
    /\ UNCHANGED <<reachable, closed, client, promise, raw, executed>>

-------------------------------------------------------------------------------
(* enqueue() after its connect *)

\* Mutant: with the offline queue on, a command waits for the socket.
SendBuffered(c) ==
    /\ c \in Enqueues
    /\ stage[c] = "connected"
    /\ \/ closed /\ End({c}, "closed")
       \/ ~ closed /\ raw[client].socket = "up" /\ Reach({c}, "sent")
    /\ UNCHANGED <<reachable, closed, client, promise, raw, executed>>

\* The client getter, then the command: written, or rejected at once.
Send(c) ==
    /\ c \in Enqueues
    /\ stage[c] = "connected"
    /\ \/ closed /\ End({c}, "closed")
       \/ ~ closed /\ raw[client].socket # "up" /\ End({c}, "conn")
       \/ ~ closed /\ raw[client].socket = "up" /\ Reach({c}, "sent")
    /\ UNCHANGED <<reachable, closed, client, promise, raw, executed>>

\* Redis executes the script, or answers with an error.
Script(c) ==
    /\ stage[c] = "sent"
    /\ reachable
    /\ \/ Reach({c}, "answered") /\ executed' = [executed EXCEPT ![c] = @ + 1]
       \/ Reach({c}, "refused") /\ UNCHANGED executed
    /\ UNCHANGED <<reachable, closed, client, promise, raw>>

Answered(c) ==
    /\ \/ stage[c] = "answered" /\ End({c}, "ok")
       \/ stage[c] = "refused" /\ End({c}, "rejected")
    /\ UNCHANGED <<reachable, closed, client, promise, raw, executed>>

\* Mutant: commands cut off by a drop are written again on the next socket.
LoseResent(ending) ==
    /\ stage' = [c \in Calls |-> IF c \in ending THEN "done"
                                 ELSE IF stage[c] \in OnTheWire THEN "sent" ELSE stage[c]]
    /\ result' = [c \in Calls |-> IF c \in ending THEN "ok" ELSE result[c]]

\* Mutant: a command cut off by a drop is reported as refused by Redis.
LoseAsRefused(ending) ==
    /\ stage' = [c \in Calls |-> IF stage[c] = "sent" THEN "stray"
                                 ELSE IF stage[c] \in OnTheWire \/ c \in ending THEN "done" ELSE stage[c]]
    /\ result' = [c \in Calls |-> IF stage[c] \in OnTheWire THEN "rejected"
                                  ELSE IF c \in ending THEN "ok" ELSE result[c]]

\* The socket is lost: the commands on the wire are rejected, though Redis may have
\* executed them, or will.  The call that closed the socket, if any, ends.
Lose(ending) ==
    /\ stage' = [c \in Calls |-> IF stage[c] = "sent" THEN "stray"
                                 ELSE IF stage[c] \in OnTheWire \/ c \in ending THEN "done" ELSE stage[c]]
    /\ result' = [c \in Calls |-> IF stage[c] \in OnTheWire THEN "conn"
                                  ELSE IF c \in ending THEN "ok" ELSE result[c]]

\* Redis finds the command of a lost socket in its buffer, or never saw it.
Stray(c) ==
    /\ stage[c] = "stray"
    /\ \/ executed' = [executed EXCEPT ![c] = @ + 1]
       \/ UNCHANGED executed
    /\ Reach({c}, "done")
    /\ UNCHANGED <<reachable, closed, client, promise, raw>>

-------------------------------------------------------------------------------
(* disconnect() *)

Disconnect(c) ==
    /\ c \in Disconnects
    /\ stage[c] = "new"
    /\ closed' = TRUE
    /\ client' = None
    /\ IF client = None
       THEN End({c}, "ok") /\ UNCHANGED raw
       ELSE Lose({c}) /\ raw' = [raw EXCEPT ![client].socket = "gone"]
    /\ UNCHANGED <<reachable, promise, executed>>

-------------------------------------------------------------------------------
(* The raw client and the network *)

\* Mutant: the attempts are counted after the first connection too.
GivesUpAlways(c) == raw[c].retries >= Attempts

\* reconnectStrategy
GivesUp(c) == ~ raw[c].ever /\ raw[c].retries >= Attempts

AttemptOpens(c) ==
    /\ raw[c].socket = "dialing"
    /\ reachable
    /\ raw' = [raw EXCEPT ![c].socket = "up", ![c].ever = TRUE, ![c].retries = 0]
    /\ IF stage[c] = "dialing" THEN Reach({c}, "opened") ELSE UNCHANGED <<stage, result>>
    /\ UNCHANGED <<reachable, closed, client, promise, executed>>

AttemptFails(c) ==
    /\ raw[c].socket = "dialing"
    /\ ~ reachable
    /\ ~ GivesUp(c)
    /\ raw' = [raw EXCEPT ![c].retries = IF @ < Attempts THEN @ + 1 ELSE @]
    /\ UNCHANGED <<reachable, closed, client, promise, stage, result, executed>>

LastAttemptFails(c) ==
    /\ raw[c].socket = "dialing"
    /\ ~ reachable
    /\ GivesUp(c)
    /\ raw' = [raw EXCEPT ![c].socket = "gone"]
    /\ IF stage[c] = "dialing"
       THEN End(Party(c), "conn") /\ promise' = None
       ELSE UNCHANGED <<stage, result, promise>>
    /\ UNCHANGED <<reachable, closed, client, executed>>

Drop(c) ==
    /\ raw[c].socket = "up"
    /\ raw' = [raw EXCEPT ![c].socket = "dialing"]
    /\ Lose({})
    /\ UNCHANGED <<reachable, closed, client, promise, executed>>

NetworkChanges ==
    /\ reachable' = ~ reachable
    /\ UNCHANGED <<closed, client, promise, raw, stage, result, executed>>

ClientNext ==
    \/ \E c \in Calls :
        \/ Connect(c) \/ Connected(c) \/ ConnectEnds(c)
        \/ Send(c) \/ Script(c) \/ Answered(c) \/ Stray(c)
        \/ Disconnect(c)
        \/ AttemptOpens(c) \/ AttemptFails(c) \/ LastAttemptFails(c) \/ Drop(c)
    \/ NetworkChanges

ClientSpec == ClientInit /\ [][ClientNext]_producer

\* Redis answers a command, or the network that hides it cuts the socket.
Served(c) ==
    \/ Script(c)
    \/ stage[c] = "sent" /\ ~ reachable /\ \E d \in Calls : Drop(d)

\* Attempts end, promises that settled resume their callers, and commands are served;
\* calls, changes of the network and drops of an idle socket may never come.
ClientFairness == \A c \in Calls :
    /\ WF_producer(AttemptOpens(c) \/ AttemptFails(c) \/ LastAttemptFails(c))
    /\ WF_producer(Connected(c)) /\ WF_producer(ConnectEnds(c)) /\ WF_producer(Send(c))
    /\ WF_producer(Served(c)) /\ WF_producer(Answered(c)) /\ WF_producer(Stray(c))
FairClientSpec == ClientSpec /\ ClientFairness

-------------------------------------------------------------------------------

Live == {c \in Calls : raw[c].socket \in {"dialing", "up"}}

\* Types.
ClientTypeOK ==
    /\ reachable \in BOOLEAN
    /\ closed \in BOOLEAN
    /\ client \in Calls \cup {None}
    /\ promise \in Calls \cup {None}
    /\ raw \in [Calls -> Raw]
    /\ stage \in [Calls -> Stages]
    /\ result \in [Calls -> Results]
    /\ executed \in [Calls -> {0, 1}]

\* A client has one connection: overlapping first calls share one dial, and none
\* makes a second raw client beside the one that is kept.
OneConnection == Cardinality(Live) <= 1

\* disconnect() leaves no socket and no reconnect loop behind, also when it
\* crosses a connect() that had not stored its raw client yet: only a connect
\* still awaited may hold one, and it closes it when it ends.
NothingLeftOpen == closed => \A c \in Live : promise = c

\* The sockets of a client are accounted for, however its calls overlap.
ConnectionsOwned == OneConnection /\ NothingLeftOpen

\* One enqueue call stores at most one job: the client never resends on its own.
StoredOnce == \A c \in Enqueues : executed[c] <= 1

\* What an enqueue's outcome tells the caller about the job: stored once when it
\* resolves; never stored, now or later, when the client was closed or Redis
\* refused it; only a connection error leaves it open, which is why repeating
\* such an enqueue may store the job twice, under two ids.
OutcomeTellsFate == ClientTypeOK /\ StoredOnce /\
    \A c \in Enqueues :
        /\ result[c] = "ok" => executed[c] = 1
        /\ result[c] \in {"closed", "rejected"} => executed[c] = 0 /\ stage[c] = "done"

\* Every call ends, whether or not Redis is ever reached ("Commands never hang"):
\* the first dial gives up, and nothing waits for a reconnect.
CallsEnd == \A c \in Calls : stage[c] # "new" ~> result[c] # "none"

\* A connection once established comes back by itself as soon as Redis does.
SelfHeals ==
    \A c \in Calls :
        client = c /\ raw[c].socket # "up" ~> closed \/ ~ reachable \/ raw[c].socket = "up"

===============================================================================
