---------------------------- MODULE ProducerProofs ----------------------------
(***************************************************************************)
(* What holds of the producer's side.  Of its client, for any calls: its   *)
(* sockets are owned, by the client it kept or by the one connect under    *)
(* way, and the outcome of an enqueue says what became of the job.  Of     *)
(* the check of a payload, for any graph of values and any depth limit: it *)
(* accepts what JSON brings back, and refuses nothing else.                *)
(***************************************************************************)
EXTENDS ClientConnection, Payload, FiniteSetTheorems, WellFoundedInduction, TLAPS

\* Who owns the sockets.  The promise names the call that dials; while it is there
\* no client is kept, so together the two are one owner at most.
Owned ==
    /\ Live \subseteq {client, promise}
    /\ promise # None => client = None
    /\ closed => client = None
    /\ \A c \in Calls : promise = c <=> stage[c] \in {"dialing", "opened"}

\* Where a call is says whether its script was executed and what was reported.
Fate(c) ==
    /\ stage[c] \in {"new", "dialing", "opened", "joined", "connected", "sent", "refused"} =>
         executed[c] = 0 /\ result[c] = "none"
    /\ stage[c] = "answered" => executed[c] = 1 /\ result[c] = "none"
    /\ stage[c] = "stray" => executed[c] = 0 /\ result[c] = "conn"
    /\ c \in Enqueues =>
         /\ result[c] = "ok" => executed[c] = 1
         /\ result[c] \in {"closed", "rejected"} => executed[c] = 0 /\ stage[c] = "done"

ClientInv ==
    /\ ClientTypeOK
    /\ Owned
    /\ \A c \in Calls : Fate(c)

-------------------------------------------------------------------------------
LEMMA ClientStarts == ClientInit => ClientInv
<1> SUFFICES ASSUME ClientInit PROVE ClientInv
  OBVIOUS
<1> USE ClientAssumption DEF ClientInit
<1>1. ClientTypeOK
  <2>1. [socket |-> "none", ever |-> FALSE, retries |-> 0] \in Raw
    BY DEF Raw
  <2> QED BY <2>1 DEF ClientTypeOK, Stages, Results
<1>2. Owned
  BY DEF Owned, Live
<1>3. \A c \in Calls : Fate(c)
  BY DEF Fate
<1> QED BY <1>1, <1>2, <1>3 DEF ClientInv

-------------------------------------------------------------------------------
LEMMA ReachType ==
    ASSUME ClientTypeOK, NEW calls, NEW there \in Stages, Reach(calls, there)
    PROVE  stage' \in [Calls -> Stages] /\ result' \in [Calls -> Results]
BY DEF Reach, ClientTypeOK

LEMMA EndType ==
    ASSUME ClientTypeOK, NEW calls, NEW outcome \in Results, End(calls, outcome)
    PROVE  stage' \in [Calls -> Stages] /\ result' \in [Calls -> Results]
BY DEF End, ClientTypeOK, Stages

LEMMA LoseType ==
    ASSUME ClientTypeOK, NEW ending, Lose(ending)
    PROVE  stage' \in [Calls -> Stages] /\ result' \in [Calls -> Results]
<1>1. \A c \in Calls : stage'[c] \in Stages /\ result'[c] \in Results
  BY DEF Lose, ClientTypeOK, Stages, Results
<1> QED BY <1>1 DEF Lose

LEMMA ClientTypePreserved ==
    ASSUME ClientInv, ClientNext
    PROVE  ClientTypeOK'
<1>1. ClientTypeOK
  BY DEF ClientInv
<1>2. {"dialing", "opened", "joined", "connected", "sent", "answered", "refused", "done"} \subseteq Stages
  BY DEF Stages
<1>3. Results = {"none", "ok", "conn", "closed", "rejected"}
  BY DEF Results
<1>4. ASSUME NEW c \in Calls, raw[c] \in Raw PROVE
        /\ raw[c].retries \in 0..Attempts /\ raw[c].ever \in BOOLEAN
        /\ \A s \in {"none", "dialing", "up", "gone"} : [raw EXCEPT ![c].socket = s] \in [Calls -> Raw]
  BY <1>1, <1>4 DEF ClientTypeOK, Raw
<1>5. ASSUME NEW c \in Calls PROVE raw[c] \in Raw
  BY <1>1 DEF ClientTypeOK
<1>6. CASE NetworkChanges
  BY <1>1, <1>6 DEF NetworkChanges, ClientTypeOK
<1>7. ASSUME NEW c \in Calls, Connect(c) PROVE ClientTypeOK'
  <2>1. stage' \in [Calls -> Stages] /\ result' \in [Calls -> Results]
    BY <1>1, <1>2, <1>3, <1>7, ReachType, EndType DEF Connect, Dial
  <2>2. raw' \in [Calls -> Raw] /\ promise' \in Calls \cup {None}
    BY <1>1, <1>4, <1>5, <1>7 DEF Connect, Dial, ClientTypeOK
  <2> QED BY <1>1, <1>7, <2>1, <2>2 DEF Connect, ClientTypeOK
<1>8. ASSUME NEW c \in Calls, Connected(c) PROVE ClientTypeOK'
  <2>1. stage' \in [Calls -> Stages] /\ result' \in [Calls -> Results]
    BY <1>1, <1>2, <1>3, <1>8, ReachType, EndType DEF Connected
  <2>2. raw' \in [Calls -> Raw]
    BY <1>1, <1>4, <1>5, <1>8 DEF Connected, ClientTypeOK
  <2> QED BY <1>1, <1>8, <2>1, <2>2 DEF Connected, ClientTypeOK
<1>9. ASSUME NEW c \in Calls, ConnectEnds(c) \/ Send(c) \/ Answered(c) PROVE ClientTypeOK'
  <2>1. stage' \in [Calls -> Stages] /\ result' \in [Calls -> Results]
    BY <1>1, <1>2, <1>3, <1>9, ReachType, EndType DEF ConnectEnds, Send, Answered
  <2> QED BY <1>1, <1>9, <2>1 DEF ConnectEnds, Send, Answered, ClientTypeOK
<1>10. ASSUME NEW c \in Calls, Script(c) \/ Stray(c) PROVE ClientTypeOK'
  <2>1. stage' \in [Calls -> Stages] /\ result' \in [Calls -> Results]
    BY <1>1, <1>2, <1>10, ReachType DEF Script, Stray
  <2>2. executed[c] = 0
    BY <1>10 DEF Script, Stray, ClientInv, Fate
  <2>3. executed' \in [Calls -> {0, 1}]
    BY <1>1, <1>10, <2>2 DEF Script, Stray, ClientTypeOK
  <2> QED BY <1>1, <1>10, <2>1, <2>3 DEF Script, Stray, ClientTypeOK
<1>11. ASSUME NEW c \in Calls, Disconnect(c) PROVE ClientTypeOK'
  <2>1. stage' \in [Calls -> Stages] /\ result' \in [Calls -> Results]
    BY <1>1, <1>3, <1>11, EndType, LoseType DEF Disconnect
  <2>2. raw' \in [Calls -> Raw]
    BY <1>1, <1>4, <1>5, <1>11 DEF Disconnect, ClientTypeOK
  <2> QED BY <1>1, <1>11, <2>1, <2>2 DEF Disconnect, ClientTypeOK
<1>12. ASSUME NEW c \in Calls, AttemptOpens(c) PROVE ClientTypeOK'
  <2>1. stage' \in [Calls -> Stages] /\ result' \in [Calls -> Results]
    BY <1>1, <1>2, <1>12, ReachType DEF AttemptOpens, ClientTypeOK
  <2>2. raw' \in [Calls -> Raw]
    <3> DEFINE a == [raw EXCEPT ![c].socket = "up"]
               b == [a EXCEPT ![c].ever = TRUE]
    <3>1. a \in [Calls -> Raw]
      BY <1>4, <1>5
    <3>2. a[c] \in Raw
      BY <3>1
    <3> HIDE DEF a
    <3>3. [a[c] EXCEPT !.ever = TRUE] \in Raw
      BY <3>2 DEF Raw
    <3>4. b \in [Calls -> Raw]
      BY <3>1, <3>3
    <3>5. b[c] \in Raw
      BY <3>4
    <3> HIDE DEF b
    <3>6. [b[c] EXCEPT !.retries = 0] \in Raw
      BY <3>5, ClientAssumption DEF Raw
    <3>7. [b EXCEPT ![c].retries = 0] \in [Calls -> Raw]
      BY <3>4, <3>6
    <3>8. raw' = [b EXCEPT ![c].retries = 0]
      BY <1>12 DEF AttemptOpens, a, b
    <3> QED BY <3>7, <3>8
  <2> QED BY <1>1, <1>12, <2>1, <2>2 DEF AttemptOpens, ClientTypeOK
<1>13. ASSUME NEW c \in Calls, AttemptFails(c) PROVE ClientTypeOK'
  <2>1. raw' \in [Calls -> Raw]
    BY <1>1, <1>5, <1>13, ClientAssumption DEF AttemptFails, ClientTypeOK, Raw
  <2> QED BY <1>1, <1>13, <2>1 DEF AttemptFails, ClientTypeOK
<1>14. ASSUME NEW c \in Calls, LastAttemptFails(c) PROVE ClientTypeOK'
  <2>1. stage' \in [Calls -> Stages] /\ result' \in [Calls -> Results]
    BY <1>1, <1>3, <1>14, EndType DEF LastAttemptFails, ClientTypeOK
  <2>2. raw' \in [Calls -> Raw] /\ promise' \in Calls \cup {None}
    BY <1>1, <1>4, <1>5, <1>14 DEF LastAttemptFails, ClientTypeOK
  <2> QED BY <1>1, <1>14, <2>1, <2>2 DEF LastAttemptFails, ClientTypeOK
<1>15. ASSUME NEW c \in Calls, Drop(c) PROVE ClientTypeOK'
  <2>1. stage' \in [Calls -> Stages] /\ result' \in [Calls -> Results]
    BY <1>1, <1>15, LoseType DEF Drop
  <2>2. raw' \in [Calls -> Raw]
    BY <1>1, <1>4, <1>5, <1>15 DEF Drop, ClientTypeOK
  <2> QED BY <1>1, <1>15, <2>1, <2>2 DEF Drop, ClientTypeOK
<1> QED BY <1>6, <1>7, <1>8, <1>9, <1>10, <1>11, <1>12, <1>13, <1>14, <1>15 DEF ClientNext

-------------------------------------------------------------------------------
\* Every socket that is open or redials belongs to the client kept or to the
\* connect under way, whatever crosses them.
LEMMA OwnersPreserved ==
    ASSUME ClientInv, ClientNext
    PROVE  Owned'
<1> USE ClientAssumption
<1>1. ClientTypeOK /\ Owned
  BY DEF ClientInv
<1>2. ASSUME NEW c \in Calls PROVE c # None
  OBVIOUS
\* A step that opens no socket, keeps the owners and passes nobody through a dial.
<1>3. ASSUME Live' \subseteq Live, UNCHANGED <<client, promise, closed>>,
             \A c \in Calls : stage'[c] \in {"dialing", "opened"} <=> stage[c] \in {"dialing", "opened"}
      PROVE  Owned'
  BY <1>1, <1>3 DEF Owned
<1>4. ASSUME UNCHANGED raw PROVE Live' = Live
  BY <1>4 DEF Live
<1>5. ASSUME NEW calls, NEW there, Reach(calls, there)
      PROVE  \A c \in Calls : stage'[c] = IF c \in calls THEN there ELSE stage[c]
  BY <1>5 DEF Reach
<1>6. ASSUME NEW calls, NEW outcome, End(calls, outcome)
      PROVE  \A c \in Calls : stage'[c] = IF c \in calls THEN "done" ELSE stage[c]
  BY <1>6 DEF End
<1>7. ASSUME NEW ending, Lose(ending), \A c \in ending : c \in Calls => stage[c] = "new"
      PROVE  \A c \in Calls : stage'[c] \in {"dialing", "opened"} <=> stage[c] \in {"dialing", "opened"}
  BY <1>7 DEF Lose, OnTheWire
<1>8. CASE NetworkChanges
  BY <1>3, <1>4, <1>8 DEF NetworkChanges
<1>9. ASSUME NEW c \in Calls, Connect(c) PROVE Owned'
  <2>1. CASE ~ closed /\ client = None /\ promise = None /\ Dial(c)
    <3>1. Live = {}
      BY <1>1, <2>1 DEF Owned, Live
    <3>2. Live' \subseteq {c}
      BY <1>1, <2>1, <3>1 DEF Live, Dial, ClientTypeOK
    <3>3. promise' = c /\ client' = None /\ ~ closed'
      BY <1>9, <2>1 DEF Connect, Dial
    <3>4. \A d \in Calls : stage[d] \notin {"dialing", "opened"}
      BY <1>1, <1>2, <2>1 DEF Owned
    <3>5. \A d \in Calls : stage'[d] \in {"dialing", "opened"} <=> d = c
      BY <1>5, <2>1, <3>4 DEF Dial
    <3> QED BY <3>2, <3>3, <3>5 DEF Owned
  <2>2. CASE ~ (~ closed /\ client = None /\ promise = None /\ Dial(c))
    <3>1. UNCHANGED <<raw, client, promise, closed>>
      BY <1>9, <2>2 DEF Connect
    <3>2. \A d \in Calls : d # c => stage'[d] = stage[d]
      BY <1>5, <1>6, <1>9, <2>2 DEF Connect
    <3>3. stage[c] = "new" /\ stage'[c] \in {"done", "connected", "joined"}
      BY <1>5, <1>6, <1>9, <2>2 DEF Connect
    <3> QED BY <1>3, <1>4, <3>1, <3>2, <3>3
  <2> QED BY <2>1, <2>2
<1>10. ASSUME NEW c \in Calls, Connected(c) PROVE Owned'
  <2>1. promise = c /\ client = None
    BY <1>1, <1>2, <1>10 DEF Connected, Owned
  <2>2. \A d \in Calls : stage'[d] \notin {"dialing", "opened"}
    <3>1. \A d \in Calls : stage[d] \in {"dialing", "opened"} => d = c
      BY <1>1, <2>1 DEF Owned
    <3>2. c \in Party(c)
      BY DEF Party
    <3> QED BY <1>5, <1>6, <1>10, <3>1, <3>2 DEF Connected
  <2>3. promise' = None
    BY <1>10 DEF Connected
  <2>4. CASE closed /\ raw' = [raw EXCEPT ![c].socket = "gone"] /\ UNCHANGED client
    <3>1. Live' = {}
      BY <1>1, <2>1, <2>4 DEF Owned, Live, ClientTypeOK
    <3> QED BY <1>2, <1>10, <2>1, <2>2, <2>3, <2>4, <3>1 DEF Owned, Connected
  <2>5. CASE ~ closed /\ client' = c /\ UNCHANGED raw
    <3>1. Live' \subseteq {c}
      BY <1>1, <1>4, <2>1, <2>5 DEF Owned, Live
    <3> QED BY <1>2, <1>10, <2>2, <2>3, <2>5, <3>1 DEF Owned, Connected
  <2> QED BY <1>10, <2>4, <2>5 DEF Connected
<1>11. ASSUME NEW c \in Calls, ConnectEnds(c) \/ Send(c) \/ Script(c) \/ Answered(c) \/ Stray(c)
       PROVE  Owned'
  <2>1. UNCHANGED <<raw, client, promise, closed>>
    BY <1>11 DEF ConnectEnds, Send, Script, Answered, Stray
  <2>2. stage[c] \notin {"dialing", "opened"} /\ stage'[c] \notin {"dialing", "opened"}
    BY <1>5, <1>6, <1>11 DEF ConnectEnds, Send, Script, Answered, Stray
  <2>3. \A d \in Calls : d # c => stage'[d] = stage[d]
    BY <1>5, <1>6, <1>11 DEF ConnectEnds, Send, Script, Answered, Stray
  <2> QED BY <1>3, <1>4, <2>1, <2>2, <2>3
<1>12. ASSUME NEW c \in Calls, Disconnect(c) PROVE Owned'
  <2>1. \A d \in Calls : stage'[d] \in {"dialing", "opened"} <=> stage[d] \in {"dialing", "opened"}
    BY <1>6, <1>7, <1>12 DEF Disconnect
  <2>2. closed' /\ client' = None /\ UNCHANGED promise
    BY <1>12 DEF Disconnect
  <2>3. Live' \subseteq Live \ {client}
    <3>1. CASE client = None
      BY <1>4, <1>12, <3>1 DEF Disconnect, Live
    <3>2. CASE client # None
      <4>1. client \in Calls /\ raw' = [raw EXCEPT ![client].socket = "gone"]
        BY <1>1, <1>12, <3>2 DEF Disconnect, ClientTypeOK
      <4> QED BY <1>1, <4>1 DEF Live, ClientTypeOK
    <3> QED BY <3>1, <3>2
  <2>4. Live' \subseteq {client', promise'}
    BY <1>1, <2>2, <2>3 DEF Owned
  <2> QED BY <1>1, <2>1, <2>2, <2>4 DEF Owned
<1>13. ASSUME NEW c \in Calls, AttemptOpens(c) PROVE Owned'
  <2>1. Live' \subseteq Live
    BY <1>1, <1>13 DEF AttemptOpens, Live, ClientTypeOK
  <2>2. \A d \in Calls : stage'[d] \in {"dialing", "opened"} <=> stage[d] \in {"dialing", "opened"}
    BY <1>5, <1>13 DEF AttemptOpens
  <2> QED BY <1>3, <1>13, <2>1, <2>2 DEF AttemptOpens
<1>14. ASSUME NEW c \in Calls, AttemptFails(c) PROVE Owned'
  <2>1. Live' \subseteq Live
    BY <1>1, <1>14 DEF AttemptFails, Live, ClientTypeOK
  <2> QED BY <1>3, <1>14, <2>1 DEF AttemptFails
<1>15. ASSUME NEW c \in Calls, LastAttemptFails(c) PROVE Owned'
  <2>1. Live' \subseteq Live \ {c}
    BY <1>1, <1>15 DEF LastAttemptFails, Live, ClientTypeOK
  <2>2. CASE stage[c] = "dialing"
    <3>1. promise = c /\ client = None
      BY <1>1, <1>2, <2>2 DEF Owned
    <3>2. promise' = None /\ End(Party(c), "conn") /\ UNCHANGED <<client, closed>>
      BY <1>15, <2>2 DEF LastAttemptFails
    <3>3. \A d \in Calls : stage'[d] \notin {"dialing", "opened"}
      <4>1. \A d \in Calls : stage[d] \in {"dialing", "opened"} => d = c
        BY <1>1, <3>1 DEF Owned
      <4> QED BY <1>6, <3>2, <4>1 DEF Party
    <3>4. Live' = {}
      BY <1>1, <2>1, <3>1 DEF Owned, Live
    <3> QED BY <1>2, <3>1, <3>2, <3>3, <3>4 DEF Owned
  <2>3. CASE stage[c] # "dialing"
    BY <1>3, <1>15, <2>1, <2>3 DEF LastAttemptFails
  <2> QED BY <2>2, <2>3
<1>16. ASSUME NEW c \in Calls, Drop(c) PROVE Owned'
  <2>1. Live' \subseteq Live
    BY <1>1, <1>16 DEF Drop, Live, ClientTypeOK
  <2> QED BY <1>3, <1>7, <1>16, <2>1 DEF Drop
<1> QED BY <1>8, <1>9, <1>10, <1>11, <1>12, <1>13, <1>14, <1>15, <1>16 DEF ClientNext

-------------------------------------------------------------------------------
\* The script of a call is executed once at most, and what the call reports fits.
LEMMA FatePreserved ==
    ASSUME ClientInv, ClientNext, NEW e \in Calls
    PROVE  Fate(e)'
<1> USE ClientAssumption
<1>1. ClientTypeOK /\ Fate(e)
  BY DEF ClientInv
<1>2. stage[e] \in Stages /\ result[e] \in Results /\ executed[e] \in {0, 1}
  BY <1>1 DEF ClientTypeOK
<1>3. ASSUME UNCHANGED <<stage[e], result[e], executed[e]>> PROVE Fate(e)'
  BY <1>1, <1>3 DEF Fate
<1>4. ASSUME NEW calls, NEW there, Reach(calls, there)
      PROVE  stage'[e] = (IF e \in calls THEN there ELSE stage[e]) /\ result'[e] = result[e]
  BY <1>4 DEF Reach
<1>5. ASSUME NEW calls, NEW outcome, End(calls, outcome)
      PROVE  /\ stage'[e] = IF e \in calls THEN "done" ELSE stage[e]
             /\ result'[e] = IF e \in calls THEN outcome ELSE result[e]
  BY <1>5 DEF End
\* A socket that is lost leaves the executed scripts executed, and open.
<1>6. ASSUME NEW ending, Lose(ending), UNCHANGED executed, ending \subseteq Disconnects,
             e \in ending => stage[e] = "new"
      PROVE  Fate(e)'
  <2>1. /\ stage'[e] = IF stage[e] = "sent" THEN "stray"
                        ELSE IF stage[e] \in OnTheWire \/ e \in ending THEN "done" ELSE stage[e]
        /\ result'[e] = IF stage[e] \in OnTheWire THEN "conn"
                         ELSE IF e \in ending THEN "ok" ELSE result[e]
    BY <1>6 DEF Lose
  <2>2. CASE stage[e] \in OnTheWire
    BY <1>1, <1>6, <2>1, <2>2 DEF Fate, OnTheWire
  <2>3. CASE stage[e] \notin OnTheWire /\ e \in ending
    <3>1. e \notin Enqueues
      BY <1>6, <2>3
    <3> QED BY <2>1, <2>3, <3>1 DEF Fate, OnTheWire
  <2>4. CASE stage[e] \notin OnTheWire /\ e \notin ending
    BY <1>3, <1>6, <2>1, <2>4 DEF OnTheWire
  <2> QED BY <2>2, <2>3, <2>4
\* A call whose script was never sent may end in any way but well.
<1>7. ASSUME stage[e] \in {"new", "dialing", "opened", "joined", "connected"},
             stage'[e] = "done", UNCHANGED executed,
             result'[e] \in {"conn", "closed"}
      PROVE  Fate(e)'
  BY <1>1, <1>7 DEF Fate
<1>8. ASSUME stage[e] \in {"new", "dialing", "opened", "joined", "connected"},
             stage'[e] \in {"dialing", "opened", "joined", "connected", "sent"},
             UNCHANGED executed, result'[e] = result[e]
      PROVE  Fate(e)'
  BY <1>1, <1>8 DEF Fate
<1>9. CASE NetworkChanges
  BY <1>3, <1>9 DEF NetworkChanges
<1>10. ASSUME NEW c \in Calls, Connect(c) PROVE Fate(e)'
  BY <1>3, <1>4, <1>5, <1>7, <1>8, <1>10 DEF Connect, Dial
<1>11. ASSUME NEW c \in Calls, Connected(c) PROVE Fate(e)'
  <2>1. e \in Party(c) => stage[e] \in {"opened", "joined"}
    BY <1>11 DEF Connected, Party
  <2> QED BY <1>3, <1>4, <1>5, <1>7, <1>8, <1>11, <2>1 DEF Connected
<1>12. ASSUME NEW c \in Calls, ConnectEnds(c) PROVE Fate(e)'
  <2>1. CASE e = c
    <3>1. e \notin Enqueues /\ stage'[e] = "done" /\ UNCHANGED executed
      BY <1>5, <1>12, <2>1 DEF ConnectEnds
    <3> QED BY <3>1 DEF Fate
  <2>2. CASE e # c
    BY <1>3, <1>5, <1>12, <2>2 DEF ConnectEnds
  <2> QED BY <2>1, <2>2
<1>13. ASSUME NEW c \in Calls, Send(c) PROVE Fate(e)'
  BY <1>3, <1>4, <1>5, <1>7, <1>8, <1>13 DEF Send
<1>14. ASSUME NEW c \in Calls, Script(c) PROVE Fate(e)'
  <2>1. CASE e = c
    <3>1. stage[e] = "sent" /\ executed[e] = 0 /\ result[e] = "none"
      BY <1>1, <1>14, <2>1 DEF Script, Fate
    <3>2. result'[e] = "none"
      BY <1>4, <1>14, <3>1 DEF Script
    <3>3. \/ stage'[e] = "answered" /\ executed'[e] = 1
          \/ stage'[e] = "refused" /\ executed'[e] = 0
      BY <1>1, <1>4, <1>14, <2>1, <3>1 DEF Script, ClientTypeOK
    <3> QED BY <3>2, <3>3 DEF Fate
  <2>2. CASE e # c
    <3>1. executed'[e] = executed[e]
      BY <1>1, <1>14, <2>2 DEF Script, ClientTypeOK
    <3> QED BY <1>3, <1>4, <1>14, <2>2, <3>1 DEF Script
  <2> QED BY <2>1, <2>2
<1>15. ASSUME NEW c \in Calls, Answered(c) PROVE Fate(e)'
  <2>1. CASE e = c /\ stage[c] = "answered"
    <3>1. stage'[e] = "done" /\ result'[e] = "ok" /\ executed'[e] = 1
      BY <1>1, <1>5, <1>15, <2>1 DEF Answered, Fate
    <3> QED BY <3>1 DEF Fate
  <2>2. CASE e = c /\ stage[c] = "refused"
    <3>1. stage'[e] = "done" /\ result'[e] = "rejected" /\ executed'[e] = 0
      BY <1>1, <1>5, <1>15, <2>2 DEF Answered, Fate
    <3> QED BY <3>1 DEF Fate
  <2>3. CASE e # c
    BY <1>3, <1>5, <1>15, <2>3 DEF Answered
  <2> QED BY <1>15, <2>1, <2>2, <2>3 DEF Answered
<1>16. ASSUME NEW c \in Calls, Stray(c) PROVE Fate(e)'
  <2>1. CASE e = c
    <3>1. stage'[e] = "done" /\ result'[e] = "conn"
      BY <1>1, <1>4, <1>16, <2>1 DEF Stray, Fate
    <3> QED BY <3>1 DEF Fate
  <2>2. CASE e # c
    <3>1. executed'[e] = executed[e]
      BY <1>1, <1>16, <2>2 DEF Stray, ClientTypeOK
    <3> QED BY <1>3, <1>4, <1>16, <2>2, <3>1 DEF Stray
  <2> QED BY <2>1, <2>2
<1>17. ASSUME NEW c \in Calls, Disconnect(c) PROVE Fate(e)'
  <2>1. c \in Disconnects /\ stage[c] = "new" /\ UNCHANGED executed
    BY <1>17 DEF Disconnect
  <2>2. CASE End({c}, "ok")
    <3>1. CASE e = c
      <4>1. e \notin Enqueues /\ stage'[e] = "done"
        BY <1>5, <2>1, <2>2, <3>1
      <4> QED BY <4>1 DEF Fate
    <3>2. CASE e # c
      BY <1>3, <1>5, <2>1, <2>2, <3>2
    <3> QED BY <3>1, <3>2
  <2>3. CASE Lose({c})
    BY <1>6, <2>1, <2>3
  <2> QED BY <1>17, <2>2, <2>3 DEF Disconnect
<1>18. ASSUME NEW c \in Calls, AttemptOpens(c) PROVE Fate(e)'
  BY <1>3, <1>4, <1>8, <1>18 DEF AttemptOpens
<1>19. ASSUME NEW c \in Calls, AttemptFails(c) PROVE Fate(e)'
  BY <1>3, <1>19 DEF AttemptFails
<1>20. ASSUME NEW c \in Calls, LastAttemptFails(c) PROVE Fate(e)'
  <2>1. stage[c] = "dialing" /\ e \in Party(c) => stage[e] \in {"dialing", "joined"}
    BY DEF Party
  <2> QED BY <1>3, <1>5, <1>7, <1>20, <2>1 DEF LastAttemptFails
<1>21. ASSUME NEW c \in Calls, Drop(c) PROVE Fate(e)'
  BY <1>6, <1>21 DEF Drop
<1> QED BY <1>9, <1>10, <1>11, <1>12, <1>13, <1>14, <1>15, <1>16, <1>17, <1>18, <1>19, <1>20, <1>21
        DEF ClientNext

-------------------------------------------------------------------------------
LEMMA ClientSteps == ClientInv /\ [ClientNext]_producer => ClientInv'
<1> SUFFICES ASSUME ClientInv, [ClientNext]_producer PROVE ClientInv'
  OBVIOUS
<1>1. CASE ClientNext
  BY <1>1, ClientTypePreserved, OwnersPreserved, FatePreserved DEF ClientInv
<1>2. CASE UNCHANGED producer
  BY <1>2 DEF producer, ClientInv, ClientTypeOK, Owned, Live, Fate
<1> QED BY <1>1, <1>2

LEMMA ClientInvariant == ClientSpec => []ClientInv
<1> QED BY ClientStarts, ClientSteps, PTL DEF ClientSpec

\* Overlapping calls share one dial, a client has one connection, and disconnect()
\* leaves none behind: connect, doConnect and disconnect of queue-client.ts.
THEOREM ConnectionsOwnedHolds == ClientSpec => []ConnectionsOwned
<1>1. ClientInv => NothingLeftOpen
  BY ClientAssumption DEF ClientInv, Owned, NothingLeftOpen, Live
<1>2. ClientInv => OneConnection
  <2> SUFFICES ASSUME ClientInv PROVE Cardinality(Live) <= 1
    BY DEF OneConnection
  <2>1. \A c, d \in Live : c = d
    BY ClientAssumption DEF ClientInv, Owned, Live
  <2>2. CASE Live = {}
    BY <2>2, FS_EmptySet
  <2>3. CASE Live # {}
    <3>1. PICK c \in Live : TRUE
      BY <2>3
    <3>2. Live = {c}
      BY <2>1, <3>1
    <3> QED BY <3>2, FS_Singleton
  <2> QED BY <2>2, <2>3
<1>3. ClientInv => ConnectionsOwned
  BY <1>1, <1>2 DEF ConnectionsOwned
<1> QED BY <1>3, ClientInvariant, PTL

\* What an enqueue's outcome tells the caller about the job, whatever calls overlap
\* and however often the socket is lost.
THEOREM OutcomeTellsFateHolds == ClientSpec => []OutcomeTellsFate
<1>1. ClientInv => OutcomeTellsFate
  <2> SUFFICES ASSUME ClientInv PROVE OutcomeTellsFate
    OBVIOUS
  <2>1. Enqueues \subseteq Calls
    BY DEF Calls
  <2>2. StoredOnce
    BY <2>1 DEF ClientInv, ClientTypeOK, StoredOnce
  <2> QED BY <2>1, <2>2 DEF ClientInv, Fate, OutcomeTellsFate
<1> QED BY <1>1, ClientInvariant, PTL

-------------------------------------------------------------------------------
(* Induction, over a set instead of a predicate: what contains 0, and with each *)
(* number the next, contains all of them.                                       *)
LEMMA SetInduction ==
    ASSUME NEW T, 0 \in T, \A n \in Nat : n \in T => n + 1 \in T
    PROVE  Nat \subseteq T
<1> SUFFICES ASSUME Nat \ T # {} PROVE FALSE
  OBVIOUS
<1>1. PICK x \in Nat \ T : \A y \in Nat \ T : ~ (<<y, x>> \in OpToRel(<, Nat))
  BY NatLessThanWellFounded, WFMin, Zenon
<1>2. \A y \in Nat \ T : ~ (y < x)
  BY <1>1 DEF OpToRel
<1>3. x # 0 /\ x - 1 \in Nat /\ x - 1 \notin Nat \ T
  BY <1>2
<1> QED BY <1>3

-------------------------------------------------------------------------------
(* Two recursions over the graph.  A recursive function is some function that    *)
(* satisfies its equation; each lemma first shows that there is one.             *)

Steps == Cardinality(Values) + MaxDepth

Sized == IsFiniteSet(Values) /\ Cardinality(Values) \in Nat /\ Cardinality(Values) > 0 /\ Steps \in Nat

LEMMA SizesKnown == Sized
<1>1. Cardinality(Values) \in Nat /\ Values # {}
  BY PayloadAssumption, FS_CardinalityType
<1>2. Cardinality(Values) # 0
  BY <1>1, PayloadAssumption, FS_EmptySet
<1> QED BY <1>1, <1>2, PayloadAssumption DEF Sized, Steps

Graph == [Values -> SUBSET Values]

\* The levels of a graph h, as far as n.
LevelsOf(h, L, n) ==
    L = [i \in 0..n |-> IF i = 0 THEN {Root} ELSE UNION {h[v] : v \in L[i - 1]}]

\* They exist.
LEMMA LevelsExist == ASSUME NEW h \in Graph, NEW n \in Nat PROVE \E L : LevelsOf(h, L, n)
<1> DEFINE T == {k \in Nat : \E L : LevelsOf(h, L, k)}
<1>1. 0 \in T
  <2> DEFINE L == [i \in 0..0 |-> {Root}]
  <2>1. LevelsOf(h, L, 0)
    BY DEF LevelsOf
  <2> QED BY <2>1
<1>2. ASSUME NEW k \in Nat, k \in T PROVE k + 1 \in T
  <2>1. PICK L : LevelsOf(h, L, k)
    BY <1>2
  <2> DEFINE M == [i \in 0..(k + 1) |-> IF i <= k THEN L[i] ELSE UNION {h[v] : v \in L[k]}]
             N == [i \in 0..(k + 1) |-> IF i = 0 THEN {Root} ELSE UNION {h[v] : v \in M[i - 1]}]
  <2>2. \A i \in 0..k : L[i] = IF i = 0 THEN {Root} ELSE UNION {h[v] : v \in L[i - 1]}
    BY <2>1 DEF LevelsOf
  <2>3. ASSUME NEW i \in 0..(k + 1) PROVE M[i] = N[i]
    <3>1. CASE i = 0
      <4>1. i <= k /\ i \in 0..k
        BY <3>1
      <4>2. M[i] = L[i] /\ L[i] = {Root}
        BY <2>2, <3>1, <4>1
      <4> QED BY <3>1, <4>2
    <3>2. CASE i # 0
      <4>1. i - 1 \in 0..k /\ M[i - 1] = L[i - 1]
        BY <3>2
      <4>2. N[i] = UNION {h[v] : v \in L[i - 1]}
        BY <3>2, <4>1
      <4>3. M[i] = UNION {h[v] : v \in L[i - 1]}
        <5>1. CASE i = k + 1
          <6>1. ~(i <= k) /\ i - 1 = k
            BY <5>1
          <6> QED BY <6>1
        <5>2. CASE i # k + 1
          <6>1. i <= k /\ i \in 0..k
            BY <5>2
          <6>2. M[i] = L[i]
            BY <6>1
          <6>3. L[i] = UNION {h[v] : v \in L[i - 1]}
            BY <2>2, <3>2, <6>1
          <6> QED BY <6>2, <6>3
        <5> QED BY <5>1, <5>2
      <4> QED BY <4>2, <4>3
    <3> QED BY <3>1, <3>2
  <2>4. M = N
    BY <2>3
  <2>5. LevelsOf(h, M, k + 1)
    BY <2>4 DEF LevelsOf
  <2> HIDE DEF M
  <2> QED BY <2>5
<1> HIDE DEF T
<1>3. n \in T
  BY <1>1, <1>2, SetInduction
<1> QED BY <1>3 DEF T

\* And are the only ones.
LEMMA LevelsUnique ==
    ASSUME NEW h \in Graph, NEW n \in Nat, NEW L, NEW M, LevelsOf(h, L, n), LevelsOf(h, M, n)
    PROVE  L = M
<1>1. /\ L = [i \in 0..n |-> L[i]] /\ M = [i \in 0..n |-> M[i]]
  BY DEF LevelsOf
<1> DEFINE T == {k \in Nat : k <= n => L[k] = M[k]}
<1>2. 0 \in T
  BY DEF LevelsOf
<1>3. ASSUME NEW k \in Nat, k \in T PROVE k + 1 \in T
  <2> SUFFICES ASSUME k + 1 <= n PROVE L[k + 1] = M[k + 1]
    OBVIOUS
  <2>1. L[k] = M[k] /\ k + 1 \in 0..n /\ k + 1 # 0 /\ (k + 1) - 1 = k
    BY <1>3
  <2>2. L[k + 1] = UNION {h[v] : v \in L[k]} /\ M[k + 1] = UNION {h[v] : v \in M[k]}
    BY <2>1 DEF LevelsOf
  <2> QED BY <2>1, <2>2
<1> HIDE DEF T
<1>4. Nat \subseteq T
  BY <1>2, <1>3, SetInduction
<1>5. \A k \in 0..n : L[k] = M[k]
  BY <1>4 DEF T
<1> QED BY <1>1, <1>5

\* So Level is what its definition says, before a step and after it.
LEMMA LevelIs == ASSUME holds \in Graph PROVE LevelsOf(holds, Level, Steps)
<1>1. \E L : LevelsOf(holds, L, Steps)
  BY LevelsExist, SizesKnown DEF Sized
<1>2. Level = CHOOSE L : LevelsOf(holds, L, Steps)
  BY DEF Level, LevelsOf, Steps
<1> QED BY <1>1, <1>2, Zenon

LEMMA LevelIsNext == ASSUME holds' \in Graph PROVE LevelsOf(holds', Level', Steps)
<1>1. \E L : LevelsOf(holds', L, Steps)
  BY LevelsExist, SizesKnown DEF Sized
<1>2. Level' = CHOOSE L : LevelsOf(holds', L, Steps)
  BY DEF Level, LevelsOf, Steps
<1> QED BY <1>1, <1>2, Zenon

LEMMA LevelStays == ASSUME holds \in Graph, UNCHANGED holds PROVE Level' = Level
<1>1. LevelsOf(holds, Level, Steps)
  BY LevelIs
<1>2. LevelsOf(holds, Level', Steps)
  BY LevelIsNext
<1> QED BY <1>1, <1>2, LevelsUnique, SizesKnown DEF Sized

LEMMA LevelFacts ==
    ASSUME holds \in Graph
    PROVE  /\ Level[0] = {Root}
           /\ \A n \in Nat : n + 1 <= Steps =>
                \A w : w \in Level[n + 1] <=> \E v \in Level[n] : w \in holds[v]
           /\ \A n \in 0..Steps : Level[n] \subseteq Values
<1>1. LevelsOf(holds, Level, Steps) /\ Steps \in Nat
  BY LevelIs, SizesKnown DEF Sized
<1>2. Level[0] = {Root}
  BY <1>1 DEF LevelsOf
<1>3. ASSUME NEW n \in Nat, n + 1 <= Steps
      PROVE  Level[n + 1] = UNION {holds[v] : v \in Level[n]}
  <2>1. n + 1 \in 0..Steps /\ n + 1 # 0 /\ (n + 1) - 1 = n
    BY <1>1, <1>3
  <2> QED BY <1>1, <2>1 DEF LevelsOf
<1>4. ASSUME NEW n \in Nat, n + 1 <= Steps, NEW w
      PROVE  w \in Level[n + 1] <=> \E v \in Level[n] : w \in holds[v]
  BY <1>3, <1>4
<1> DEFINE T == {n \in Nat : n <= Steps => Level[n] \subseteq Values}
<1>5. 0 \in T
  BY <1>2, PayloadAssumption
<1>6. ASSUME NEW n \in Nat, n \in T PROVE n + 1 \in T
  <2> SUFFICES ASSUME n + 1 <= Steps PROVE Level[n + 1] \subseteq Values
    OBVIOUS
  <2>1. Level[n] \subseteq Values
    BY <1>1, <1>6
  <2> QED BY <1>4, <2>1 DEF Graph
<1> HIDE DEF T
<1>7. Nat \subseteq T
  BY <1>5, <1>6, SetInduction
<1>8. \A n \in 0..Steps : Level[n] \subseteq Values
  BY <1>7 DEF T
<1> QED BY <1>2, <1>4, <1>8

\* Below an empty level there is nothing.
LEMMA EmptyBelow ==
    ASSUME holds \in Graph, NEW m \in 0..Steps, Level[m] = {}
    PROVE  \A n \in m..Steps : Level[n] = {}
<1>1. Steps \in Nat /\ m \in Nat
  BY SizesKnown DEF Sized
<1> DEFINE T == {k \in Nat : m + k <= Steps => Level[m + k] = {}}
<1>2. 0 \in T
  BY <1>1
<1>3. ASSUME NEW k \in Nat, k \in T PROVE k + 1 \in T
  <2> SUFFICES ASSUME m + (k + 1) <= Steps PROVE Level[m + (k + 1)] = {}
    OBVIOUS
  <2>1. m + k \in Nat /\ (m + k) + 1 = m + (k + 1) /\ Level[m + k] = {}
    BY <1>1, <1>3
  <2> QED BY <2>1, LevelFacts
<1> HIDE DEF T
<1>4. Nat \subseteq T
  BY <1>2, <1>3, SetInduction
<1>5. ASSUME NEW n \in m..Steps PROVE Level[n] = {}
  <2>1. n - m \in Nat /\ m + (n - m) = n /\ n <= Steps
    BY <1>1
  <2>2. n - m \in T
    BY <1>4, <2>1
  <2> QED BY <2>1, <2>2 DEF T
<1> QED BY <1>5

-------------------------------------------------------------------------------
(* Why as many steps as there are values show a cycle. *)

\* A walk of n steps down from the root, through each level on its way.
Walk(p, n) ==
    /\ p \in [0..n -> Values]
    /\ \A i \in 0..n : p[i] \in Level[i]
    /\ \A i \in 0..n : i < n => p[i + 1] \in holds[p[i]]

LEMMA WalkTo ==
    ASSUME holds \in Graph, NEW n \in 0..Steps, NEW x \in Level[n]
    PROVE  \E p : Walk(p, n) /\ p[n] = x
<1>1. Steps \in Nat
  BY SizesKnown DEF Sized
<1> DEFINE T == {k \in Nat : k <= Steps => \A y \in Level[k] : \E p : Walk(p, k) /\ p[k] = y}
<1>2. 0 \in T
  <2> SUFFICES ASSUME NEW y \in Level[0] PROVE \E p : Walk(p, 0) /\ p[0] = y
    OBVIOUS
  <2> DEFINE p == [i \in 0..0 |-> y]
  <2>1. y \in Values
    BY LevelFacts, PayloadAssumption
  <2>2. Walk(p, 0) /\ p[0] = y
    BY <2>1 DEF Walk
  <2> QED BY <2>2
<1>3. ASSUME NEW k \in Nat, k \in T PROVE k + 1 \in T
  <2> SUFFICES ASSUME k + 1 <= Steps, NEW y \in Level[k + 1]
               PROVE  \E p : Walk(p, k + 1) /\ p[k + 1] = y
    OBVIOUS
  <2>1. k <= Steps /\ k + 1 \in 0..Steps
    BY <1>1
  <2>2. PICK v \in Level[k] : y \in holds[v]
    BY LevelFacts
  <2>3. PICK q : Walk(q, k) /\ q[k] = v
    BY <1>3, <2>1
  <2> DEFINE p == [i \in 0..(k + 1) |-> IF i = k + 1 THEN y ELSE q[i]]
  <2>4. y \in Values
    BY <2>1, LevelFacts
  <2>5. \A i \in 0..k : p[i] = q[i] /\ q[i] \in Values /\ q[i] \in Level[i]
    BY <2>3 DEF Walk
  <2>6. p[k + 1] = y
    OBVIOUS
  <2>7. p = [i \in 0..(k + 1) |-> p[i]]
    OBVIOUS
  <2> HIDE DEF p
  <2>8. \A i \in 0..(k + 1) : i = k + 1 \/ i \in 0..k
    OBVIOUS
  <2>9. p \in [0..(k + 1) -> Values]
    <3>1. \A i \in 0..(k + 1) : p[i] \in Values
      BY <2>4, <2>5, <2>6, <2>8
    <3> QED BY <2>7, <3>1
  <2>10. \A i \in 0..(k + 1) : p[i] \in Level[i]
    BY <2>5, <2>6, <2>8
  <2>11. ASSUME NEW i \in 0..(k + 1), i < k + 1 PROVE p[i + 1] \in holds[p[i]]
    <3>1. i \in 0..k /\ p[i] = q[i]
      BY <2>5, <2>11
    <3>2. CASE i = k
      BY <2>2, <2>3, <2>6, <3>1, <3>2
    <3>3. CASE i # k
      <4>1. i < k /\ i + 1 \in 0..k
        BY <3>1, <3>3
      <4>2. q[i + 1] \in holds[q[i]]
        BY <2>3, <3>1, <4>1 DEF Walk
      <4> QED BY <2>5, <3>1, <4>1, <4>2
    <3> QED BY <3>2, <3>3
  <2>12. Walk(p, k + 1)
    BY <2>9, <2>10, <2>11 DEF Walk
  <2> QED BY <2>6, <2>12
<1> HIDE DEF T
<1>4. Nat \subseteq T
  BY <1>2, <1>3, SetInduction
<1> QED BY <1>1, <1>4 DEF T

\* A walk that comes back to a value can be walked on from there, to below its end.
LEMMA WalkOn ==
    ASSUME holds \in Graph, NEW n \in Nat, n < Steps, NEW p, Walk(p, n),
           NEW i \in 0..n, NEW j \in 0..n, i < j, p[i] = p[j]
    PROVE  Level[n + 1] # {}
<1>1. Steps \in Nat
  BY SizesKnown DEF Sized
<1> DEFINE T == {k \in Nat : j + k <= n + 1 => p[i + k] \in Level[j + k]}
<1>2. 0 \in T
  BY DEF Walk
<1>3. ASSUME NEW k \in Nat, k \in T PROVE k + 1 \in T
  <2> SUFFICES ASSUME j + (k + 1) <= n + 1 PROVE p[i + (k + 1)] \in Level[j + (k + 1)]
    OBVIOUS
  <2>1. /\ i + k \in 0..n /\ i + k < n /\ (i + k) + 1 = i + (k + 1)
        /\ j + k \in Nat /\ (j + k) + 1 <= Steps /\ (j + k) + 1 = j + (k + 1) /\ j + k <= n + 1
    BY <1>1
  <2>2. p[i + k] \in Level[j + k]
    BY <1>3, <2>1
  <2>3. p[(i + k) + 1] \in holds[p[i + k]]
    BY <2>1 DEF Walk
  <2>4. p[(i + k) + 1] \in Level[(j + k) + 1]
    BY <2>1, <2>2, <2>3, LevelFacts
  <2> QED BY <2>1, <2>4
<1> HIDE DEF T
<1>4. Nat \subseteq T
  BY <1>2, <1>3, SetInduction
<1>5. (n + 1) - j \in Nat /\ j + ((n + 1) - j) = n + 1
  OBVIOUS
<1>6. p[i + ((n + 1) - j)] \in Level[n + 1]
  BY <1>4, <1>5 DEF T
<1> QED BY <1>6

\* A graph whose levels end has fewer of them than values.
LEMMA ShortOrEndless ==
    ASSUME holds \in Graph, Level[MaxDepth + 1] = {}
    PROVE  Level[Cardinality(Values)] = {}
<1>1. /\ IsFiniteSet(Values) /\ Cardinality(Values) \in Nat /\ Cardinality(Values) > 0
      /\ MaxDepth \in Nat /\ Steps = Cardinality(Values) + MaxDepth
  BY SizesKnown, PayloadAssumption DEF Sized, Steps
<1> DEFINE C == Cardinality(Values)
           T == {k \in Nat : k <= Steps => Level[k] # {}}
<1> HIDE DEF C
<1>2. C \in Nat /\ C > 0 /\ MaxDepth \in Nat /\ Steps = C + MaxDepth
  BY <1>1 DEF C
<1> SUFFICES ASSUME Level[C] # {} PROVE FALSE
  BY DEF C
<1>3. 0 \in T
  BY LevelFacts
<1>4. ASSUME NEW k \in Nat, k \in T PROVE k + 1 \in T
  <2> SUFFICES ASSUME k + 1 <= Steps, Level[k + 1] = {} PROVE FALSE
    OBVIOUS
  <2>1. k \in 0..Steps /\ k + 1 \in 0..Steps /\ Level[k] # {} /\ k < Steps
    BY <1>2, <1>4
  <2>2. k >= C
    <3> SUFFICES ASSUME k < C PROVE FALSE
      BY <1>2
    <3>1. C \in (k + 1)..Steps
      BY <1>2
    <3>2. \A m \in (k + 1)..Steps : Level[m] = {}
      BY <2>1, EmptyBelow
    <3>3. Level[C] = {}
      BY <3>1, <3>2
    <3> QED BY <3>3
  <2>3. PICK x : x \in Level[k]
    BY <2>1
  <2>4. PICK p : Walk(p, k)
    BY <2>1, <2>3, WalkTo
  <2>5. IsFiniteSet(0..k) /\ Cardinality(0..k) = k + 1
    BY FS_Interval
  <2>6. Cardinality(Values) < Cardinality(0..k)
    BY <1>2, <2>2, <2>5 DEF C
  <2>7. p \in [0..k -> Values]
    BY <2>4 DEF Walk
  <2>8. PICK i, j \in 0..k : i # j /\ p[i] = p[j]
    BY <1>1, <2>5, <2>6, <2>7, FS_PigeonHole
  <2>9. CASE i < j
    BY <2>1, <2>4, <2>8, <2>9, WalkOn
  <2>10. CASE j < i
    BY <2>1, <2>4, <2>8, <2>10, WalkOn
  <2> QED BY <2>8, <2>9, <2>10
<1> HIDE DEF T
<1>5. Nat \subseteq T
  BY <1>3, <1>4, SetInduction
<1>6. MaxDepth + 1 \in T /\ MaxDepth + 1 <= Steps
  BY <1>1, <1>2, <1>5
<1> QED BY <1>6 DEF T
-------------------------------------------------------------------------------
(* The check that the code makes, in one equation, and what it says of the levels. *)

\* One call of _assertImpl, given what the calls it makes return.
Row(depth, next) == [v \in Values |->
    /\ ~TooDeep(depth)
    /\ Json(v)
    /\ kind[v] = "container" => \A w \in holds[v] : next[w]]

Checks(A, m) == A = [d \in m..(MaxDepth + 1) |-> Row(d, A[d + 1])]

LEMMA LastRow == \A x, y : Row(MaxDepth + 1, x) = Row(MaxDepth + 1, y)
<1>1. TooDeep(MaxDepth + 1)
  BY PayloadAssumption DEF TooDeep
<1>2. \A x : Row(MaxDepth + 1, x) = [v \in Values |-> FALSE]
  BY <1>1, Zenon DEF Row
<1> QED BY <1>2

LEMMA ChecksExist == \E A : Checks(A, 0)
<1> DEFINE M == MaxDepth + 1
           T == {k \in Nat : k <= M => \E A : Checks(A, M - k)}
<1>1. M \in Nat
  BY PayloadAssumption
<1>2. 0 \in T
  <2> DEFINE A == [d \in M..M |-> Row(d, 0)]
             B == [d \in M..M |-> Row(d, A[d + 1])]
  <2>1. \A d \in M..M : Row(d, 0) = Row(d, A[d + 1])
    <3>1. \A d \in M..M : d = M
      BY <1>1
    <3> HIDE DEF A
    <3> QED BY <3>1, LastRow
  <2>2. A = B
    BY <2>1
  <2>3. Checks(A, M) /\ M - 0 = M
    BY <1>1, <2>2 DEF Checks
  <2> HIDE DEF A, M
  <2> QED BY <2>3
<1>3. ASSUME NEW k \in Nat, k \in T PROVE k + 1 \in T
  <2> SUFFICES ASSUME k + 1 <= M PROVE \E A : Checks(A, M - (k + 1))
    OBVIOUS
  <2>1. PICK A : Checks(A, M - k)
    BY <1>1, <1>3
  <2> DEFINE m == M - (k + 1)
             B == [d \in m..M |-> IF d = m THEN Row(m, A[m + 1]) ELSE A[d]]
  <2> HIDE DEF M
  <2>2. m \in Nat /\ M - k = m + 1
    BY <1>1
  <2>3. \A d \in (m + 1)..M : A[d] = Row(d, A[d + 1])
    BY <2>1, <2>2 DEF Checks, M
  <2> HIDE DEF m
  <2>4. \A d \in (m + 1)..M : B[d] = A[d]
    BY <2>2
  <2>5. B[m] = Row(m, A[m + 1])
    BY <1>1, <2>2 DEF m
  <2> HIDE DEF B
  <2>6. ASSUME NEW d \in m..M PROVE B[d] = Row(d, B[d + 1])
    <3>1. CASE d = M
      <4>1. B[d] = Row(d, A[d + 1])
        <5>1. d = m \/ d \in (m + 1)..M
          BY <2>2
        <5> QED BY <2>3, <2>4, <2>5, <5>1
      <4> QED BY <3>1, <4>1, LastRow DEF M
    <3>2. CASE d # M
      <4>1. (d = m \/ d \in (m + 1)..M) /\ d + 1 \in (m + 1)..M
        BY <1>1, <2>2, <3>2
      <4>2. B[d + 1] = A[d + 1]
        BY <2>4, <4>1
      <4> QED BY <2>3, <2>4, <2>5, <4>1, <4>2
    <3> QED BY <3>1, <3>2
  <2>7. B = [d \in m..M |-> Row(d, B[d + 1])]
    <3>1. B = [d \in m..M |-> B[d]]
      BY DEF B
    <3> QED BY <2>6, <3>1
  <2>8. Checks(B, m)
    BY <2>7 DEF Checks, M
  <2> QED BY <2>8 DEF m
<1> HIDE DEF T
<1>4. Nat \subseteq T
  BY <1>2, <1>3, SetInduction
<1>5. M \in T /\ M <= M /\ M - M = 0
  BY <1>1, <1>4
<1> QED BY <1>5 DEF T

LEMMA AssertImplIs ==
    /\ \A v \in Values : ~AssertImpl[MaxDepth + 1][v]
    /\ \A d \in 0..MaxDepth : \A v \in Values :
         AssertImpl[d][v] <=> /\ Json(v)
                              /\ kind[v] = "container" => \A w \in holds[v] : AssertImpl[d + 1][w]
<1> DEFINE M == MaxDepth + 1
<1>1. AssertImpl = CHOOSE A : Checks(A, 0)
  BY DEF AssertImpl, Checks, Row
<1>2. Checks(AssertImpl, 0)
  BY <1>1, ChecksExist, Zenon
<1>3. M \in Nat
  BY PayloadAssumption
<1>4. \A d \in 0..M : AssertImpl[d] = Row(d, AssertImpl[d + 1])
  BY <1>2 DEF Checks
<1>5. ASSUME NEW v \in Values PROVE ~AssertImpl[M][v]
  <2>1. AssertImpl[M] = Row(M, AssertImpl[M + 1])
    BY <1>3, <1>4
  <2>2. TooDeep(M)
    BY PayloadAssumption DEF TooDeep
  <2> HIDE DEF M
  <2> QED BY <2>1, <2>2, Zenon DEF Row
<1>6. ASSUME NEW d \in 0..MaxDepth, NEW v \in Values
      PROVE  AssertImpl[d][v] <=> /\ Json(v)
                                  /\ kind[v] = "container" => \A w \in holds[v] : AssertImpl[d + 1][w]
  <2>1. AssertImpl[d] = Row(d, AssertImpl[d + 1])
    BY <1>4, PayloadAssumption
  <2>2. ~TooDeep(d)
    BY PayloadAssumption DEF TooDeep
  <2> QED BY <2>1, <2>2, Zenon DEF Row
<1> QED BY <1>5, <1>6

PayloadOK ==
    /\ kind \in [Values -> Kinds]
    /\ holds \in Graph
    /\ \A v \in Values : kind[v] # "container" => holds[v] = {}

\* An accepted payload has no level below the limit, and only JSON above it.
LEMMA AcceptedLevels ==
    ASSUME PayloadOK, Accepts
    PROVE  /\ Level[MaxDepth + 1] = {}
           /\ \A n \in 0..Steps : \A v \in Level[n] : Json(v)
<1> DEFINE T == {n \in Nat : n <= MaxDepth + 1 => \A v \in Level[n] : AssertImpl[n][v]}
<1>1. /\ holds \in Graph /\ MaxDepth \in Nat /\ Steps \in Nat /\ MaxDepth + 1 <= Steps
  BY SizesKnown, PayloadAssumption DEF PayloadOK, Sized, Steps
<1>2. 0 \in T
  BY <1>1, LevelFacts DEF Accepts
<1>3. ASSUME NEW n \in Nat, n \in T PROVE n + 1 \in T
  <2> SUFFICES ASSUME n + 1 <= MaxDepth + 1, NEW w \in Level[n + 1] PROVE AssertImpl[n + 1][w]
    OBVIOUS
  <2>1. n \in 0..MaxDepth /\ n \in 0..Steps /\ n + 1 <= Steps
    BY <1>1
  <2>2. PICK v \in Level[n] : w \in holds[v]
    BY <1>1, <2>1, LevelFacts
  <2>3. v \in Values /\ AssertImpl[n][v]
    BY <1>1, <1>3, <2>1, LevelFacts
  <2>4. kind[v] = "container"
    BY <2>2, <2>3 DEF PayloadOK
  <2> QED BY <2>1, <2>2, <2>3, <2>4, AssertImplIs
<1> HIDE DEF T
<1>4. Nat \subseteq T
  BY <1>2, <1>3, SetInduction
<1>5. Level[MaxDepth + 1] = {}
  <2>1. MaxDepth + 1 \in T /\ MaxDepth + 1 \in 0..Steps
    BY <1>1, <1>4
  <2>2. \A v \in Level[MaxDepth + 1] : v \in Values /\ AssertImpl[MaxDepth + 1][v]
    BY <1>1, <2>1, LevelFacts DEF T
  <2> QED BY <2>2, AssertImplIs
<1>6. ASSUME NEW n \in 0..Steps, NEW v \in Level[n] PROVE Json(v)
  <2>1. n \in 0..MaxDepth
    <3>1. CASE n <= MaxDepth
      BY <1>1, <3>1
    <3>2. CASE n > MaxDepth
      <4>1. MaxDepth + 1 \in 0..Steps /\ n \in (MaxDepth + 1)..Steps
        BY <1>1, <3>2
      <4>2. Level[n] = {}
        BY <1>1, <1>5, <4>1, EmptyBelow
      <4> QED BY <4>2
    <3> QED BY <1>1, <3>1, <3>2
  <2>2. n \in T /\ v \in Values
    BY <1>1, <1>4, LevelFacts
  <2>3. AssertImpl[n][v]
    BY <1>1, <2>1, <2>2 DEF T
  <2> QED BY <2>1, <2>2, <2>3, AssertImplIs
<1> QED BY <1>5, <1>6

\* The levels that Reached and Cyclic look at.
LEMMA ReachedLevels == \A v : v \in Reached <=> \E n \in 0..Cardinality(Values) : v \in Level[n]
<1> DEFINE At(n) == Level[n]
<1>1. \A v : v \in Reached <=> \E n \in 0..Cardinality(Values) : v \in At(n)
  BY Zenon DEF Reached
<1> QED BY <1>1

\* What is accepted is stored as it is.
LEMMA AcceptedSame == ASSUME PayloadOK, Accepts PROVE Stringified = "same"
<1>1. /\ holds \in Graph /\ Cardinality(Values) \in Nat /\ MaxDepth \in Nat
      /\ Steps = Cardinality(Values) + MaxDepth
  BY SizesKnown, PayloadAssumption DEF PayloadOK, Sized, Steps
<1>2. ~Cyclic
  BY <1>1, AcceptedLevels, ShortOrEndless DEF Cyclic
<1>3. ASSUME NEW v \in Reached PROVE kind[v] # "bigint" /\ kind[v] # "lossy"
  <2>1. PICK n \in 0..Cardinality(Values) : v \in Level[n]
    BY ReachedLevels
  <2>2. n \in 0..Steps
    BY <1>1
  <2>3. Json(v)
    BY <2>1, <2>2, AcceptedLevels
  <2> QED BY <2>3 DEF Json
<1> QED BY <1>2, <1>3 DEF Stringified

\* What is refused is altered by JSON, contains itself, or is deeper than the limit.
LEMMA RefusedForCause ==
    ASSUME PayloadOK, ~Accepts PROVE Stringified # "same" \/ Level[MaxDepth + 1] # {}
<1> SUFFICES ASSUME Stringified = "same", Level[MaxDepth + 1] = {} PROVE Accepts
  OBVIOUS
<1> DEFINE M == MaxDepth + 1
           T == {k \in Nat : k <= M => \A v \in Level[M - k] : AssertImpl[M - k][v]}
<1>1. /\ holds \in Graph /\ Cardinality(Values) \in Nat /\ MaxDepth \in Nat
      /\ Steps = Cardinality(Values) + MaxDepth /\ Cardinality(Values) > 0
  BY SizesKnown, PayloadAssumption DEF PayloadOK, Sized, Steps
<1>2. ~Cyclic /\ \A v \in Reached : kind[v] # "bigint" /\ kind[v] # "lossy"
  BY DEF Stringified
<1>3. ASSUME NEW n \in 0..Steps, NEW v \in Level[n] PROVE v \in Values /\ Json(v)
  <2>1. v \in Values
    BY <1>1, LevelFacts
  <2>2. n <= Cardinality(Values)
    <3> SUFFICES ASSUME n > Cardinality(Values) PROVE FALSE
      BY <1>1
    <3>1. Cardinality(Values) \in 0..Steps /\ n \in Cardinality(Values)..Steps
      BY <1>1
    <3>2. Level[n] = {}
      BY <1>1, <1>2, <3>1, EmptyBelow DEF Cyclic
    <3> QED BY <3>2
  <2>3. v \in Reached
    BY <1>1, <2>2, ReachedLevels
  <2>4. kind[v] \in Kinds
    BY <2>1 DEF PayloadOK
  <2> QED BY <1>2, <2>1, <2>3, <2>4 DEF Json, Kinds
<1>4. 0 \in T
  BY <1>1
<1>5. ASSUME NEW k \in Nat, k \in T PROVE k + 1 \in T
  <2> SUFFICES ASSUME k + 1 <= M, NEW v \in Level[M - (k + 1)] PROVE AssertImpl[M - (k + 1)][v]
    OBVIOUS
  <2> DEFINE d == M - (k + 1)
  <2>1. d \in 0..MaxDepth /\ d \in 0..Steps /\ d + 1 <= Steps /\ d + 1 = M - k /\ k <= M
    BY <1>1
  <2> HIDE DEF d
  <2>2. v \in Level[d]
    BY DEF d
  <2>3. v \in Values /\ Json(v)
    BY <1>3, <2>1, <2>2
  <2>4. \A w \in Level[d + 1] : AssertImpl[d + 1][w]
    BY <1>5, <2>1
  <2>5. \A w \in holds[v] : w \in Level[d + 1]
    BY <1>1, <2>1, <2>2, LevelFacts
  <2>6. AssertImpl[d][v]
    BY <2>1, <2>3, <2>4, <2>5, AssertImplIs
  <2> QED BY <2>6 DEF d
<1> HIDE DEF T
<1>6. Nat \subseteq T
  BY <1>4, <1>5, SetInduction
<1>7. M \in T /\ M <= M /\ M - M = 0
  BY <1>1, <1>6
<1>8. \A v \in Level[0] : AssertImpl[0][v]
  BY <1>7 DEF T
<1> QED BY <1>1, <1>8, LevelFacts DEF Accepts

-------------------------------------------------------------------------------
\* The verdict tells what the check said, as long as the owner leaves the payload alone.
PayloadInv ==
    /\ PayloadOK
    /\ changes \in Nat
    /\ phase \in {"called", "connecting"} => verdict = "none"
    /\ CheckExact

LEMMA PayloadStarts == PayloadInit => PayloadInv
BY DEF PayloadInit, PayloadInv, PayloadOK, Graph, CheckExact, AcceptedIsFaithful, RejectedForCause

LEMMA PayloadStep == PayloadInv /\ [PayloadNext]_call => PayloadInv'
<1> SUFFICES ASSUME PayloadInv, [PayloadNext]_call PROVE PayloadInv'
  OBVIOUS
<1> USE DEF PayloadInv
<1>1. holds \in Graph
  BY DEF PayloadOK
<1>2. ASSUME UNCHANGED <<kind, holds>>
      PROVE  PayloadOK' /\ Stringified' = Stringified /\ Level' = Level
  <2>1. Level' = Level
    BY <1>1, <1>2, LevelStays
  <2>2. Reached' = Reached
    BY <2>1, Zenon DEF Reached
  <2>3. Stringified' = Stringified
    BY <1>2, <2>1, <2>2 DEF Stringified, Cyclic
  <2> QED BY <1>2, <2>1, <2>3 DEF PayloadOK
<1>3. CASE Check
  <2>1. PayloadOK' /\ Stringified' = Stringified /\ Level' = Level
    BY <1>2, <1>3 DEF Check
  <2>2. CASE Accepts
    <3>1. Stringified' = "same"
      BY <2>1, <2>2, AcceptedSame
    <3> QED BY <1>3, <2>1, <2>2, <3>1 DEF Check, CheckExact, AcceptedIsFaithful, RejectedForCause
  <2>3. CASE ~Accepts
    <3>1. (Stringified # "same" \/ Level[MaxDepth + 1] # {})'
      BY <2>1, <2>3, RefusedForCause
    <3> QED BY <1>3, <2>1, <2>3, <3>1 DEF Check, CheckExact, AcceptedIsFaithful, RejectedForCause
  <2> QED BY <2>2, <2>3
<1>4. ASSUME NEW v \in Values, NEW elements \in SUBSET Values, OwnerChanges(v, elements)
      PROVE  PayloadInv'
  <2>1. PayloadOK'
    BY <1>4 DEF OwnerChanges, PayloadOK, Graph
  <2>2. changes' \in Nat /\ changes' # 0 /\ phase' = "connecting" /\ verdict' = "none"
    BY <1>4 DEF OwnerChanges
  <2> QED BY <2>1, <2>2 DEF CheckExact, AcceptedIsFaithful, RejectedForCause
<1>5. ASSUME Write \/ ConnectFails \/ UNCHANGED call PROVE PayloadInv'
  <2>1. PayloadOK' /\ Stringified' = Stringified /\ Level' = Level
    BY <1>2, <1>5 DEF Write, ConnectFails, call
  <2>2. CASE Write \/ ConnectFails
    <3>1. /\ phase = "connecting" /\ changes' = changes /\ phase' \in {"ended", "unreachable"}
          /\ verdict' \in {"ClientConnectionError", "stored"}
      BY <2>2 DEF Write, ConnectFails
    <3> QED BY <2>1, <3>1 DEF CheckExact, AcceptedIsFaithful, RejectedForCause
  <2>3. CASE UNCHANGED call
    BY <2>1, <2>3 DEF call, CheckExact, AcceptedIsFaithful, RejectedForCause
  <2> QED BY <1>5, <2>2, <2>3
<1> QED BY <1>3, <1>4, <1>5 DEF PayloadNext

\* serialization.ts, for every graph of values and every depth limit: what the check
\* accepts comes back from the queue as it went in, unless its owner changes it before
\* it is written; what the check refuses, JSON would alter or could not write, or it is
\* deeper than the limit.
THEOREM CheckExactHolds == PayloadSpec => []CheckExact
<1>1. PayloadSpec => []PayloadInv
  BY PayloadStarts, PayloadStep, PTL DEF PayloadSpec
<1>2. PayloadInv => CheckExact
  BY DEF PayloadInv
<1> QED BY <1>1, <1>2, PTL

===============================================================================
