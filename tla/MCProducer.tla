------------------------------ MODULE MCProducer ------------------------------
(***************************************************************************)
(* Small instances of what a producer process is made of: the client with  *)
(* its connection, and the payload of one call.  They share no variable,   *)
(* so a behaviour is of one of them while the other stays as it began.     *)
(***************************************************************************)
EXTENDS ClientConnection, Payload

VARIABLE subject   \* the one a behaviour is about

producerVars == <<producer, call, subject>>

\* Bound: not every value of a payload is an array or an object.
ProducerInit ==
    /\ ClientInit
    /\ PayloadInit
    /\ \E leaf \in Values : kind[leaf] # "container"
    /\ \/ subject = "payload" /\ reachable
       \/ subject = "connection" /\ kind = [v \in Values |-> "scalar"]

ClientStep  == subject = "connection" /\ ClientNext /\ UNCHANGED <<call, subject>>
PayloadStep == subject = "payload" /\ PayloadNext /\ UNCHANGED <<producer, subject>>

\* A client that nobody has called yet is asked for no step.
ProducerSpec ==
    /\ ProducerInit
    /\ [][ClientStep \/ PayloadStep]_producerVars
    /\ ClientFairness

===============================================================================
