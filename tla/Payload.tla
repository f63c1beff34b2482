-------------------------------- MODULE Payload --------------------------------
(***************************************************************************)
(* The payload of one enqueue() call: the check it must pass, the await of *)
(* the connection during which its owner may change it, and the JSON that  *)
(* is stored.                                                              *)
(*                                                                         *)
(* A payload is a graph: values are nodes, arrays and objects point to     *)
(* what they hold.  Values may be shared, and may contain themselves.      *)
(***************************************************************************)
EXTENDS Naturals, FiniteSets

CONSTANTS
    Values,         \* the values a payload can be built from
    Root,           \* the value passed to enqueue()
    MaxDepth,       \* MAX_DEPTH
    MaxChanges      \* bound: changes made by the owner during the call

ASSUME PayloadAssumption ==
    /\ IsFiniteSet(Values) /\ Root \in Values
    /\ MaxDepth \in Nat
    /\ MaxChanges \in Nat

VARIABLES
    kind,       \* what each value is
    holds,      \* the elements of each array or object
    phase,      \* where the call is
    verdict,    \* how it ended
    written,    \* what its JSON says, compared with the payload
    changes     \* number of changes by the owner so far

call == <<kind, holds, phase, verdict, written, changes>>

\* "scalar": null, strings, booleans, finite numbers; "lossy": undefined, functions,
\* symbols, NaN, dates, maps and other instances, which JSON drops or turns into
\* something else; "bigint" makes JSON.stringify throw, as a cycle does.
Kinds == {"container", "scalar", "lossy", "bigint"}

\* Mutant: the limit is taken for the number of levels.
TooDeepByOne(depth) == depth >= MaxDepth
TooDeep(depth) == depth > MaxDepth

\* Mutant: instances and the like are let pass.
JsonOrLossy(v) == kind[v] # "bigint"
Json(v) == kind[v] \in {"container", "scalar"}

\* _assertImpl(value, path, depth)
AssertImpl[depth \in 0..MaxDepth + 1] == [v \in Values |->
    /\ ~TooDeep(depth)
    /\ Json(v)
    /\ kind[v] = "container" => \A w \in holds[v] : AssertImpl[depth + 1][w]]

\* assertJsonSerializable(value)
Accepts == AssertImpl[0][Root]

-------------------------------------------------------------------------------
\* The values some path of n steps from the root ends in.
Level[n \in 0..Cardinality(Values) + MaxDepth] ==
    IF n = 0 THEN {Root} ELSE UNION {holds[v] : v \in Level[n - 1]}

Reached == UNION {Level[n] : n \in 0..Cardinality(Values)}

\* A path of as many steps as there are values meets one of them twice.
Cyclic == Level[Cardinality(Values)] # {}

\* JSON.stringify, and JSON.parse at the worker.
Stringified ==
    IF Cyclic \/ \E v \in Reached : kind[v] = "bigint" THEN "throws"
    ELSE IF \E v \in Reached : kind[v] = "lossy" THEN "altered"
    ELSE "same"

-------------------------------------------------------------------------------
PayloadInit ==
    /\ kind \in [Values -> Kinds]
    /\ holds \in {h \in [Values -> SUBSET Values] : \A v \in Values : kind[v] # "container" => h[v] = {}}
    /\ phase = "called"
    /\ verdict = "none"
    /\ written = "nothing"
    /\ changes = 0

Check ==
    /\ phase = "called"
    /\ \/ Accepts /\ phase' = "connecting" /\ UNCHANGED verdict
       \/ ~Accepts /\ phase' = "ended" /\ verdict' = "SerializationError"
    /\ UNCHANGED <<kind, holds, written, changes>>

\* The owner of the payload goes on using it while the call awaits its connection.
OwnerChanges(v, elements) ==
    /\ phase = "connecting"
    /\ changes < MaxChanges
    /\ kind[v] = "container"
    /\ holds' = [holds EXCEPT ![v] = elements]
    /\ changes' = changes + 1
    /\ UNCHANGED <<kind, phase, verdict, written>>

\* The connection stands: the payload is written as JSON.  The error that throws is
\* caught with those of the connection.
Write ==
    /\ phase = "connecting"
    /\ phase' = "ended"
    /\ IF Stringified = "throws"
       THEN verdict' = "ClientConnectionError" /\ UNCHANGED written
       ELSE verdict' = "stored" /\ written' = Stringified
    /\ UNCHANGED <<kind, holds, changes>>

ConnectFails ==
    /\ phase = "connecting"
    /\ phase' = "unreachable"
    /\ verdict' = "ClientConnectionError"
    /\ UNCHANGED <<kind, holds, written, changes>>

PayloadNext ==
    \/ Check
    \/ \E v \in Values, elements \in SUBSET Values : OwnerChanges(v, elements)
    \/ Write
    \/ ConnectFails

PayloadSpec == PayloadInit /\ [][PayloadNext]_call

-------------------------------------------------------------------------------
\* What is accepted comes back from the queue as it went in, although JSON.stringify
\* neither rejects what it cannot represent nor survives a payload that contains
\* itself: a payload its owner leaves alone is refused as such or stored unaltered.
AcceptedIsFaithful == phase # "called" /\ changes = 0 =>
    verdict = "SerializationError" \/ Stringified = "same"

\* Nothing else is refused: only what JSON would alter, what contains itself, and
\* what has a path of more than MaxDepth steps.
RejectedForCause ==
    verdict = "SerializationError" => Stringified # "same" \/ Level[MaxDepth + 1] # {}

\* serialization.ts refuses exactly what JSON cannot bring back.
CheckExact == AcceptedIsFaithful /\ RejectedForCause

===============================================================================
