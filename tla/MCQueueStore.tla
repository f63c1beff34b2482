----------------------------- MODULE MCQueueStore -----------------------------
(***************************************************************************)
(* Small instances of QueueStore and RetentionIndex for TLC: what Redis    *)
(* keeps of a queue, and one of its indexes with real scores.  The two     *)
(* share no variable; a behaviour is of one of them, the other idle.       *)
(***************************************************************************)
EXTENDS QueueStoreLifecycle, RetentionIndex, TLC

VARIABLE subject  \* which of the two a behaviour is about

allVars == <<vars, indexVars, subject>>

DeletePolicy == [mode |-> "delete", ttl |-> -1, count |-> -1]
KeepPolicy   == [mode |-> "keep", ttl |-> -1, count |-> -1]
CountPolicy  == [mode |-> "trim", ttl |-> -1, count |-> 1]
TtlPolicy    == [mode |-> "trim", ttl |-> 1, count |-> -1]

MCCompletedPolicies == {DeletePolicy, CountPolicy}
MCFailedPolicies    == {KeepPolicy, TtlPolicy}

Unset    == [is |-> "absent"]
KeepAll  == [is |-> "true"]
KeepNone == [is |-> "false"]
KeepUpTo(ttl, count) == [is |-> "bounds", ttl |-> ttl, count |-> count]

MCRules == {Unset, KeepAll, KeepNone, KeepUpTo(-1, -1), KeepUpTo(0, -1), KeepUpTo(2, -1),
            KeepUpTo(-1, 0), KeepUpTo(-1, 2), KeepUpTo(2, 1), KeepUpTo(0, 1)}
MCFallback == KeepUpTo(2, 2)

\* Two jobs with every budget; a third that contends with them when they may
\* not be retried and are not handed back.
StoreBounds ==
    \/ Len(born) <= 2
    \/ \A j \in JobIds :
          /\ handoffs[j] = 0
          /\ Exists(j) => hash[j].maxRetries = 0 /\ hash[j].maxStalls = 1

MCInit ==
    /\ Init
    /\ IndexInit
    /\ subject \in {"store", "retention"}
    /\ subject = "store" => now = CHOOSE t \in Times : TRUE

StoreStep == subject = "store" /\ Next /\ StoreBounds' /\ UNCHANGED <<indexVars, subject>>
IndexStep == subject = "retention" /\ IndexNext /\ UNCHANGED <<vars, subject>>

MCSpec == MCInit /\ [][StoreStep \/ IndexStep]_allVars

Symmetry == Permutations(JobIds)

===============================================================================
