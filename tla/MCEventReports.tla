---------------------------- MODULE MCEventReports ----------------------------
(***************************************************************************)
(* Small instances of EventReports for TLC: connections that lose replies  *)
(* and hashes that are lost, or jobs that may be retried after a failure.  *)
(***************************************************************************)
EXTENDS EventReports, TLC

VARIABLE lossy  \* which of the two a behaviour belongs to

DeletePolicy == [mode |-> "delete", ttl |-> -1, count |-> -1]
KeepPolicy   == [mode |-> "keep", ttl |-> -1, count |-> -1]

MCDelete == {DeletePolicy}
MCKeep   == {KeepPolicy}

ReportsBounds ==
    /\ ~lossy => losses = 0 /\ \A j \in JobIds : outcome[j] # "lost"
    /\ \A j \in JobIds : Exists(j) =>
         hash[j].maxRetries = IF lossy \/ j \in Garbled THEN 0 ELSE 1

MCReportsSpec ==
    /\ lossy \in BOOLEAN /\ ReportsInit
    /\ [][ReportsNext /\ lossy' = lossy /\ ReportsBounds']_<<observed, lossy>>
===============================================================================
