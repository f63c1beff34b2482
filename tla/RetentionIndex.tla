---------------------------- MODULE RetentionIndex ----------------------------
(***************************************************************************)
(* One index of finished jobs with its scores, under rules that may change *)
(* from one deployment to the next and a clock that may be set back.       *)
(***************************************************************************)
EXTENDS Retention

CONSTANTS
    Jobs,       \* job ids, numbered in the order of their strings
    Rules,      \* the retention rules deployments configure
    Fallback,   \* the rule used when none is configured
    Times       \* the clock's readings, in ms (bound)

ASSUME IndexAssumption == Jobs \subseteq Nat /\ Times \subseteq Nat
ASSUME RuleAssumption ==
    /\ Fallback.is # "absent"
    /\ \A rule \in Rules \cup {Fallback} :
         /\ rule.is \in {"absent", "false", "true", "bounds"}
         /\ rule.is = "bounds" => rule.ttl \in Int /\ rule.count \in Int

VARIABLES
    now,        \* what Redis TIME returns
    zset,       \* the ZSET of finished jobs and the scores they got
    hashes,     \* the finished jobs whose hash exists
    finished,   \* history: the jobs that have finished
    last        \* history: the policy of the last one

indexVars == <<now, zset, hashes, finished, last>>

Entries == [job : Jobs, score : Times]
Members(entries) == {e.job : e \in entries}

IndexInit ==
    /\ now \in Times
    /\ zset = {}
    /\ hashes = {}
    /\ finished = {}
    /\ last = Keep

\* Mutant: the index is trimmed, the hashes of what it drops are left.
FinishLeaking(j, p) ==
    /\ j \notin finished
    /\ finished' = finished \cup {j}
    /\ last' = p
    /\ LET entry   == [job |-> j, score |-> now]
           evicted == Evicted(p, zset, entry, now)
       IN IF p.mode = "delete"
          THEN UNCHANGED <<zset, hashes>>
          ELSE /\ zset' = (zset \cup {entry}) \ evicted
               /\ hashes' = hashes \cup {j}
    /\ UNCHANGED now

\* Mutant: a job may be finished twice.
FinishAgain(j, p) ==
    /\ finished' = finished \cup {j}
    /\ last' = p
    /\ LET entry   == [job |-> j, score |-> now]
           evicted == Evicted(p, zset, entry, now)
       IN IF p.mode = "delete"
          THEN UNCHANGED <<zset, hashes>>
          ELSE /\ zset' = (zset \cup {entry}) \ evicted
               /\ hashes' = (hashes \cup {j}) \ Members(evicted)
    /\ UNCHANGED now

\* The script that finishes a job runs the fragment.
Finish(j, p) ==
    /\ j \notin finished
    /\ finished' = finished \cup {j}
    /\ last' = p
    /\ LET entry   == [job |-> j, score |-> now]
           evicted == Evicted(p, zset, entry, now)
       IN IF p.mode = "delete"
          THEN UNCHANGED <<zset, hashes>>
          ELSE /\ zset' = (zset \cup {entry}) \ evicted
               /\ hashes' = (hashes \cup {j}) \ Members(evicted)
    /\ UNCHANGED now

ClockMoves ==
    /\ now' \in Times \ {now}
    /\ UNCHANGED <<zset, hashes, finished, last>>

IndexNext ==
    \/ \E j \in Jobs, rule \in Rules : Finish(j, Resolved(rule, Fallback))
    \/ ClockMoves

IndexSpec == IndexInit /\ [][IndexNext]_indexVars

-------------------------------------------------------------------------------
\* The index holds finished jobs, each with one score.
IndexTypeOK ==
    /\ now \in Times
    /\ zset \subseteq Entries
    /\ Cardinality(zset) = Cardinality(Members(zset))
    /\ hashes \subseteq finished
    /\ finished \subseteq Jobs

\* The index and the hashes never part: no finished hash outlives its index
\* entry (it would never be removed), no entry outlives its hash.
NothingDangles == IndexTypeOK /\ hashes = Members(zset)

\* The declarative reading of a rule: a job is kept if it is younger than ttl
\* and fewer than count of the young ones finished after it.
Stays(e, entries, p) ==
    LET young == {d \in entries : p.ttl < 0 \/ d.score > now - p.ttl} IN
    /\ e \in young
    /\ \/ p.count < 0
       \/ Cardinality({d \in young : Precedes(e, d)}) < p.count

\* A step that finishes a job leaves what the rule asks for, whatever was kept
\* under earlier rules and in whatever order the clock gave the scores.
KeepsTheNewest(j) ==
    LET entries == zset \cup {[job |-> j, score |-> now]} IN
    zset' = IF last'.mode = "delete" THEN zset ELSE {e \in entries : Stays(e, entries, last')}

\* The result is one of those the queue models allow for.
Coarse(p) == [p EXCEPT !.ttl = IF @ > 0 THEN 1 ELSE @]
WithinSurvivors(j) ==
    Members(zset)' \in Survivors(Coarse(last'), Members(zset), {j})

\* retention-lua.ts trims by score and size what the rule describes by age and
\* rank: every finishing job leaves exactly that, ties and clock jumps included.
TrimmedByRule ==
    [][\A j \in finished' \ finished : KeepsTheNewest(j) /\ WithinSurvivors(j)]_indexVars

===============================================================================
