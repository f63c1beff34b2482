------------------------------- MODULE Retention -------------------------------
(***************************************************************************)
(* Which finished jobs a queue keeps: the retention rules, the Lua fragment *)
(* that applies them to an index (a ZSET scored by finishing time), and    *)
(* what the rest of the models assume of its result.                       *)
(***************************************************************************)
EXTENDS Integers, FiniteSets

\* A resolved policy; -1 stands for no bound.
Policy(mode, ttl, count) == [mode |-> mode, ttl |-> ttl, count |-> count]

Delete == Policy("delete", -1, -1)
Keep   == Policy("keep", -1, -1)

\* A rule is absent, a boolean, or optional bounds (-1 when not given).
Resolved(rule, fallback) ==
    LET effective == IF rule.is = "absent" THEN fallback ELSE rule IN
    CASE effective.is = "false"  -> Delete
      [] effective.is = "true"   -> Keep
      [] effective.is = "bounds" ->
            IF effective.ttl < 0 /\ effective.count < 0 THEN Keep
            ELSE Policy("trim", effective.ttl, effective.count)

-------------------------------------------------------------------------------
(* The fragment itself, on an index of [job, score] entries.  Entries with  *)
(* one score are ordered by their member, here by their number.             *)

Precedes(a, b) == a.score < b.score \/ (a.score = b.score /\ a.job < b.job)

\* ZRANGE index 0 n-1
Oldest(index, n) == {e \in index : Cardinality({d \in index : Precedes(d, e)}) < n}

\* ZRANGEBYSCORE index 0 cutoff.  Mutant: "(cutoff" instead of "cutoff".
AgedBefore(index, now, ttl) == {e \in index : e.score < now - ttl}
Aged(index, now, ttl) == {e \in index : e.score <= now - ttl}

\* Mutant: ranks 0 to overflow, one too many.
OverflowingByOne(index, count) ==
    IF Cardinality(index) > count THEN Oldest(index, Cardinality(index) - count + 1) ELSE {}
Overflowing(index, count) ==
    IF Cardinality(index) > count THEN Oldest(index, Cardinality(index) - count) ELSE {}

\* The entries whose index member and hash are removed after "entry" is added.
Evicted(policy, index, entry, now) ==
    IF policy.mode # "trim" THEN {}
    ELSE LET added == index \cup {entry}
             aged  == IF policy.ttl >= 0 THEN Aged(added, now, policy.ttl) ELSE {}
             over  == IF policy.count >= 0 THEN Overflowing(added \ aged, policy.count) ELSE {}
         IN  aged \cup over

-------------------------------------------------------------------------------
(* What remains of an index "old" of job ids after the fragment has added   *)
(* "new" to it, without the scores: the policy fixes how many entries stay, *)
(* the scores decide which.  A ttl is 0 (the new entry is too old at once)  *)
(* or positive, whatever its value; an old entry may outlive either, for    *)
(* the clock that gave its score may have been set back since.              *)

Policies == [mode : {"delete", "keep", "trim"}, ttl : -1..1, count : Nat \cup {-1}]

Smaller(a, b) == IF a <= b THEN a ELSE b

Trimmed(policy, old, new) ==
    UNION { LET fresh == (old \ aged) \cup (IF policy.ttl = 0 THEN {} ELSE new)
                size  == IF policy.count < 0 THEN Cardinality(fresh)
                         ELSE Smaller(policy.count, Cardinality(fresh))
            IN  {S \in SUBSET fresh : Cardinality(S) = size}
          : aged \in IF policy.ttl < 0 THEN {{}} ELSE SUBSET old }

Survivors(policy, old, new) ==
    CASE policy.mode = "delete" -> {old}
      [] policy.mode = "keep"   -> {old \cup new}
      [] policy.mode = "trim"   -> Trimmed(policy, old, new)

===============================================================================
