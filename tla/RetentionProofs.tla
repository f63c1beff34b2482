---------------------------- MODULE RetentionProofs ----------------------------
(***************************************************************************)
(* The Lua fragment that trims an index keeps what the rule describes, for *)
(* any jobs, any rules and any readings of the clock, and what it keeps is *)
(* among the outcomes the queue models allow for.                          *)
(***************************************************************************)
EXTENDS RetentionIndex, FiniteSetTheorems, TLAPS

Scored == [job : Nat, score : Nat]
Before(S, e) == {d \in S : Precedes(d, e)}
After(S, e) == {d \in S : Precedes(e, d)}
Rank(S, e) == Cardinality(Before(S, e))

\* One entry per job.
Distinct(S) == \A a, b \in S : a.job = b.job => a = b

-------------------------------------------------------------------------------
(* The order of an index. *)

LEMMA TotalOrder ==
    ASSUME NEW a \in Scored, NEW b \in Scored
    PROVE  /\ ~ Precedes(a, a)
           /\ a # b => Precedes(a, b) \/ Precedes(b, a)
           /\ Precedes(a, b) => ~ Precedes(b, a)
<1>1. /\ a.job \in Nat /\ a.score \in Nat /\ a = [job |-> a.job, score |-> a.score]
      /\ b.job \in Nat /\ b.score \in Nat /\ b = [job |-> b.job, score |-> b.score]
  BY DEF Scored
<1>2. a # b => a.job # b.job \/ a.score # b.score
  BY <1>1
<1> QED BY <1>1, <1>2 DEF Precedes

LEMMA Transitive ==
    ASSUME NEW a \in Scored, NEW b \in Scored, NEW c \in Scored, Precedes(a, b), Precedes(b, c)
    PROVE  Precedes(a, c)
<1>1. /\ a.job \in Nat /\ a.score \in Nat /\ b.job \in Nat /\ b.score \in Nat
      /\ c.job \in Nat /\ c.score \in Nat
  BY DEF Scored
<1> QED BY <1>1 DEF Precedes

\* What precedes an entry, the entry and what follows it make up the index.
LEMMA RankSplits ==
    ASSUME NEW S \in SUBSET Scored, IsFiniteSet(S), NEW e \in S
    PROVE  /\ Rank(S, e) \in Nat /\ Cardinality(After(S, e)) \in Nat
           /\ Rank(S, e) + 1 + Cardinality(After(S, e)) = Cardinality(S)
<1> DEFINE B == Before(S, e)
           A == After(S, e)
<1>1. B \subseteq S /\ A \subseteq S
  BY DEF Before, After
<1>2. IsFiniteSet(B) /\ IsFiniteSet(A)
  BY <1>1, FS_Subset
<1>3. Cardinality(B) \in Nat /\ Cardinality(A) \in Nat
  BY <1>2, FS_CardinalityType
<1>4. e \notin B
  BY TotalOrder DEF Before
<1>5. (B \cup {e}) \cap A = {}
  BY TotalOrder DEF Before, After
<1>6. (B \cup {e}) \cup A = S
  BY TotalOrder DEF Before, After
<1> HIDE DEF A, B
<1>7. IsFiniteSet(B \cup {e}) /\ Cardinality(B \cup {e}) = Cardinality(B) + 1
  BY <1>2, <1>4, FS_AddElement
<1>8. Cardinality((B \cup {e}) \cup A)
        = Cardinality(B \cup {e}) + Cardinality(A) - Cardinality((B \cup {e}) \cap A)
  BY <1>2, <1>7, FS_Union
<1>9. Cardinality({}) = 0
  BY FS_EmptySet
<1>10. Cardinality(S) = Cardinality(B \cup {e}) + Cardinality(A) - 0
  BY <1>5, <1>6, <1>8, <1>9, Zenon
<1>11. Cardinality(S) = Cardinality(B) + 1 + Cardinality(A)
  BY <1>3, <1>7, <1>10
<1> QED BY <1>3, <1>11 DEF Rank, A, B

LEMMA RankGrows ==
    ASSUME NEW S \in SUBSET Scored, IsFiniteSet(S), NEW a \in S, NEW b \in S, Precedes(a, b)
    PROVE  Rank(S, a) < Rank(S, b)
<1>1. Before(S, a) \subseteq Before(S, b) \ {a}
  <2> SUFFICES ASSUME NEW d \in S, Precedes(d, a) PROVE Precedes(d, b) /\ d # a
    BY DEF Before
  <2> QED BY Transitive, TotalOrder
<1>2. a \in Before(S, b)
  BY DEF Before
<1>3. IsFiniteSet(Before(S, b))
  BY FS_Subset DEF Before
<1>4. /\ IsFiniteSet(Before(S, b) \ {a})
      /\ Cardinality(Before(S, b) \ {a}) = Cardinality(Before(S, b)) - 1
  BY <1>2, <1>3, FS_RemoveElement
<1>5. Before(S, a) \in SUBSET (Before(S, b) \ {a})
  BY <1>1
<1>6. Cardinality(Before(S, a)) <= Cardinality(Before(S, b) \ {a})
  BY <1>4, <1>5, FS_Subset
<1>7. Rank(S, a) \in Nat /\ Rank(S, b) \in Nat
  BY RankSplits
<1> QED BY <1>4, <1>6, <1>7 DEF Rank

\* Each rank below the size of the index is that of one entry, so the n oldest are n.
LEMMA OldestCount ==
    ASSUME NEW S \in SUBSET Scored, IsFiniteSet(S), NEW n \in Nat, n <= Cardinality(S)
    PROVE  Cardinality(Oldest(S, n)) = n
<1> DEFINE N == Cardinality(S)
           T == Oldest(S, n)
<1>1. N \in Nat
  BY FS_CardinalityType
<1>2. \A e \in S : Rank(S, e) \in 0..(N - 1)
  BY <1>1, RankSplits
<1>3. \A a, b \in S : Rank(S, a) = Rank(S, b) => a = b
  <2> SUFFICES ASSUME NEW a \in S, NEW b \in S, a # b PROVE Rank(S, a) # Rank(S, b)
    OBVIOUS
  <2>1. Rank(S, a) \in Nat /\ Rank(S, b) \in Nat
    BY RankSplits
  <2>2. CASE Precedes(a, b)
    BY <2>1, <2>2, RankGrows
  <2>3. CASE Precedes(b, a)
    BY <2>1, <2>3, RankGrows
  <2> QED BY <2>2, <2>3, TotalOrder
<1> DEFINE f == [e \in S |-> Rank(S, e)]
<1>4. f \in Injection(S, 0..(N - 1))
  BY <1>2, <1>3 DEF Injection, IsInjective
<1>5. IsFiniteSet(0..(N - 1)) /\ Cardinality(0..(N - 1)) = N
  <2> HIDE DEF N
  <2> QED BY <1>1, FS_Interval
<1> HIDE DEF f
<1>6. f \in Surjection(S, 0..(N - 1))
  BY <1>4, <1>5, FS_Injection
<1> USE DEF f
<1>7. \A k \in 0..(N - 1) : \E e \in S : Rank(S, e) = k
  BY <1>6 DEF Surjection
<1>8. T = {e \in S : Rank(S, e) < n}
  BY DEF Oldest, Rank, Before
<1> DEFINE g == [e \in T |-> Rank(S, e)]
<1>9. \A e \in T : Rank(S, e) \in 0..(n - 1)
  BY <1>1, <1>2, <1>8
<1>10. \A k \in 0..(n - 1) : \E e \in T : Rank(S, e) = k
  BY <1>1, <1>7, <1>8
<1> HIDE DEF T
<1>11. T \subseteq S
  BY <1>8
<1>12. g \in Injection(T, 0..(n - 1))
  BY <1>3, <1>9, <1>11 DEF Injection, IsInjective
<1>13. g \in Surjection(T, 0..(n - 1))
  BY <1>9, <1>10 DEF Surjection
<1>14. IsFiniteSet(0..(n - 1)) /\ Cardinality(0..(n - 1)) = n
  BY FS_Interval
<1> HIDE DEF g
<1>15. Cardinality(T) = Cardinality(0..(n - 1))
  BY <1>12, <1>13, <1>14, FS_Injection
<1> QED BY <1>14, <1>15 DEF T

\* An index with one entry per job has as many jobs as entries.
LEMMA MembersCount ==
    ASSUME NEW S, IsFiniteSet(S), Distinct(S)
    PROVE  IsFiniteSet(Members(S)) /\ Cardinality(Members(S)) = Cardinality(S)
<1> DEFINE f == [e \in S |-> e.job]
<1>1. f \in Injection(S, Members(S))
  BY DEF Injection, IsInjective, Distinct, Members
<1>2. f \in Surjection(S, Members(S))
  BY DEF Surjection, Members
<1> HIDE DEF f
<1>3. f \in Bijection(S, Members(S))
  BY <1>1, <1>2 DEF Bijection
<1> QED BY <1>3, FS_Bijection DEF ExistsBijection

-------------------------------------------------------------------------------
(* The fragment. *)

ResolvedPolicies == [mode : {"delete", "keep", "trim"}, ttl : Int, count : Int]

LEMMA PolicyResolved ==
    ASSUME NEW rule \in Rules
    PROVE  /\ Resolved(rule, Fallback) \in ResolvedPolicies
           /\ Resolved(rule, Fallback).mode = "keep" =>
                /\ Resolved(rule, Fallback).ttl < 0
                /\ Resolved(rule, Fallback).count < 0
<1> DEFINE e == IF rule.is = "absent" THEN Fallback ELSE rule
           p == Resolved(rule, Fallback)
<1>1. /\ e.is \in {"false", "true", "bounds"}
      /\ e.is = "bounds" => e.ttl \in Int /\ e.count \in Int
  BY RuleAssumption
<1>2. /\ Delete = [mode |-> "delete", ttl |-> -1, count |-> -1]
      /\ Keep = [mode |-> "keep", ttl |-> -1, count |-> -1]
  BY DEF Delete, Keep, Policy
<1>3. CASE e.is = "false"
  <2>1. p = Delete
    BY <1>3 DEF Resolved
  <2> QED BY <1>2, <2>1 DEF ResolvedPolicies
<1>4. CASE e.is = "true"
  <2>1. p = Keep
    BY <1>4 DEF Resolved
  <2> QED BY <1>2, <2>1 DEF ResolvedPolicies
<1>5. CASE e.is = "bounds"
  <2>1. p = IF e.ttl < 0 /\ e.count < 0 THEN Keep
            ELSE [mode |-> "trim", ttl |-> e.ttl, count |-> e.count]
    BY <1>5 DEF Resolved, Policy
  <2> HIDE DEF e
  <2>2. e.ttl \in Int /\ e.count \in Int
    BY <1>1, <1>5
  <2> QED BY <1>2, <2>1, <2>2 DEF ResolvedPolicies
<1> QED BY <1>1, <1>3, <1>4, <1>5

\* The entries young enough to stay.
Young(p, S, t) == {d \in S : p.ttl < 0 \/ d.score > t - p.ttl}

\* What is evicted: the aged, and of the young all but the newest count.
LEMMA TrimKeeps ==
    ASSUME NEW p \in ResolvedPolicies, p.mode = "trim", NEW t \in Nat,
           NEW index, NEW entry, index \cup {entry} \in SUBSET Scored
    PROVE  LET young == Young(p, index \cup {entry}, t) IN
           (index \cup {entry}) \ Evicted(p, index, entry, t) =
               young \ (IF p.count >= 0 THEN Overflowing(young, p.count) ELSE {})
<1> DEFINE added == index \cup {entry}
           young == Young(p, added, t)
           aged == IF p.ttl >= 0 THEN Aged(added, t, p.ttl) ELSE {}
<1>1. p.ttl \in Int /\ p.count \in Int
  BY DEF ResolvedPolicies
<1>2. \A e \in added : e.score \in Nat
  BY DEF Scored
<1>3. added \ aged = young
  <2> HIDE DEF added
  <2> QED BY <1>1, <1>2 DEF Young, Aged
<1>4. Evicted(p, index, entry, t) =
        aged \cup (IF p.count >= 0 THEN Overflowing(added \ aged, p.count) ELSE {})
  BY DEF Evicted
<1> QED BY <1>3, <1>4

\* By size and rank or by how many finished after: the same entries stay.
LEMMA NewestStay ==
    ASSUME NEW S \in SUBSET Scored, IsFiniteSet(S), NEW count \in Int
    PROVE  S \ (IF count >= 0 THEN Overflowing(S, count) ELSE {}) =
             {e \in S : count < 0 \/ Cardinality(After(S, e)) < count}
<1> SUFFICES ASSUME NEW e \in S
             PROVE  e \notin (IF count >= 0 THEN Overflowing(S, count) ELSE {})
                      <=> count < 0 \/ Cardinality(After(S, e)) < count
  OBVIOUS
<1>1. CASE count < 0
  BY <1>1
<1>2. CASE count >= 0
  <2> DEFINE N == Cardinality(S)
             a == Cardinality(After(S, e))
             r == Rank(S, e)
  <2>1. N \in Nat
    BY FS_CardinalityType
  <2>2. r \in Nat /\ a \in Nat /\ r + 1 + a = N
    BY RankSplits
  <2>3. e \in Overflowing(S, count) <=> N > count /\ r < N - count
    BY DEF Overflowing, Oldest, Rank, Before
  <2> HIDE DEF N, a, r
  <2>4. e \notin Overflowing(S, count) <=> a < count
    BY <1>2, <2>1, <2>2, <2>3
  <2> QED BY <1>2, <2>4 DEF a
<1> QED BY <1>1, <1>2

-------------------------------------------------------------------------------
IndexInv ==
    /\ now \in Times
    /\ zset \subseteq Entries
    /\ IsFiniteSet(zset)
    /\ Distinct(zset)
    /\ hashes = Members(zset)
    /\ hashes \subseteq finished
    /\ finished \subseteq Jobs

\* The entry of a job that was not finished before is one more entry.
LEMMA Entering ==
    ASSUME IndexInv, NEW j \in Jobs, j \notin finished
    PROVE  LET added == zset \cup {[job |-> j, score |-> now]} IN
           /\ added \subseteq Entries /\ added \in SUBSET Scored
           /\ IsFiniteSet(added) /\ Distinct(added)
           /\ Members(added) = Members(zset) \cup {j}
<1> DEFINE entry == [job |-> j, score |-> now]
           added == zset \cup {entry}
<1>1. entry \in Entries /\ entry.job = j
  BY DEF IndexInv, Entries
<1>2. \A e \in zset : e.job # j
  BY DEF IndexInv, Members
<1>3. Entries \subseteq Scored
  BY IndexAssumption DEF Entries, Scored
<1> HIDE DEF entry
<1>4. added \subseteq Entries
  BY <1>1 DEF IndexInv
<1>5. IsFiniteSet(added)
  BY FS_AddElement DEF IndexInv
<1>6. Distinct(added)
  BY <1>1, <1>2 DEF IndexInv, Distinct
<1>7. Members(added) = Members(zset) \cup {j}
  BY <1>1 DEF Members
<1> QED BY <1>3, <1>4, <1>5, <1>6, <1>7 DEF entry

\* What is left of an index with one entry per job, and of its jobs.
LEMMA Leaving ==
    ASSUME NEW S, IsFiniteSet(S), Distinct(S), NEW T \in SUBSET S
    PROVE  /\ IsFiniteSet(S \ T) /\ Distinct(S \ T)
           /\ Members(S \ T) = Members(S) \ Members(T)
<1>1. IsFiniteSet(S \ T)
  BY FS_Subset
<1> QED BY <1>1 DEF Distinct, Members

LEMMA EvictedAreThere ==
    ASSUME NEW p, NEW index, NEW entry, NEW t
    PROVE  Evicted(p, index, entry, t) \subseteq index \cup {entry}
<1> DEFINE added == index \cup {entry}
<1>1. \A S, n : Oldest(S, n) \subseteq S
  BY DEF Oldest
<1>2. \A S, n : Overflowing(S, n) \subseteq S
  BY <1>1 DEF Overflowing
<1>3. Aged(added, t, p.ttl) \subseteq added
  BY DEF Aged
<1> HIDE DEF added
<1>4. added = index \cup {entry}
  BY DEF added
<1>5. CASE p.mode # "trim"
  BY <1>5 DEF Evicted
<1>6. CASE p.mode = "trim"
  <2> DEFINE aged == IF p.ttl >= 0 THEN Aged(added, t, p.ttl) ELSE {}
             over == IF p.count >= 0 THEN Overflowing(added \ aged, p.count) ELSE {}
  <2>1. Evicted(p, index, entry, t) = aged \cup over
    BY <1>4, <1>6 DEF Evicted
  <2>2. aged \subseteq added
    BY <1>3
  <2> HIDE DEF aged
  <2>3. over \subseteq added
    BY <1>2
  <2> QED BY <1>4, <2>1, <2>2, <2>3
<1> QED BY <1>5, <1>6

LEMMA IndexStarts == IndexInit => IndexInv
BY FS_EmptySet DEF IndexInit, IndexInv, Distinct, Members

LEMMA FinishPreserves ==
    ASSUME IndexInv, NEW j \in Jobs, NEW p, Finish(j, p)
    PROVE  IndexInv'
<1> DEFINE entry == [job |-> j, score |-> now]
           added == zset \cup {entry}
           evicted == Evicted(p, zset, entry, now)
<1>1. j \notin finished /\ finished' = finished \cup {j} /\ now' = now
  BY DEF Finish
<1>2. CASE p.mode = "delete"
  <2>1. UNCHANGED <<zset, hashes>>
    BY <1>2 DEF Finish
  <2> QED BY <1>1, <2>1 DEF IndexInv, Distinct, Members
<1>3. CASE p.mode # "delete"
  <2>1. zset' = added \ evicted /\ hashes' = (hashes \cup {j}) \ Members(evicted)
    BY <1>3 DEF Finish
  <2>2. /\ added \subseteq Entries /\ IsFiniteSet(added) /\ Distinct(added)
        /\ Members(added) = Members(zset) \cup {j}
    BY <1>1, Entering
  <2>3. evicted \subseteq added
    BY EvictedAreThere
  <2> HIDE DEF added, evicted
  <2>4. /\ IsFiniteSet(added \ evicted) /\ Distinct(added \ evicted)
        /\ Members(added \ evicted) = Members(added) \ Members(evicted)
    BY <2>2, <2>3, Leaving
  <2>5. hashes' = Members(zset)'
    <3>1. hashes' = Members(zset') 
      BY <2>1, <2>2, <2>4 DEF IndexInv
    <3> QED BY <3>1 DEF Members
  <2> QED BY <1>1, <2>1, <2>2, <2>4, <2>5 DEF IndexInv, Distinct
<1> QED BY <1>2, <1>3

LEMMA IndexSteps == IndexInv /\ [IndexNext]_indexVars => IndexInv'
<1> SUFFICES ASSUME IndexInv, [IndexNext]_indexVars PROVE IndexInv'
  OBVIOUS
<1>1. ASSUME NEW j \in Jobs, NEW rule \in Rules, Finish(j, Resolved(rule, Fallback)) PROVE IndexInv'
  BY <1>1, FinishPreserves
<1>2. CASE ClockMoves
  BY <1>2 DEF ClockMoves, IndexInv, Distinct, Members
<1>3. CASE UNCHANGED indexVars
  BY <1>3 DEF indexVars, IndexInv, Distinct, Members
<1> QED BY <1>1, <1>2, <1>3 DEF IndexNext

LEMMA IndexInvariant == IndexSpec => []IndexInv
<1> QED BY IndexStarts, IndexSteps, PTL DEF IndexSpec

\* The index and the hashes never part: what the fragment drops of one it drops of
\* the other, and a job enters once.
THEOREM NothingDanglesHolds == IndexSpec => []NothingDangles
<1>1. IndexInv => NothingDangles
  <2> SUFFICES ASSUME IndexInv PROVE NothingDangles
    OBVIOUS
  <2>1. Cardinality(Members(zset)) = Cardinality(zset)
    BY MembersCount DEF IndexInv
  <2> QED BY <2>1 DEF IndexInv, NothingDangles, IndexTypeOK
<1> QED BY <1>1, IndexInvariant, PTL

-------------------------------------------------------------------------------
LEMMA FinishKeeps ==
    ASSUME IndexInv, NEW j \in Jobs, NEW rule \in Rules, Finish(j, Resolved(rule, Fallback))
    PROVE  KeepsTheNewest(j)
<1> DEFINE p == Resolved(rule, Fallback)
           entry == [job |-> j, score |-> now]
           added == zset \cup {entry}
           young == Young(p, added, now)
<1>1. j \notin finished /\ last' = p
  BY DEF Finish
<1>2. p \in ResolvedPolicies /\ (p.mode = "keep" => p.ttl < 0 /\ p.count < 0)
  BY PolicyResolved
<1>3. added \in SUBSET Scored /\ IsFiniteSet(added)
  BY <1>1, Entering
<1>4. p.ttl \in Int /\ p.count \in Int /\ p.mode \in {"delete", "keep", "trim"}
  BY <1>2 DEF ResolvedPolicies
<1>5. now \in Nat
  BY IndexAssumption DEF IndexInv
<1>6. {e \in added : Stays(e, added, p)} =
        {e \in young : p.count < 0 \/ Cardinality(After(young, e)) < p.count}
  BY DEF Stays, Young, After
<1>7. CASE p.mode = "delete"
  <2>1. zset' = zset
    BY <1>7 DEF Finish
  <2> QED BY <1>1, <1>7, <2>1 DEF KeepsTheNewest
<1>8. CASE p.mode = "keep"
  <2>1. zset' = added
    BY <1>8 DEF Finish, Evicted
  <2>2. {e \in added : Stays(e, added, p)} = added
    <3>1. young = added
      BY <1>2, <1>8 DEF Young
    <3> QED BY <1>2, <1>6, <1>8, <3>1
  <2> QED BY <1>1, <1>8, <2>1, <2>2 DEF KeepsTheNewest
<1>9. CASE p.mode = "trim"
  <2>1. zset' = added \ Evicted(p, zset, entry, now)
    BY <1>9 DEF Finish
  <2> HIDE DEF p
  <2>2. zset' = young \ (IF p.count >= 0 THEN Overflowing(young, p.count) ELSE {})
    BY <1>2, <1>3, <1>5, <1>9, <2>1, TrimKeeps
  <2>3. young \in SUBSET Scored /\ IsFiniteSet(young)
    <3>1. young \subseteq added
      BY DEF Young
    <3> QED BY <1>3, <3>1, FS_Subset
  <2> HIDE DEF young
  <2>4. young \ (IF p.count >= 0 THEN Overflowing(young, p.count) ELSE {}) =
          {e \in young : p.count < 0 \/ Cardinality(After(young, e)) < p.count}
    BY <1>4, <2>3, NewestStay
  <2>5. zset' = {e \in added : Stays(e, added, p)}
    BY <1>6, <2>2, <2>4, Zenon
  <2> QED BY <1>1, <1>9, <2>5 DEF KeepsTheNewest
<1> QED BY <1>4, <1>7, <1>8, <1>9

\* How many entries a trim leaves.
LEMMA TrimCount ==
    ASSUME NEW S \in SUBSET Scored, IsFiniteSet(S), NEW count \in Int,
           NEW T, T = S \ (IF count >= 0 THEN Overflowing(S, count) ELSE {})
    PROVE  /\ IsFiniteSet(T)
           /\ Cardinality(T) = IF count < 0 THEN Cardinality(S) ELSE Smaller(count, Cardinality(S))
<1> DEFINE N == Cardinality(S)
           over == Oldest(S, N - count)
<1>1. N \in Nat
  BY FS_CardinalityType
<1>2. IsFiniteSet(T)
  BY FS_Subset
<1>3. CASE count < 0
  <2>1. T = S
    BY <1>3
  <2> QED BY <1>2, <1>3, <2>1
<1>4. CASE count >= 0 /\ ~ (N > count)
  <2>1. T = S
    BY <1>4 DEF Overflowing
  <2>2. Smaller(count, N) = N
    BY <1>1, <1>4 DEF Smaller
  <2> QED BY <1>2, <1>4, <2>1, <2>2
<1>5. CASE count >= 0 /\ N > count
  <2>1. T = S \ over
    BY <1>5 DEF Overflowing
  <2>2. N - count \in Nat /\ N - count <= N
    BY <1>1, <1>5
  <2>3. Cardinality(over) = N - count
    BY <2>2, OldestCount
  <2>4. over \subseteq S
    BY DEF Oldest
  <2>5. IsFiniteSet(over)
    BY <2>4, FS_Subset
  <2> HIDE DEF over, N
  <2>6. Cardinality(T) = Cardinality(S) - Cardinality(S \cap over)
    BY <2>1, <2>5, FS_Difference
  <2>7. S \cap over = over
    BY <2>4
  <2>8. Cardinality(T) = N - (N - count)
    BY <2>3, <2>6, <2>7 DEF N
  <2>9. Cardinality(T) = count /\ Smaller(count, N) = count
    BY <1>1, <1>5, <2>8 DEF Smaller
  <2> QED BY <1>2, <1>5, <2>9 DEF N
<1> QED BY <1>3, <1>4, <1>5

\* To be among the outcomes of a trim is to be the right size for some aged jobs.
LEMMA TrimmedHas ==
    ASSUME NEW policy, NEW old, NEW new,
           NEW gone \in IF policy.ttl < 0 THEN {{}} ELSE SUBSET old,
           NEW T \in SUBSET ((old \ gone) \cup (IF policy.ttl = 0 THEN {} ELSE new)),
           Cardinality(T) =
             IF policy.count < 0
             THEN Cardinality((old \ gone) \cup (IF policy.ttl = 0 THEN {} ELSE new))
             ELSE Smaller(policy.count,
                          Cardinality((old \ gone) \cup (IF policy.ttl = 0 THEN {} ELSE new)))
    PROVE  T \in Trimmed(policy, old, new)
<1> DEFINE Fresh(aged) == (old \ aged) \cup (IF policy.ttl = 0 THEN {} ELSE new)
           Size(aged) == IF policy.count < 0 THEN Cardinality(Fresh(aged))
                         ELSE Smaller(policy.count, Cardinality(Fresh(aged)))
           Left(aged) == {S \in SUBSET Fresh(aged) : Cardinality(S) = Size(aged)}
           Ageds == IF policy.ttl < 0 THEN {{}} ELSE SUBSET old
<1>1. Trimmed(policy, old, new) = UNION {Left(aged) : aged \in Ageds}
  BY DEF Trimmed
<1>2. T \in Left(gone)
  OBVIOUS
<1>3. gone \in Ageds
  OBVIOUS
<1> HIDE DEF Left, Ageds
<1> QED BY <1>1, <1>2, <1>3

LEMMA FinishWithin ==
    ASSUME IndexInv, NEW j \in Jobs, NEW rule \in Rules, Finish(j, Resolved(rule, Fallback))
    PROVE  WithinSurvivors(j)
<1> DEFINE p == Resolved(rule, Fallback)
           q == Coarse(p)
           entry == [job |-> j, score |-> now]
           added == zset \cup {entry}
           young == Young(p, added, now)
           old == Members(zset)
<1>1. j \notin finished /\ last' = p
  BY DEF Finish
<1>2. p \in ResolvedPolicies /\ (p.mode = "keep" => p.ttl < 0 /\ p.count < 0)
  BY PolicyResolved
<1>3. /\ added \in SUBSET Scored /\ IsFiniteSet(added) /\ Distinct(added)
      /\ Members(added) = old \cup {j}
  BY <1>1, Entering
<1>4. p.ttl \in Int /\ p.count \in Int /\ p.mode \in {"delete", "keep", "trim"}
  BY <1>2 DEF ResolvedPolicies
<1>5. now \in Nat
  BY IndexAssumption DEF IndexInv
<1>6. q.mode = p.mode /\ q.count = p.count /\ q.ttl = IF p.ttl > 0 THEN 1 ELSE p.ttl
  BY <1>2 DEF Coarse, ResolvedPolicies
<1>7. Members(zset)' = Members(zset')
  BY DEF Members
<1> SUFFICES Members(zset') \in Survivors(q, old, {j})
  BY <1>1, <1>7 DEF WithinSurvivors
<1>8. CASE p.mode = "delete"
  <2>1. zset' = zset
    BY <1>8 DEF Finish
  <2> QED BY <1>6, <1>8, <2>1 DEF Survivors
<1>9. CASE p.mode = "keep"
  <2>1. zset' = added
    BY <1>9 DEF Finish, Evicted
  <2>2. Survivors(q, old, {j}) = {old \cup {j}}
    BY <1>6, <1>9 DEF Survivors
  <2> QED BY <1>3, <2>1, <2>2
<1>10. CASE p.mode = "trim"
  <2> DEFINE gone == IF p.ttl < 0 THEN {} ELSE Members(Aged(zset, now, p.ttl))
             fresh == (old \ gone) \cup (IF q.ttl = 0 THEN {} ELSE {j})
  <2>1. zset' = added \ Evicted(p, zset, entry, now)
    BY <1>10 DEF Finish
  <2>2. zset' = young \ (IF p.count >= 0 THEN Overflowing(young, p.count) ELSE {})
    <3> HIDE DEF p
    <3> QED BY <1>2, <1>3, <1>5, <1>10, <2>1, TrimKeeps
  <2>3. young \subseteq added
    BY DEF Young
  <2>4. young \in SUBSET Scored /\ IsFiniteSet(young) /\ Distinct(young)
    <3> HIDE DEF young, added
    <3>1. IsFiniteSet(young)
      BY <1>3, <2>3, FS_Subset
    <3> QED BY <1>3, <2>3, <3>1 DEF Distinct
  <2>5. /\ IsFiniteSet(zset')
        /\ Cardinality(zset') = IF p.count < 0 THEN Cardinality(young)
                                ELSE Smaller(p.count, Cardinality(young))
    <3> HIDE DEF young, p
    <3> QED BY <1>4, <2>2, <2>4, TrimCount
  <2>6. zset' \subseteq young
    BY <2>2
  <2>7. /\ Cardinality(Members(young)) = Cardinality(young)
        /\ Cardinality(Members(zset')) = Cardinality(zset')
    <3>1. Distinct(zset')
      BY <2>4, <2>6 DEF Distinct
    <3> QED BY <2>4, <2>5, <3>1, MembersCount
  <2>8. Members(zset') \subseteq Members(young)
    BY <2>6 DEF Members
  <2>9. Members(young) = fresh
    <3>1. \A e \in zset : e \in young <=> p.ttl < 0 \/ e \notin Aged(zset, now, p.ttl)
      <4>1. \A e \in zset : e.score \in Nat
        BY IndexAssumption DEF IndexInv, Entries
      <4> HIDE DEF p
      <4> QED BY <1>4, <1>5, <4>1 DEF Young, Aged
    <3>2. entry \in young <=> q.ttl # 0
      <4>1. entry.score = now
        OBVIOUS
      <4> HIDE DEF p, q, entry
      <4> QED BY <1>4, <1>5, <1>6, <4>1 DEF Young
    <3>3. \A e \in zset : e.job # j
      BY <1>1 DEF IndexInv, Members
    <3>4. \A e, f \in zset : e.job = f.job => e = f
      BY DEF IndexInv, Distinct
    <3>5. entry.job = j
      OBVIOUS
    <3>6. Aged(zset, now, p.ttl) \subseteq zset
      BY DEF Aged
    <3> HIDE DEF p, q, entry
    <3>7. ASSUME NEW x \in Members(young) PROVE x \in fresh
      <4>1. PICK e \in young : x = e.job
        BY DEF Members
      <4>2. CASE e = entry
        BY <3>2, <3>5, <4>1, <4>2
      <4>3. CASE e # entry
        <5>1. e \in zset
          BY <2>3, <4>3
        <5>2. x \in old
          BY <4>1, <5>1 DEF Members
        <5>3. x \notin gone
          BY <3>1, <3>4, <3>6, <4>1, <5>1 DEF Members
        <5> QED BY <5>2, <5>3
      <4> QED BY <4>2, <4>3
    <3>8. ASSUME NEW x \in fresh PROVE x \in Members(young)
      <4>1. CASE x \in old \ gone
        <5>1. PICK e \in zset : x = e.job
          BY <4>1 DEF Members
        <5>2. e \in young
          BY <3>1, <4>1, <5>1 DEF Members
        <5> QED BY <5>1, <5>2 DEF Members
      <4>2. CASE x = j /\ q.ttl # 0
        BY <3>2, <3>5, <4>2 DEF Members
      <4> QED BY <4>1, <4>2
    <3> QED BY <3>7, <3>8
  <2>10. gone \in IF q.ttl < 0 THEN {{}} ELSE SUBSET old
    <3>1. gone \subseteq old
      BY DEF Members, Aged
    <3>2. q.ttl < 0 <=> p.ttl < 0
      BY <1>4, <1>6
    <3> QED BY <3>1, <3>2
  <2> HIDE DEF gone, young, p, q, old
  <2>11. Cardinality(Members(zset')) = IF q.count < 0 THEN Cardinality(fresh)
                                       ELSE Smaller(q.count, Cardinality(fresh))
    BY <1>6, <2>5, <2>7, <2>9
  <2>12. Members(zset') \in SUBSET fresh
    BY <2>8, <2>9
  <2>13. Members(zset') \in Trimmed(q, old, {j})
    BY <2>10, <2>11, <2>12, TrimmedHas
  <2> QED BY <1>6, <1>10, <2>13 DEF Survivors
<1> QED BY <1>4, <1>8, <1>9, <1>10

\* Every finishing job leaves what the rule asks for by age and rank, and that is one
\* of the outcomes QueueStore draws from: for any jobs, rules and clock readings.
THEOREM TrimmedByRuleHolds == IndexSpec => TrimmedByRule
<1>1. ASSUME IndexInv, [IndexNext]_indexVars
      PROVE  [\A j \in finished' \ finished : KeepsTheNewest(j) /\ WithinSurvivors(j)]_indexVars
  <2>1. CASE UNCHANGED indexVars
    BY <2>1
  <2>2. CASE ClockMoves
    BY <2>2 DEF ClockMoves
  <2>3. ASSUME NEW j \in Jobs, NEW rule \in Rules, Finish(j, Resolved(rule, Fallback)),
               NEW k \in finished' \ finished
        PROVE  KeepsTheNewest(k) /\ WithinSurvivors(k)
    <3>1. k = j
      BY <2>3 DEF Finish
    <3> QED BY <1>1, <2>3, <3>1, FinishKeeps, FinishWithin
  <2> QED BY <1>1, <2>1, <2>2, <2>3 DEF IndexNext
<1> QED BY <1>1, IndexInvariant, PTL DEF IndexSpec, TrimmedByRule

================================================================================
