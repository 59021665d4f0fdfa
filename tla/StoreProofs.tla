----------------------------- MODULE StoreProofs ------------------------------
(***************************************************************************)
(* Proofs about the database: about Store, for any rows, limits and pages, *)
(* and about Migrations, which bring its schema about, for any number of   *)
(* processes and files.                                                    *)
(***************************************************************************)
EXTENDS Store, Migrations, FiniteSetTheorems, SequenceTheorems, WellFoundedInduction, TLAPS

-----------------------------------------------------------------------------
(* finite sets, without an operator to be inducted on *)

\* Among sets of subsets of a finite set there is a least one.
LEMMA MinimalSubset ==
    ASSUME NEW S, IsFiniteSet(S), NEW Bad, Bad # {}, \A U \in Bad : U \subseteq S
    PROVE  \E U \in Bad : U \subseteq S /\ \A V \in Bad : V \subseteq U => V = U
<1>1. Bad \subseteq FiniteSubsetsOf(S)
    BY FS_FiniteSubsetsOfFinite
<1>2. PICK U \in Bad : \A V \in Bad : ~(<<V, U>> \in StrictSubsetOrdering(S))
    BY <1>1, WFMin, FS_StrictSubsetOrderingWellFounded
<1> QED
    BY <1>2 DEF StrictSubsetOrdering

LEMMA LeastOf ==
    ASSUME NEW S \in SUBSET Nat, S # {}
    PROVE  \E n \in S : \A m \in S : n <= m
<1>1. PICK top \in S : TRUE
    OBVIOUS
<1> DEFINE Bad == {0..n : n \in {m \in S : m <= top}}
<1>2. IsFiniteSet(0..top)
    BY FS_Interval
<1>3. (\A U \in Bad : U \subseteq 0..top) /\ Bad # {}
    OBVIOUS
<1> HIDE DEF Bad
<1>4. PICK U \in Bad : \A V \in Bad : V \subseteq U => V = U
    BY <1>2, <1>3, MinimalSubset
<1> USE DEF Bad
<1>5. PICK n \in S : n <= top /\ U = 0..n
    BY <1>4
<1>6. ASSUME NEW m \in S, m < n
      PROVE  FALSE
    <2>1. 0..m \in Bad /\ 0..m \subseteq U
        BY <1>5, <1>6
    <2>2. 0..m = 0..n
        BY <1>4, <1>5, <2>1
    <2>3. n \in 0..n /\ n \notin 0..m
        BY <1>6
    <2> QED
        BY <2>2, <2>3
<1> QED
    BY <1>6

-----------------------------------------------------------------------------
(* the list, newest first *)

IsDescending(q, S) ==
    /\ q \in [1..Cardinality(S) -> S]
    /\ \A i, j \in 1..Cardinality(S) : i < j => q[i] > q[j]

\* Every finite set of numbers can be listed from the greatest down.
LEMMA DescendingExists ==
    ASSUME NEW S \in SUBSET Nat, IsFiniteSet(S)
    PROVE  \E q : IsDescending(q, S)
<1> DEFINE Bad == {U \in SUBSET S : ~\E q : IsDescending(q, U)}
<1>1. SUFFICES ASSUME Bad # {} PROVE FALSE
    OBVIOUS
<1>a. \A U \in Bad : U \subseteq S
    OBVIOUS
<1> HIDE DEF Bad
<1>2. PICK U \in Bad : U \subseteq S /\ \A V \in Bad : V \subseteq U => V = U
    BY <1>1, <1>a, MinimalSubset
<1> USE DEF Bad
<1>3. IsFiniteSet(U) /\ Cardinality(U) \in Nat
    BY <1>2, FS_Subset, FS_CardinalityType
<1>4. U # {}
    <2>1. ASSUME U = {} PROVE FALSE
        <3>1. Cardinality(U) = 0
            BY <2>1, FS_EmptySet
        <3>2. IsDescending([i \in 1..0 |-> 0], U)
            BY <2>1, <3>1 DEF IsDescending
        <3> QED
            BY <1>2, <3>2
    <2> QED
        BY <2>1
<1>5. PICK m \in U : \A n \in U : m <= n
    BY <1>4, LeastOf
<1> DEFINE n == Cardinality(U)
           V == U \ {m}
<1>6. V \in SUBSET S /\ V \subseteq U /\ V # U /\ IsFiniteSet(V) /\ Cardinality(V) = n - 1 /\ n - 1 \in Nat
    <2>1. IsFiniteSet(V) /\ Cardinality(V) = n - 1
        BY <1>3, <1>5, FS_RemoveElement
    <2>2. Cardinality(V) \in Nat
        BY <2>1, FS_CardinalityType
    <2>3. V \subseteq U /\ m \in U /\ m \notin V /\ U \subseteq S
        BY <1>2, <1>5
    <2>4. V \subseteq S /\ V # U
        BY <2>3
    <2> HIDE DEF V
    <2> QED
        BY <2>1, <2>2, <2>3, <2>4
<1>7. PICK q : IsDescending(q, V)
    BY <1>2, <1>6
<1> DEFINE p == [i \in 1..n |-> IF i = n THEN m ELSE q[i]]
<1>8. ASSUME NEW i \in 1..n, i # n
      PROVE  i \in 1..(n - 1) /\ q[i] \in V /\ p[i] = q[i] /\ p[i] \in U /\ p[i] > m
    <2>1. i \in 1..(n - 1)
        BY <1>3, <1>8
    <2>2. q[i] \in V
        BY <1>6, <1>7, <2>1 DEF IsDescending
    <2>3. q[i] \in Nat /\ m \in Nat /\ m <= q[i] /\ q[i] # m
        BY <1>2, <1>5, <2>2
    <2> QED
        BY <1>8, <2>1, <2>2, <2>3
<1>9. p[n] = m /\ n \in 1..n
    BY <1>3, <1>6
<1>10. p \in [1..n -> U]
    BY <1>5, <1>8, <1>9
<1>11. ASSUME NEW i \in 1..n, NEW j \in 1..n, i < j
       PROVE  p[i] > p[j]
    <2>1. i # n
        BY <1>3, <1>11
    <2>2. CASE j = n
        BY <2>1, <2>2, <1>8, <1>9
    <2>3. CASE j # n
        <3>1. i \in 1..(n - 1) /\ j \in 1..(n - 1) /\ p[i] = q[i] /\ p[j] = q[j]
            BY <2>1, <2>3, <1>8
        <3> HIDE DEF p
        <3> QED
            BY <1>6, <1>7, <1>11, <3>1 DEF IsDescending
    <2> QED
        BY <2>2, <2>3
<1>12. IsDescending(p, U)
    BY <1>10, <1>11 DEF IsDescending
<1> QED
    BY <1>2, <1>12

\* What is in the list, and how much of it.
LEMMA DescendingIs ==
    ASSUME NEW S \in SUBSET Nat, IsFiniteSet(S)
    PROVE  /\ Cardinality(S) \in Nat
           /\ Descending(S) \in [1..Cardinality(S) -> S]
           /\ \A i, j \in 1..Cardinality(S) : i < j => Descending(S)[i] > Descending(S)[j]
           /\ \A s \in S : \E i \in 1..Cardinality(S) : Descending(S)[i] = s
<1> DEFINE n == Cardinality(S)
           q == Descending(S)
<1>1. n \in Nat /\ IsFiniteSet(1..n) /\ Cardinality(1..n) = n
    BY FS_CardinalityType, FS_Interval
<1>2. \E p \in [1..n -> S] : \A i, j \in 1..n : i < j => p[i] > p[j]
    BY DescendingExists DEF IsDescending
<1>3. q \in [1..n -> S] /\ \A i, j \in 1..n : i < j => q[i] > q[j]
    BY <1>2 DEF Descending
<1>4. q \in Injection(1..n, S)
    <2>1. ASSUME NEW i \in 1..n, NEW j \in 1..n, q[i] = q[j]
          PROVE  i = j
        <3> HIDE DEF q
        <3>1. q[i] \in Nat /\ q[j] \in Nat
            BY <1>3
        <3>2. ~(q[i] > q[j]) /\ ~(q[j] > q[i])
            BY <2>1, <3>1
        <3>3. ~(i < j) /\ ~(j < i)
            BY <1>3, <3>2
        <3> HIDE DEF n
        <3> QED
            BY <1>1, <3>3
    <2> HIDE DEF q
    <2> QED
        BY <1>3, <2>1 DEF Injection, IsInjective
<1>5. q \in Surjection(1..n, S)
    BY <1>1, <1>4, FS_Injection
<1>6. \A s \in S : \E i \in 1..n : q[i] = s
    BY <1>5 DEF Surjection
<1> QED
    BY <1>1, <1>3, <1>6

-----------------------------------------------------------------------------
(* one page *)

\* What is below the cursor.
Below(D, scope, cursor, filter) ==
    {r.seq : r \in {s \in D.rows : /\ InScope(scope, s.user) /\ Matches(s, filter)
                                   /\ cursor <= 0 \/ s.seq < cursor}}

Listed(q, n) == \E i \in 1..Len(q) : q[i] = n

\* feedSql: a page goes down from the greatest there is, has no more than was
\* asked for, and what it leaves out is below its last.
LEMMA PageIs ==
    ASSUME NEW D, NEW scope, NEW cursor, NEW limit \in Nat \ {0}, NEW filter,
           NEW top \in Nat, \A r \in D.rows : r.seq \in 1..top
    PROVE  LET S == Below(D, scope, cursor, filter)
               p == Page(D, scope, cursor, limit, filter)
           IN  /\ p \in Seq(S) /\ Len(p) \in 0..limit
               /\ \A i, j \in 1..Len(p) : i < j => p[i] > p[j]
               /\ \A s \in S : Listed(p, s) \/ (Len(p) = limit /\ s < p[Len(p)])
<1> DEFINE S == Below(D, scope, cursor, filter)
           p == Page(D, scope, cursor, limit, filter)
           q == Descending(S)
           n == Cardinality(S)
           len == Min({limit, n})
<1>1. S \subseteq 1..top
    BY DEF Below
<1>2. S \in SUBSET Nat /\ \A s \in S : s <= top
    BY <1>1
<1> HIDE DEF S
<1>3. IsFiniteSet(S)
    BY <1>2, FS_BoundedSetOfNaturals
<1>4. /\ n \in Nat
      /\ q \in [1..n -> S]
      /\ \A i, j \in 1..n : i < j => q[i] > q[j]
      /\ \A s \in S : \E i \in 1..n : q[i] = s
    BY <1>2, <1>3, DescendingIs
<1>5. p = SubSeq(q, 1, len)
    BY DEF Page, Below, S
<1> HIDE DEF q, n
<1>6. len \in Nat /\ len <= limit /\ len <= n /\ (len = limit \/ len = n)
    <2>1. \E x \in {limit, n} : \A y \in {limit, n} : x <= y
        BY <1>4
    <2>2. len \in {limit, n} /\ \A y \in {limit, n} : len <= y
        BY <2>1 DEF Min
    <2> HIDE DEF len
    <2> QED
        BY <1>4, <2>2
<1> HIDE DEF p, len
<1>7. \A i \in 1..len : q[i] \in S
    BY <1>4, <1>6
<1>8. p \in Seq(S) /\ Len(p) = len /\ \A i \in 1..len : p[i] = q[i]
    <2>1. /\ SubSeq(q, 1, len) \in Seq(S)
          /\ Len(SubSeq(q, 1, len)) = IF 1 <= len THEN len - 1 + 1 ELSE 0
          /\ \A i \in 1..(len - 1 + 1) : SubSeq(q, 1, len)[i] = q[1 + i - 1]
        BY <1>6, <1>7, SubSeqProperties
    <2>2. len - 1 + 1 = len /\ \A i \in 1..len : 1 + i - 1 = i
        BY <1>6
    <2> QED
        BY <1>5, <1>6, <2>1, <2>2
<1>9. ASSUME NEW i \in 1..len, NEW j \in 1..len, i < j
      PROVE  p[i] > p[j]
    BY <1>4, <1>6, <1>8, <1>9
<1>10. ASSUME NEW s \in S
       PROVE  Listed(p, s) \/ (len = limit /\ s < p[len])
    <2>1. PICK i \in 1..n : q[i] = s
        BY <1>4
    <2>2. CASE i <= len
        BY <1>4, <1>6, <1>8, <2>1, <2>2 DEF Listed
    <2>3. CASE ~(i <= len)
        <3>1. len = limit /\ len \in 1..n /\ len < i
            BY <1>4, <1>6, <2>1, <2>3
        <3>2. q[len] > q[i]
            BY <1>4, <2>1, <3>1
        <3>3. q[len] \in Nat /\ q[i] \in Nat
            BY <1>2, <1>4, <2>1, <3>1
        <3>4. len \in 1..len
            BY <3>1
        <3>5. p[len] = q[len]
            BY <1>8, <3>4
        <3> QED
            BY <2>1, <3>1, <3>2, <3>3, <3>5
    <2> QED
        BY <2>2, <2>3
<1> QED
    BY <1>6, <1>8, <1>9, <1>10 DEF S, p

-----------------------------------------------------------------------------
(* what is stored *)

\* The rows stored so far are numbered as they came, and none is from later.
HistoryOK ==
    /\ clock \in Nat
    /\ IsFiniteSet(history) /\ Cardinality(history) \in Nat
    /\ rows \subseteq history
    /\ \A r \in history : r.seq \in 1..Cardinality(history) /\ r.at \in 0..clock
    /\ \A r, s \in history : r.seq = s.seq => r = s

\* The row of a batch.
New(k) == Row(k, Cardinality(history) + 1, clock - k.ago)

LEMMA HistoryInit == StoreInit => HistoryOK
<1> SUFFICES ASSUME StoreInit PROVE HistoryOK
    OBVIOUS
<1>1. clock = 0 /\ rows = {} /\ history = {}
    BY DEF StoreInit
<1> QED
    BY <1>1, FS_EmptySet DEF HistoryOK

\* What a batch adds is after all there was.
LEMMA CommitIs ==
    ASSUME HistoryOK, NEW k, k \in Kinds \cup PagedKinds, Commit(k)
    PROVE  /\ k.ago \in 0..RequestKeep /\ k.ago <= clock
           /\ New(k).seq = Cardinality(history) + 1 /\ New(k).at = clock - k.ago
           /\ New(k).user = k.user /\ New(k).failed = k.failed
           /\ New(k) \notin history
           /\ rows' = rows \cup {New(k)} /\ history' = history \cup {New(k)}
           /\ Cardinality(history') = Cardinality(history) + 1
           /\ IsFiniteSet(history')
           /\ view' = IF view.is = "live"
                      THEN [view EXCEPT !.due = view.due \cup {Cardinality(history) + 1}] ELSE view
           /\ UNCHANGED <<clock, sweep, cut>>
<1>1. /\ k.ago \in 0..RequestKeep /\ k.ago <= clock
      /\ rows' = rows \cup {New(k)} /\ history' = history \cup {New(k)}
      /\ view' = IF view.is = "live"
                 THEN [view EXCEPT !.due = view.due \cup {Cardinality(history) + 1}] ELSE view
      /\ UNCHANGED <<clock, sweep, cut>>
    BY StoreAssumption DEF Commit, New
<1>2. New(k).seq = Cardinality(history) + 1 /\ New(k).at = clock - k.ago
      /\ New(k).user = k.user /\ New(k).failed = k.failed
    BY DEF New, Row
<1>3. New(k) \notin history
    BY <1>2 DEF HistoryOK
<1>4. Cardinality(history') = Cardinality(history) + 1 /\ IsFiniteSet(history')
    BY <1>1, <1>3, FS_AddElement DEF HistoryOK
<1> QED
    BY <1>1, <1>2, <1>3, <1>4

LEMMA HistoryNext == HistoryOK /\ [StoreNext]_storeVars => HistoryOK'
<1> SUFFICES ASSUME HistoryOK, [StoreNext]_storeVars PROVE HistoryOK'
    OBVIOUS
<1>1. ASSUME NEW k \in Kinds \cup PagedKinds, Commit(k)
      PROVE  HistoryOK'
    <2> DEFINE row == New(k)
    <2>1. /\ row.seq = Cardinality(history) + 1 /\ row.at = clock - k.ago
          /\ k.ago \in Nat /\ k.ago <= clock
          /\ rows' = rows \cup {row} /\ history' = history \cup {row}
          /\ Cardinality(history') = Cardinality(history) + 1
          /\ IsFiniteSet(history') /\ clock' = clock
        BY <1>1, CommitIs, StoreAssumption
    <2> HIDE DEF row
    <2>2. \A r \in history' : r.seq \in 1..Cardinality(history') /\ r.at \in 0..clock'
        BY <2>1 DEF HistoryOK
    <2>3. \A r, s \in history' : r.seq = s.seq => r = s
        BY <2>1 DEF HistoryOK
    <2>4. clock' \in Nat /\ Cardinality(history') \in Nat /\ rows' \subseteq history'
        BY <2>1 DEF HistoryOK
    <2> QED
        BY <2>1, <2>2, <2>3, <2>4 DEF HistoryOK
<1>2. CASE Tick
    BY <1>2 DEF Tick, dbVars, HistoryOK
<1>3. ASSUME UNCHANGED <<clock, history>>, rows' \subseteq rows
      PROVE  HistoryOK'
    BY <1>3 DEF HistoryOK
<1>4. ASSUME NEW s, NEW f, NEW n, OpenList(s, f, n)
      PROVE  HistoryOK'
    BY <1>3, <1>4 DEF OpenList, dbVars
<1>5. ASSUME NEW seq, NEW b, FrameArrives(seq, b) \/ Publish(seq, b)
      PROVE  HistoryOK'
    BY <1>3, <1>5 DEF FrameArrives, Publish, Live, dbVars
<1>6. CASE StartSweep \/ SweepRows \/ SweepCells \/ SweepFails
    BY <1>3, <1>6 DEF StartSweep, SweepRows, SweepCells, SweepFails, dbVars
<1>7. CASE LoadMore \/ OpenLive \/ Connect \/ Disconnect \/ SeedRead \/ SeedArrives
    BY <1>3, <1>7 DEF LoadMore, OpenLive, Connect, Disconnect, SeedRead, SeedArrives, Live, dbVars
<1>8. CASE UNCHANGED storeVars
    BY <1>3, <1>8 DEF storeVars, dbVars
<1> QED
    BY <1>1, <1>2, <1>4, <1>5, <1>6, <1>7, <1>8 DEF StoreNext

\* The rows stored, in every state that can be reached.
LEMMA History == StoreSpec => []HistoryOK
BY HistoryInit, HistoryNext, PTL DEF StoreSpec

-----------------------------------------------------------------------------
(* a sweep *)

SweepOK ==
    /\ sweep = Idle \/ sweep = [at |-> sweep.at, rows |-> sweep.rows, cells |-> sweep.cells]
    /\ sweep.at \in {"rows", "cells"} =>
          /\ sweep.rows \in Int /\ sweep.rows <= clock - RequestKeep
          /\ sweep.cells \in Int /\ sweep.cells <= clock - RollupKeep
    /\ sweep.at \in {"idle", "rows", "cells"}
    /\ SweepComplete

\* The statement's LIMIT: a batch that is not full is all there was to delete.
LEMMA ShortBatchIsAll ==
    ASSUME HistoryOK, Short(Batch)
    PROVE  \A r \in rows \ Batch : ~(r.at < sweep.rows)
<1> DEFINE old == {r \in rows : r.at < sweep.rows}
           Before(r) == {s \in old : s.seq < r.seq}
           Left == {r.seq : r \in old \ Batch}
<1>1. SUFFICES ASSUME Left # {} PROVE FALSE
    OBVIOUS
<1>2. Left \in SUBSET Nat
    BY DEF HistoryOK
<1>3. PICK r \in old \ Batch : \A s \in old \ Batch : r.seq <= s.seq
    <2>1. PICK n \in Left : \A m \in Left : n <= m
        BY <1>1, <1>2, LeastOf
    <2> QED
        BY <2>1
<1>4. IsFiniteSet(old)
    <2>1. old \in SUBSET history
        BY DEF HistoryOK
    <2> QED
        BY <2>1, FS_Subset DEF HistoryOK
<1>5. Batch \in SUBSET old /\ Before(r) \in SUBSET old
    BY DEF Batch
<1>6. IsFiniteSet(Batch) /\ Cardinality(Batch) \in Nat /\ Cardinality(Before(r)) \in Nat
    BY <1>4, <1>5, FS_Subset, FS_CardinalityType
<1>7. Before(r) \in SUBSET Batch
    <2>1. ASSUME NEW s \in old, s.seq < r.seq, s \notin Batch
          PROVE  FALSE
        <3>1. r.seq <= s.seq
            BY <1>3, <2>1
        <3>2. r.seq \in Nat /\ s.seq \in Nat
            BY <1>3, <2>1 DEF HistoryOK
        <3> QED
            BY <2>1, <3>1, <3>2
    <2> QED
        BY <2>1
<1>8. Cardinality(Before(r)) <= Cardinality(Batch)
    BY <1>6, <1>7, FS_Subset
<1>9. ~(Cardinality(Before(r)) < BatchSize)
    BY <1>3 DEF Batch
<1>10. Cardinality(Batch) < BatchSize /\ BatchSize \in Nat
    BY StoreAssumption DEF Short
<1> QED
    BY <1>6, <1>8, <1>9, <1>10

LEMMA SweepInit == StoreInit => SweepOK
BY DEF StoreInit, SweepOK, SweepComplete, Idle

LEMMA SweepNext == HistoryOK /\ SweepOK /\ [StoreNext]_storeVars => SweepOK'
<1> SUFFICES ASSUME HistoryOK, SweepOK, [StoreNext]_storeVars PROVE SweepOK'
    OBVIOUS
<1>a. clock \in Nat /\ RequestKeep \in Nat /\ RollupKeep \in Nat /\ \A r \in rows : r.at \in Int
    BY StoreAssumption DEF HistoryOK
<1>1. ASSUME NEW k \in Kinds \cup PagedKinds, Commit(k)
      PROVE  SweepOK'
    <2> DEFINE row == New(k)
    <2>1. /\ row.at = clock - k.ago /\ k.ago \in 0..RequestKeep
          /\ rows' = rows \cup {row} /\ clock' = clock /\ sweep' = sweep
        BY <1>1, CommitIs
    <2>2. row.at >= clock - RequestKeep /\ row.at \in Int
        BY <1>a, <2>1
    <2> HIDE DEF row
    <2> QED
        BY <1>a, <2>1, <2>2 DEF SweepOK, SweepComplete, Idle
<1>2. CASE Tick
    BY <1>a, <1>2 DEF Tick, dbVars, SweepOK, SweepComplete
<1>3. ASSUME UNCHANGED <<clock, sweep>>, rows' \subseteq rows
      PROVE  SweepOK'
    BY <1>3 DEF SweepOK, SweepComplete
<1>4. ASSUME NEW s, NEW f, NEW n, OpenList(s, f, n)
      PROVE  SweepOK'
    BY <1>3, <1>4 DEF OpenList, dbVars
<1>5. ASSUME NEW seq, NEW b, FrameArrives(seq, b) \/ Publish(seq, b)
      PROVE  SweepOK'
    BY <1>3, <1>5 DEF FrameArrives, Publish, Live, dbVars
<1>6. CASE StartSweep
    BY <1>a, <1>6 DEF StartSweep, dbVars, SweepOK, SweepComplete
<1>7. CASE SweepRows
    <2>1. rows' = rows \ Batch /\ clock' = clock /\ sweep.at = "rows"
        BY <1>7 DEF SweepRows
    <2>2. CASE ~Short(Batch)
        BY <1>3, <1>7, <2>1, <2>2 DEF SweepRows
    <2>3. CASE Short(Batch)
        <3>1. sweep' = [at |-> "cells", rows |-> sweep.rows, cells |-> sweep.cells]
            BY <1>7, <2>3 DEF SweepRows, SweepOK, Idle
        <3>2. \A r \in rows' : ~(r.at < sweep.rows)
            BY <2>1, <2>3, ShortBatchIsAll
        <3> QED
            BY <1>a, <2>1, <3>1, <3>2 DEF SweepOK, SweepComplete
    <2> QED
        BY <2>2, <2>3
<1>8. CASE SweepCells \/ SweepFails
    BY <1>8 DEF SweepCells, SweepFails, dbVars, Idle, SweepOK, SweepComplete
<1>9. CASE LoadMore \/ OpenLive \/ Connect \/ Disconnect \/ SeedRead \/ SeedArrives
    BY <1>3, <1>9 DEF LoadMore, OpenLive, Connect, Disconnect, SeedRead, SeedArrives, Live, dbVars
<1>10. CASE UNCHANGED storeVars
    BY <1>3, <1>10 DEF storeVars, dbVars
<1> QED
    BY <1>1, <1>2, <1>4, <1>5, <1>6, <1>7, <1>8, <1>9, <1>10 DEF StoreNext

\* The sweep, in every state that can be reached.
LEMMA SweepAlways == StoreSpec => []SweepOK
BY SweepInit, SweepNext, History, PTL DEF StoreSpec

\* Retention: a sweep that gets past its batches has left no row that is older
\* than its cut-off, though rows are written all the while.
THEOREM SweepLeavesNothing == StoreSpec => []SweepComplete
<1>1. SweepOK => SweepComplete
    BY DEF SweepOK
<1> QED
    BY <1>1, SweepAlways, PTL

\* Retention deletes nothing before its time, however long a sweep takes: a row
\* that goes is older than requestDays, and a cell older than rollupDays.
Spares ==
    /\ \A r \in rows \ rows' : r.at < clock - RequestKeep
    /\ \A c \in DOMAIN cube \ DOMAIN cube' : ~(c.hour >= clock - RollupKeep)
    /\ history \subseteq history'

CubeOK == \A c \in DOMAIN cube : c.hour \in Int

LEMMA CubeInit == StoreInit => CubeOK
<1>1. DOMAIN <<>> = {}
    OBVIOUS
<1> QED
    BY <1>1 DEF StoreInit, CubeOK

LEMMA CubeNext == HistoryOK /\ CubeOK /\ [StoreNext]_storeVars => CubeOK'
<1> SUFFICES ASSUME HistoryOK, CubeOK, [StoreNext]_storeVars PROVE CubeOK'
    OBVIOUS
<1>1. ASSUME NEW k \in Kinds \cup PagedKinds, Commit(k) PROVE CubeOK'
    <2>1. cube' = Book(cube, New(k)) /\ New(k).at = clock - k.ago /\ k.ago \in Nat
        BY <1>1, CommitIs, StoreAssumption DEF Commit, New
    <2>2. HourFloor(New(k).at) \in Int
        BY <2>1, HourPositive DEF HistoryOK, HourFloor
    <2>3. \A c \in CellsOf(New(k)) : c.hour \in Int
        BY <2>2 DEF CellsOf, Cell
    <2>4. DOMAIN cube' = DOMAIN cube \cup CellsOf(New(k))
        BY <2>1 DEF Book
    <2> QED
        BY <2>3, <2>4 DEF CubeOK
<1>2. ASSUME DOMAIN cube' \subseteq DOMAIN cube PROVE CubeOK'
    BY <1>2 DEF CubeOK
<1>3. CASE SweepCells
    BY <1>2, <1>3 DEF SweepCells
<1>4. CASE Tick \/ StartSweep \/ SweepRows \/ SweepFails
    BY <1>2, <1>4 DEF Tick, StartSweep, SweepRows, SweepFails, dbVars
<1>5. CASE LoadMore \/ OpenLive \/ Connect \/ Disconnect \/ SeedRead \/ SeedArrives
    BY <1>2, <1>5 DEF LoadMore, OpenLive, Connect, Disconnect, SeedRead, SeedArrives, Live, dbVars
<1>6. ASSUME NEW s, NEW f, NEW n, OpenList(s, f, n) PROVE CubeOK'
    BY <1>2, <1>6 DEF OpenList, dbVars
<1>7. ASSUME NEW seq, NEW b, FrameArrives(seq, b) \/ Publish(seq, b) PROVE CubeOK'
    BY <1>2, <1>7 DEF FrameArrives, Publish, Live, dbVars
<1>8. CASE UNCHANGED storeVars
    BY <1>2, <1>8 DEF storeVars, dbVars
<1> QED
    BY <1>1, <1>3, <1>4, <1>5, <1>6, <1>7, <1>8 DEF StoreNext

LEMMA CellsStay == ASSUME NEW C, NEW r PROVE DOMAIN C \subseteq DOMAIN Book(C, r)
BY DEF Book

\* A sweep deletes only what is past its age, in whatever order its batches run.
THEOREM SweepSparesTheYoung == StoreSpec => [][Spares]_storeVars
<1>1. HistoryOK /\ SweepOK /\ CubeOK /\ [StoreNext]_storeVars => [Spares]_storeVars
    <2> SUFFICES ASSUME HistoryOK, SweepOK, CubeOK, StoreNext PROVE Spares \/ UNCHANGED storeVars
        OBVIOUS
    <2>1. ASSUME NEW k \in Kinds \cup PagedKinds, Commit(k) PROVE Spares
        <3>1. rows' = rows \cup {New(k)} /\ history' = history \cup {New(k)}
            BY <2>1, CommitIs
        <3>2. DOMAIN cube \subseteq DOMAIN cube'
            BY <2>1, CellsStay DEF Commit
        <3> QED
            BY <3>1, <3>2 DEF Spares
    <2>2. ASSUME UNCHANGED dbVars PROVE Spares
        BY <2>2 DEF Spares, dbVars
    <2>3. CASE Tick \/ StartSweep \/ SweepFails
        BY <2>2, <2>3 DEF Tick, StartSweep, SweepFails
    <2>4. CASE LoadMore \/ OpenLive \/ Connect \/ Disconnect \/ SeedRead \/ SeedArrives
        BY <2>2, <2>4 DEF LoadMore, OpenLive, Connect, Disconnect, SeedRead, SeedArrives, Live
    <2>5. ASSUME NEW s, NEW f, NEW n, OpenList(s, f, n) PROVE Spares
        BY <2>2, <2>5 DEF OpenList
    <2>6. ASSUME NEW seq, NEW b, FrameArrives(seq, b) \/ Publish(seq, b) PROVE Spares
        BY <2>2, <2>6 DEF FrameArrives, Publish, Live
    <2>7. CASE SweepRows
        <3>1. /\ rows' = rows \ Batch /\ UNCHANGED <<cube, history>>
              /\ sweep.rows \in Int /\ sweep.rows <= clock - RequestKeep
            BY <2>7 DEF SweepRows, SweepOK
        <3>2. \A r \in Batch : r.at < sweep.rows /\ r.at \in Nat
            BY DEF Batch, HistoryOK
        <3>3. clock - RequestKeep \in Int
            BY StoreAssumption DEF HistoryOK
        <3> QED
            BY <3>1, <3>2, <3>3 DEF Spares
    <2>8. CASE SweepCells
        <3>1. /\ DOMAIN cube' = {d \in DOMAIN cube : d.hour >= sweep.cells}
              /\ UNCHANGED <<rows, history>>
              /\ sweep.cells \in Int /\ sweep.cells <= clock - RollupKeep
            BY <2>8 DEF SweepCells, SweepOK
        <3> QED
            BY <3>1, StoreAssumption DEF Spares, CubeOK, HistoryOK
    <2> QED
        BY <2>1, <2>3, <2>4, <2>5, <2>6, <2>7, <2>8 DEF StoreNext
<1> QED
    BY <1>1, CubeInit, CubeNext, History, SweepAlways, PTL DEF StoreSpec

-----------------------------------------------------------------------------
(* the live page *)

LiveShape ==
    /\ view = [is |-> "live", up |-> view.up, due |-> view.due, wire |-> view.wire,
               seed |-> view.seed, answer |-> view.answer, shown |-> view.shown,
               gap |-> view.gap]
    /\ view.up \in BOOLEAN /\ view.gap \in BOOLEAN
    /\ view.seed \in {"asked", "read", "done"}
    /\ view.seed # "read" => view.answer = {}
    /\ \A s \in DOMAIN view.shown : view.shown[s] = 1

Recent(r) == r.at >= clock - Window

\* Where a row of the window is, from the moment the seed was read: not yet
\* published, on its way, on the page, or in the answer that is on its way.
Somewhere(n) == n \in view.due \cup view.wire \cup DOMAIN view.shown \cup view.answer

LiveCovers ==
    view.up /\ view.seed # "asked" /\ ~view.gap =>
        \A r \in rows : Recent(r) => Somewhere(r.seq)

LiveOK == view.is = "live" => LiveShape /\ LiveCovers

LEMMA LiveInit == StoreInit => LiveOK
BY DEF StoreInit, NoView, NoPage, LiveOK

\* The page looks a row's time up by its number.
LEMMA WithinIs ==
    ASSUME HistoryOK, NEW r \in history
    PROVE  Within(r.seq) <=> Recent(r)
<1>1. \A s \in history : s.seq = r.seq => s = r
    BY DEF HistoryOK
<1>2. AtOf(r.seq) = r.at
    BY <1>1 DEF AtOf
<1> QED
    BY <1>2 DEF Within, Recent

\* add: what is recent is there afterwards, once.
LEMMA AddIs ==
    ASSUME HistoryOK, LiveShape, NEW new
    PROVE  /\ \A s \in DOMAIN Add(view, new) : Add(view, new)[s] = 1
           /\ \A r \in history : Recent(r) /\ r.seq \in DOMAIN view.shown \cup new
                  => r.seq \in DOMAIN Add(view, new)
<1>1. DOMAIN Add(view, new) = {t \in DOMAIN view.shown \cup new : Within(t)}
    BY DEF Add
<1>2. \A s \in DOMAIN Add(view, new) : Add(view, new)[s] = 1
    BY DEF Add, LiveShape
<1> QED
    BY <1>1, <1>2, WithinIs

\* Rows of the window are there because they were, whatever time has passed and
\* whatever was deleted.
LEMMA LiveStands ==
    ASSUME LiveOK, HistoryOK, view' = view, rows' \subseteq rows,
           clock' \in Nat, clock <= clock'
    PROVE  LiveOK'
<1>1. ASSUME NEW r \in rows, Recent(r)'
      PROVE  Recent(r)
    BY <1>1, StoreAssumption DEF Recent, HistoryOK
<1> QED
    BY <1>1 DEF LiveOK, LiveShape, LiveCovers, Somewhere

LEMMA LiveCommits ==
    ASSUME LiveOK, HistoryOK, NEW k \in Kinds \cup PagedKinds, Commit(k)
    PROVE  LiveOK'
<1>0. PICK row, n : row = New(k) /\ n = Cardinality(history) + 1
    OBVIOUS
<1>1. /\ row.seq = n /\ rows' = rows \cup {row} /\ clock' = clock
      /\ view' = IF view.is = "live" THEN [view EXCEPT !.due = view.due \cup {n}] ELSE view
    BY <1>0, CommitIs
<1>2. CASE view.is = "live"
    <2>1. LiveShape /\ LiveCovers
        BY <1>2 DEF LiveOK
    <2>2. view' = [is |-> "live", up |-> view.up, due |-> view.due \cup {n}, wire |-> view.wire,
                   seed |-> view.seed, answer |-> view.answer, shown |-> view.shown,
                   gap |-> view.gap]
        BY <1>1, <1>2, <2>1 DEF LiveShape
    <2>3. LiveShape'
        BY <2>1, <2>2 DEF LiveShape
    <2>4. \A r : Recent(r)' <=> Recent(r)
        BY <1>1 DEF Recent
    <2>5. Somewhere(n)' /\ \A m : Somewhere(m) => Somewhere(m)'
        BY <2>2 DEF Somewhere
    <2>6. LiveCovers'
        BY <1>1, <2>1, <2>2, <2>4, <2>5 DEF LiveCovers
    <2> QED
        BY <2>3, <2>6 DEF LiveOK
<1>3. CASE view.is # "live"
    BY <1>1, <1>3 DEF LiveOK
<1> QED
    BY <1>2, <1>3

\* The steps of the page itself.
LEMMA LiveMoves ==
    ASSUME LiveOK, HistoryOK, view.is = "live",
           \/ Connect \/ Disconnect \/ SeedRead \/ SeedArrives
           \/ \E seq, b : b \in BOOLEAN /\ (FrameArrives(seq, b) \/ Publish(seq, b))
    PROVE  LiveOK' /\ view'.is = "live"
<1>1. LiveShape /\ LiveCovers
    BY DEF LiveOK
<1>2. UNCHANGED <<clock, rows, history>>
    BY DEF Connect, Disconnect, SeedRead, SeedArrives, FrameArrives, Publish, Live, dbVars
<1>3. \A r : Recent(r)' <=> Recent(r)
    BY <1>2 DEF Recent
<1>4. rows \subseteq history
    BY DEF HistoryOK
<1> DEFINE To(up, due, wire, seed, answer, shown, gap) ==
        view' = [is |-> "live", up |-> up, due |-> due, wire |-> wire, seed |-> seed,
                 answer |-> answer, shown |-> shown, gap |-> gap]
<1>5. CASE Connect
    <2>1. To(TRUE, view.due, view.wire, "asked", {}, view.shown, view.gap)
        BY <1>1, <1>5 DEF Connect, Live, LiveShape
    <2> QED
        BY <1>1, <2>1 DEF LiveOK, LiveShape, LiveCovers
<1>6. CASE Disconnect
    <2>1. To(FALSE, view.due, {}, view.seed, view.answer, view.shown, view.gap)
        BY <1>1, <1>6 DEF Disconnect, Live, LiveShape
    <2> QED
        BY <1>1, <2>1 DEF LiveOK, LiveShape, LiveCovers
<1>7. CASE SeedRead
    <2> DEFINE page == Page(db, [user |-> NULL], 0, DefaultLimit, "all")
               answer == {page[i] : i \in DOMAIN page}
               gap == \E r \in rows : r.seq \notin answer /\ Within(r.seq)
    <2>1. To(view.up, view.due, view.wire, "read", answer, view.shown, gap)
        BY <1>1, <1>7 DEF SeedRead, Live, LiveShape
    <2>2. gap \in BOOLEAN
        OBVIOUS
    <2>3. ~gap => \A r \in rows : Recent(r) => r.seq \in answer
        BY <1>4, WithinIs
    <2> HIDE DEF page, answer, gap
    <2>4. LiveShape'
        BY <1>1, <2>1, <2>2 DEF LiveShape
    <2>5. LiveCovers'
        BY <1>2, <1>3, <2>1, <2>3 DEF LiveCovers, Somewhere
    <2> QED
        BY <2>1, <2>4, <2>5 DEF LiveOK
<1>8. CASE SeedArrives
    <2> DEFINE shown == Add(view, view.answer)
    <2>1. To(view.up, view.due, view.wire, "done", {}, shown, view.gap) /\ view.seed = "read"
        BY <1>1, <1>8 DEF SeedArrives, Live, LiveShape
    <2>2. /\ \A s \in DOMAIN shown : shown[s] = 1
          /\ \A r \in history : Recent(r) /\ r.seq \in DOMAIN view.shown \cup view.answer
                 => r.seq \in DOMAIN shown
        BY <1>1, AddIs
    <2> HIDE DEF shown
    <2>3. LiveShape'
        BY <1>1, <2>1, <2>2 DEF LiveShape
    <2>4. LiveCovers'
        BY <1>1, <1>2, <1>3, <1>4, <2>1, <2>2 DEF LiveCovers, Somewhere
    <2> QED
        BY <2>1, <2>3, <2>4 DEF LiveOK
<1>9. ASSUME NEW seq, NEW drop \in BOOLEAN, Publish(seq, drop)
      PROVE  LiveOK' /\ view'.is = "live"
    <2> DEFINE wire == IF view.up /\ ~drop THEN view.wire \cup {seq} ELSE view.wire
               gap == view.gap \/ (view.up /\ drop)
    <2>1. To(view.up, view.due \ {seq}, wire, view.seed, view.answer, view.shown, gap)
        BY <1>1, <1>9 DEF Publish, Live, LiveShape
    <2>2. gap \in BOOLEAN
        OBVIOUS
    <2>3. view.up /\ ~gap => ~view.gap /\ wire = view.wire \cup {seq}
        OBVIOUS
    <2> HIDE DEF wire, gap
    <2>4. LiveShape'
        BY <1>1, <2>1, <2>2 DEF LiveShape
    <2>5. LiveCovers'
        BY <1>1, <1>2, <1>3, <2>1, <2>3 DEF LiveCovers, Somewhere
    <2> QED
        BY <2>1, <2>4, <2>5 DEF LiveOK
<1>10. ASSUME NEW seq, NEW paused \in BOOLEAN, FrameArrives(seq, paused)
       PROVE  LiveOK' /\ view'.is = "live"
    <2> DEFINE shown == IF paused THEN view.shown ELSE Add(view, {seq})
               gap == view.gap \/ paused
    <2>1. To(view.up, view.due, view.wire \ {seq}, view.seed, view.answer, shown, gap)
        BY <1>1, <1>10 DEF FrameArrives, Live, LiveShape
    <2>2. gap \in BOOLEAN
        OBVIOUS
    <2>3. \A s \in DOMAIN shown : shown[s] = 1
        BY <1>1, AddIs DEF LiveShape
    <2>4. ~gap => /\ ~view.gap
                  /\ \A r \in history : Recent(r) /\ r.seq \in DOMAIN view.shown \cup {seq}
                         => r.seq \in DOMAIN shown
        BY <1>1, AddIs
    <2> HIDE DEF shown, gap
    <2>5. LiveShape'
        BY <1>1, <2>1, <2>2, <2>3 DEF LiveShape
    <2>6. LiveCovers'
        BY <1>1, <1>2, <1>3, <1>4, <2>1, <2>4 DEF LiveCovers, Somewhere
    <2> QED
        BY <2>1, <2>5, <2>6 DEF LiveOK
<1> QED
    BY <1>5, <1>6, <1>7, <1>8, <1>9, <1>10

-----------------------------------------------------------------------------
(* a walk through the list *)

ListShape ==
    /\ view = [is |-> "list", scope |-> view.scope, filter |-> view.filter,
               limit |-> view.limit, cursor |-> view.cursor, shown |-> view.shown,
               start |-> view.start]
    /\ view.limit \in Nat \ {0}
    /\ view.shown \in Seq(Nat)
    /\ view.cursor \in Nat \cup {NULL}

Shows(r) == InScope(view.scope, r.user) /\ Matches(r, view.filter)

\* The cursor is the last that was shown, and what was there at the beginning
\* and has not been shown is below it.
ListPlace ==
    /\ \A i, j \in 1..Len(view.shown) : i < j => view.shown[i] > view.shown[j]
    /\ \A i \in 1..Len(view.shown) : \E r \in history : r.seq = view.shown[i] /\ Shows(r)
    /\ view.cursor = 0 => view.shown = <<>>
    /\ view.cursor # NULL => \A i \in 1..Len(view.shown) : view.shown[i] >= view.cursor
    /\ \A r \in view.start : r \in history /\ Shows(r)
    /\ \A r \in view.start \cap rows :
          \/ Listed(view.shown, r.seq)
          \/ view.cursor # NULL /\ (view.cursor = 0 \/ r.seq < view.cursor)

WalkOK == view.is = "list" => ListShape /\ ListPlace

LEMMA WalkInit == StoreInit => WalkOK
BY DEF StoreInit, NoView, NoPage, WalkOK

\* Rows come and go, and the page stays as it is.
LEMMA WalkStands ==
    ASSUME WalkOK, HistoryOK, view' = view, history \subseteq history',
           \A r \in rows' : r \in rows \/ r \notin history
    PROVE  WalkOK'
BY DEF WalkOK, ListShape, ListPlace, Shows, Listed, InScope, Matches

LEMMA WalkMore ==
    ASSUME WalkOK, HistoryOK, LoadMore
    PROVE  WalkOK' /\ view'.is = "list"
<1> DEFINE S == Below(db, view.scope, view.cursor, view.filter)
           p == Page(db, view.scope, view.cursor, view.limit, view.filter)
           n == Len(view.shown)
<1>1. ListShape /\ ListPlace /\ view.cursor \in Nat /\ view.cursor # NULL
    BY DEF WalkOK, LoadMore, ListShape
<1>2. /\ p \in Seq(S) /\ Len(p) \in 0..view.limit
      /\ \A i, j \in 1..Len(p) : i < j => p[i] > p[j]
      /\ \A s \in S : Listed(p, s) \/ (Len(p) = view.limit /\ s < p[Len(p)])
    <2>1. view.limit \in Nat \ {0}
        BY <1>1 DEF ListShape
    <2>2. Cardinality(history) \in Nat /\ \A r \in db.rows : r.seq \in 1..Cardinality(history)
        BY DEF HistoryOK, db
    <2> QED
        BY <2>1, <2>2, PageIs
<1>3. /\ view' = [is |-> "list", scope |-> view.scope, filter |-> view.filter,
                  limit |-> view.limit, cursor |-> NextCursor(p, view.limit),
                  shown |-> view.shown \o p, start |-> view.start]
      /\ UNCHANGED <<rows, history>>
    BY <1>1 DEF LoadMore, NextRows, ListShape, dbVars
<1>4. \A s \in S : \E r \in rows : /\ r.seq = s /\ Shows(r)
                                   /\ view.cursor <= 0 \/ s < view.cursor
    BY DEF Below, db, Shows
<1>5. ASSUME NEW r \in rows, Shows(r), view.cursor = 0 \/ r.seq < view.cursor
      PROVE  r.seq \in S
    BY <1>5 DEF Below, db, Shows
<1>6. S \subseteq Nat /\ \A s \in S : s # 0
    BY <1>4 DEF HistoryOK
<1> HIDE DEF S, p
<1>7. p \in Seq(Nat) /\ view.shown \in Seq(Nat) /\ view.limit \in Nat \ {0}
    BY <1>1, <1>2, <1>6, SeqMonotonic DEF ListShape
<1>8. /\ Len(p) \in Nat /\ \A i \in 1..Len(p) : p[i] \in S /\ p[i] \in Nat /\ p[i] # 0
      /\ n \in Nat /\ \A i \in 1..n : view.shown[i] \in Nat
    BY <1>2, <1>6, <1>7, ElementOfSeq, LenProperties
<1> DEFINE more == view.shown \o p
<1>9. /\ more \in Seq(Nat) /\ Len(more) = n + Len(p)
      /\ \A i \in 1..n : more[i] = view.shown[i]
      /\ \A i \in 1..Len(p) : more[n + i] = p[i]
    <2>1. /\ more \in Seq(Nat) /\ Len(more) = n + Len(p)
          /\ \A i \in 1..(n + Len(p)) : more[i] = IF i <= n THEN view.shown[i] ELSE p[i - n]
        BY <1>7, ConcatProperties
    <2>2. \A i \in 1..Len(p) : n + i \in 1..(n + Len(p)) /\ ~(n + i <= n) /\ n + i - n = i
        BY <1>8
    <2>3. \A i \in 1..n : i \in 1..(n + Len(p)) /\ i <= n
        BY <1>8
    <2>4. \A i \in 1..Len(p) : more[n + i] = p[i]
        <3> TAKE i \in 1..Len(p)
        <3>1. n + i \in 1..(n + Len(p)) /\ ~(n + i <= n) /\ n + i - n = i
            BY <2>2
        <3>2. more[n + i] = p[n + i - n]
            BY <2>1, <3>1
        <3> QED
            BY <3>1, <3>2
    <2>5. \A i \in 1..n : more[i] = view.shown[i]
        BY <2>1, <2>3
    <2> HIDE DEF more, n
    <2> QED
        BY <2>1, <2>4, <2>5
<1>10. \A i \in 1..(n + Len(p)) : i \in 1..n \/ (i - n \in 1..Len(p) /\ i = n + (i - n))
    BY <1>8
<1> DEFINE cursor == NextCursor(p, view.limit)
<1>11. \/ Len(p) = view.limit /\ cursor = p[Len(p)] /\ cursor \in Nat \ {0} /\ cursor # NULL
       \/ Len(p) < view.limit /\ cursor = NULL
    <2>1. CASE Len(p) = view.limit
        <3>1. Len(p) \in 1..Len(p)
            BY <1>7, <1>8, <2>1
        <3> QED
            BY <1>8, <2>1, <3>1, StoreAssumption DEF NextCursor
    <2>2. CASE Len(p) # view.limit
        BY <1>2, <1>7, <2>2 DEF NextCursor
    <2> QED
        BY <2>1, <2>2
<1> HIDE DEF more, cursor
<1>12. ListShape'
    BY <1>1, <1>3, <1>7, <1>9, <1>11 DEF ListShape, more, cursor
<1>13. \A i, j \in 1..Len(more) : i < j => more[i] > more[j]
    <2>1. ASSUME NEW i \in 1..n, NEW j \in 1..Len(p)
          PROVE  more[i] > more[n + j]
        <3>1. view.shown[i] >= view.cursor
            BY <1>1, <2>1 DEF ListPlace
        <3>2. view.cursor # 0
            <4>1. ASSUME view.cursor = 0 PROVE FALSE
                <5>1. view.shown = <<>>
                    BY <1>1, <4>1 DEF ListPlace
                <5>2. n = 0
                    BY <5>1
                <5> QED
                    BY <2>1, <5>2
            <4> QED
                BY <4>1
        <3>3. p[j] \in S
            BY <1>8
        <3>4. p[j] < view.cursor
            BY <1>1, <1>4, <3>2, <3>3
        <3>5. more[i] = view.shown[i] /\ more[n + j] = p[j]
            BY <1>9, <2>1
        <3>6. view.shown[i] \in Nat /\ p[j] \in Nat /\ view.cursor \in Nat
            BY <1>1, <1>8, <2>1
        <3> QED
            BY <3>1, <3>4, <3>5, <3>6
    <2>2. ASSUME NEW i \in 1..(n + Len(p)), NEW j \in 1..(n + Len(p)), i < j
          PROVE  more[i] > more[j]
        <3>1. CASE i \in 1..n /\ j \in 1..n
            BY <1>1, <1>9, <2>2, <3>1 DEF ListPlace
        <3>2. CASE i \in 1..n /\ j \notin 1..n
            BY <1>10, <2>1, <2>2, <3>2
        <3>3. CASE i \notin 1..n
            <4>1. i - n \in 1..Len(p) /\ j - n \in 1..Len(p) /\ i - n < j - n
                  /\ i = n + (i - n) /\ j = n + (j - n)
                BY <1>8, <2>2, <3>3
            <4>2. more[i] = p[i - n] /\ more[j] = p[j - n]
                BY <1>9, <4>1
            <4> QED
                BY <1>2, <4>1, <4>2
        <3> QED
            BY <3>1, <3>2, <3>3
    <2> QED
        BY <1>9, <2>2
<1>14. \A i \in 1..Len(more) : \E r \in history : r.seq = more[i] /\ Shows(r)
    <2>1. ASSUME NEW i \in 1..n
          PROVE  \E r \in history : r.seq = more[i] /\ Shows(r)
        BY <1>1, <1>9 DEF ListPlace
    <2>2. ASSUME NEW i \in 1..Len(p)
          PROVE  \E r \in history : r.seq = more[n + i] /\ Shows(r)
        BY <1>4, <1>8, <1>9 DEF HistoryOK
    <2>3. ASSUME NEW i \in 1..Len(more)
          PROVE  \E r \in history : r.seq = more[i] /\ Shows(r)
        <3>1. i \in 1..n \/ (i - n \in 1..Len(p) /\ i = n + (i - n))
            BY <1>9, <1>10
        <3> QED
            BY <2>1, <2>2, <3>1
    <2> QED
        BY <2>3
<1>15. cursor # 0
    BY <1>11, StoreAssumption
<1>16. cursor # NULL => \A i \in 1..Len(more) : more[i] >= cursor
    <2>1. SUFFICES ASSUME cursor # NULL PROVE \A i \in 1..Len(more) : more[i] >= cursor
        OBVIOUS
    <2>2. Len(p) = view.limit /\ cursor = p[Len(p)] /\ Len(p) \in 1..Len(p)
        BY <1>7, <1>8, <1>11, <2>1
    <2>3. cursor = more[Len(more)] /\ Len(more) \in 1..Len(more)
        <3>1. Len(more) = n + Len(p) /\ more[n + Len(p)] = p[Len(p)]
            BY <1>9, <2>2
        <3>2. n + Len(p) \in 1..(n + Len(p))
            BY <1>8, <2>2
        <3> QED
            BY <2>2, <3>1, <3>2
    <2>4. \A i \in 1..Len(more) : more[i] \in Nat
        BY <1>9, ElementOfSeq
    <2> QED
        BY <1>13, <2>3, <2>4
<1>17. ASSUME NEW r \in view.start \cap rows
       PROVE  Listed(more, r.seq) \/ (cursor # NULL /\ (cursor = 0 \/ r.seq < cursor))
    <2>1. CASE Listed(view.shown, r.seq)
        <3>1. PICK i \in 1..n : view.shown[i] = r.seq
            BY <2>1 DEF Listed
        <3>2. i \in 1..Len(more) /\ more[i] = r.seq
            BY <1>8, <1>9, <3>1
        <3> QED
            BY <3>2 DEF Listed
    <2>2. CASE ~Listed(view.shown, r.seq)
        <3>1. r.seq \in S
            BY <1>1, <1>5, <2>2 DEF ListPlace
        <3>2. CASE Listed(p, r.seq)
            <4>1. PICK i \in 1..Len(p) : p[i] = r.seq
                BY <3>2 DEF Listed
            <4>2. n + i \in 1..Len(more) /\ more[n + i] = r.seq
                <5>1. more[n + i] = p[i] /\ Len(more) = n + Len(p)
                    BY <1>9, <4>1
                <5>2. n + i \in 1..(n + Len(p))
                    BY <1>8, <4>1
                <5> QED
                    BY <4>1, <5>1, <5>2
            <4> QED
                BY <4>2 DEF Listed
        <3>3. CASE ~Listed(p, r.seq)
            BY <1>2, <1>11, <3>1, <3>3
        <3> QED
            BY <3>2, <3>3
    <2> QED
        BY <2>1, <2>2
<1>18. view'.shown = more /\ view'.cursor = cursor /\ view'.start = view.start
       /\ view'.scope = view.scope /\ view'.filter = view.filter
    BY <1>3 DEF more, cursor
<1>19. \A r : Shows(r)' <=> Shows(r)
    BY <1>18 DEF Shows
<1>20. ListPlace'
    BY <1>1, <1>3, <1>13, <1>14, <1>15, <1>16, <1>17, <1>18, <1>19 DEF ListPlace
<1> QED
    BY <1>3, <1>12, <1>20 DEF WalkOK

-----------------------------------------------------------------------------
(* the page, whichever it is *)

LEMMA LiveNext == HistoryOK /\ WalkOK /\ LiveOK /\ [StoreNext]_storeVars => LiveOK'
<1> SUFFICES ASSUME HistoryOK, WalkOK, LiveOK, [StoreNext]_storeVars PROVE LiveOK'
    OBVIOUS
<1>0. clock \in Nat /\ clock <= clock
    BY DEF HistoryOK
<1>1. ASSUME NEW k \in Kinds \cup PagedKinds, Commit(k)
      PROVE  LiveOK'
    BY <1>1, LiveCommits
<1>2. CASE Tick \/ StartSweep \/ SweepRows \/ SweepCells \/ SweepFails
    <2>1. view' = view /\ rows' \subseteq rows
        BY <1>2 DEF Tick, StartSweep, SweepRows, SweepCells, SweepFails, dbVars
    <2>2. clock' \in Nat /\ clock <= clock'
        BY <1>0, <1>2 DEF Tick, StartSweep, SweepRows, SweepCells, SweepFails
    <2> QED
        BY <2>1, <2>2, LiveStands
<1>3. ASSUME NEW s, NEW f, NEW n, OpenList(s, f, n)
      PROVE  LiveOK'
    BY <1>3 DEF OpenList, LiveOK
<1>4. CASE LoadMore
    BY <1>4, WalkMore DEF LiveOK
<1>5. CASE OpenLive
    <2>1. view' = [is |-> "live", up |-> FALSE, due |-> {}, wire |-> {}, seed |-> "asked",
                   answer |-> {}, shown |-> <<>>, gap |-> FALSE]
        BY <1>5 DEF OpenLive
    <2>2. DOMAIN <<>> = {}
        OBVIOUS
    <2> QED
        BY <2>1, <2>2 DEF LiveOK, LiveShape, LiveCovers
<1>6. CASE \/ Connect \/ Disconnect \/ SeedRead \/ SeedArrives
           \/ \E seq \in 1..MaxRecords : \E b \in BOOLEAN : FrameArrives(seq, b) \/ Publish(seq, b)
    <2>1. view.is = "live"
        BY <1>6 DEF Connect, Disconnect, SeedRead, SeedArrives, FrameArrives, Publish
    <2>2. \/ Connect \/ Disconnect \/ SeedRead \/ SeedArrives
          \/ \E seq, b : b \in BOOLEAN /\ (FrameArrives(seq, b) \/ Publish(seq, b))
        BY <1>6
    <2> QED
        BY <2>1, <2>2, LiveMoves
<1>7. CASE UNCHANGED storeVars
    BY <1>0, <1>7, LiveStands DEF storeVars, dbVars
<1> QED
    BY <1>1, <1>2, <1>3, <1>4, <1>5, <1>6, <1>7 DEF StoreNext

LEMMA WalkNext == HistoryOK /\ LiveOK /\ WalkOK /\ [StoreNext]_storeVars => WalkOK'
<1> SUFFICES ASSUME HistoryOK, LiveOK, WalkOK, [StoreNext]_storeVars PROVE WalkOK'
    OBVIOUS
<1>1. ASSUME NEW k \in Kinds \cup PagedKinds, Commit(k)
      PROVE  WalkOK'
    <2>1. CASE view.is = "live"
        BY <1>1, <2>1 DEF Commit, WalkOK
    <2>2. CASE view.is # "live"
        BY <1>1, <2>2, CommitIs, WalkStands
    <2> QED
        BY <2>1, <2>2
<1>2. CASE Tick \/ StartSweep \/ SweepRows \/ SweepCells \/ SweepFails
    BY <1>2, WalkStands DEF Tick, StartSweep, SweepRows, SweepCells, SweepFails, dbVars
<1>3. ASSUME NEW s, NEW f, NEW n \in {0, 1, MaxLimit + 1}, OpenList(s, f, n)
      PROVE  WalkOK'
    <2>1. ClampLimit(n) \in Nat \ {0}
        <3>1. DefaultLimit \in Nat \ {0} /\ MaxLimit \in Nat \ {0} /\ n \in Nat
            BY StoreAssumption
        <3>2. n > 0 => \E x \in {n, MaxLimit} : \A y \in {n, MaxLimit} : x <= y
            BY <3>1
        <3> QED
            BY <3>1, <3>2 DEF ClampLimit, Min
    <2>2. /\ view' = [is |-> "list", scope |-> s, filter |-> f, limit |-> ClampLimit(n),
                      cursor |-> 0, shown |-> <<>>,
                      start |-> {r \in rows : InScope(s, r.user) /\ Matches(r, f)}]
          /\ UNCHANGED <<rows, history>>
        BY <1>3 DEF OpenList, dbVars
    <2>3. ListShape'
        BY <2>1, <2>2, EmptySeq DEF ListShape
    <2>4. Len(<<>>) = 0 /\ 1..0 = {}
        OBVIOUS
    <2>5. ListPlace'
        BY <2>2, <2>4, StoreAssumption DEF ListPlace, Shows, HistoryOK
    <2> QED
        BY <2>3, <2>5 DEF WalkOK
<1>4. ASSUME view'.is = "live"
      PROVE  WalkOK'
    BY <1>4 DEF WalkOK
<1>5. CASE LoadMore
    BY <1>5, WalkMore
<1>6. CASE \/ Connect \/ Disconnect \/ SeedRead \/ SeedArrives
           \/ \E seq \in 1..MaxRecords : \E b \in BOOLEAN : FrameArrives(seq, b) \/ Publish(seq, b)
    <2>1. view.is = "live"
        BY <1>6 DEF Connect, Disconnect, SeedRead, SeedArrives, FrameArrives, Publish
    <2>2. \/ Connect \/ Disconnect \/ SeedRead \/ SeedArrives
          \/ \E seq, b : b \in BOOLEAN /\ (FrameArrives(seq, b) \/ Publish(seq, b))
        BY <1>6
    <2>3. view'.is = "live"
        BY <2>1, <2>2, LiveMoves
    <2> QED
        BY <1>4, <2>3
<1>7. CASE OpenLive
    BY <1>7 DEF OpenLive, WalkOK
<1>8. CASE UNCHANGED storeVars
    BY <1>8, WalkStands DEF storeVars, dbVars
<1> QED
    BY <1>1, <1>2, <1>3, <1>5, <1>6, <1>7, <1>8 DEF StoreNext

\* The page, in every state that can be reached.
LEMMA PageAlways == StoreSpec => [](LiveOK /\ WalkOK)
BY LiveInit, WalkInit, LiveNext, WalkNext, History, PTL DEF StoreSpec

\* NoHole, for any window, whatever comes, goes and disconnects.
THEOREM LiveHasNoHole == StoreSpec => []NoHole
<1>1. HistoryOK /\ LiveOK => NoHole
    <2> SUFFICES ASSUME HistoryOK, LiveOK, view.is = "live", view.up, view.seed = "done",
                        view.due = {}, view.wire = {}, ~view.gap,
                        NEW r \in rows, Within(r.seq)
                 PROVE  r.seq \in DOMAIN view.shown /\ view.shown[r.seq] = 1
        BY DEF NoHole
    <2>1. LiveShape /\ LiveCovers /\ view.answer = {}
        BY DEF LiveOK, LiveShape
    <2>2. Recent(r)
        BY WithinIs DEF HistoryOK
    <2>3. r.seq \in DOMAIN view.shown
        BY <2>1, <2>2 DEF LiveCovers, Somewhere
    <2> QED
        BY <2>1, <2>3 DEF LiveShape
<1> QED
    BY <1>1, PageAlways, History, PTL

\* WalkComplete, for any pages and any number of rows.
THEOREM WalkShowsAll == StoreSpec => []WalkComplete
<1>1. WalkOK => WalkComplete
    <2> SUFFICES ASSUME WalkOK, view.is = "list" PROVE WalkComplete
        BY DEF WalkComplete
    <2>1. ListShape /\ ListPlace
        BY DEF WalkOK
    <2>2. DOMAIN view.shown = 1..Len(view.shown)
        BY <2>1, LenProperties DEF ListShape
    <2> QED
        BY <2>1, <2>2 DEF WalkComplete, ListPlace, Shows, Listed
<1> QED
    BY <1>1, PageAlways, PTL

-----------------------------------------------------------------------------
(***************************************************************************)
(* Migrations.                                                             *)
(*                                                                         *)
(* The argument: the applied files are always 1..m for some m.  A process  *)
(* that has applied a file and not yet written the version has version m,  *)
(* and userVersion is below m.  Every other process that is migrating      *)
(* still compares with a version it read, at most userVersion, so its next *)
(* file is one of 1..m and throws.                                         *)
(***************************************************************************)

(* The inductive invariant.                                                *)
ReadNoMore ==
    \A p \in Process : pc[p] = "migrating" =>
        /\ current[p] <= version[p]
        /\ current[p] <= userVersion
        /\ 1..version[p] \subseteq applied

AheadIsLast ==
    \A p \in Process : Ahead(p) =>
        /\ userVersion < version[p]
        /\ \A f \in applied : f <= version[p]

Inv ==
    /\ TypeOK
    /\ VersionIsApplied
    /\ ReadyIsMigrated
    /\ ReadNoMore
    /\ AheadIsLast
    /\ OneIsAhead

LEMMA InitInv == Init => Inv
<1> SUFFICES ASSUME Init PROVE Inv
    OBVIOUS
<1>1. TypeOK
    BY DEF Init, TypeOK
<1>2. VersionIsApplied
    BY DEF Init, VersionIsApplied
<1>3. ReadyIsMigrated /\ ReadNoMore /\ AheadIsLast /\ OneIsAhead
    BY DEF Init, ReadyIsMigrated, ReadNoMore, AheadIsLast, OneIsAhead, Ahead
<1> QED
    BY <1>1, <1>2, <1>3 DEF Inv

LEMMA TypeNext == Inv /\ [Next]_vars => TypeOK'
<1> SUFFICES ASSUME Inv, [Next]_vars PROVE TypeOK'
    OBVIOUS
<1> USE DEF Inv, TypeOK
<1>1. ASSUME NEW p \in Process, Open(p) PROVE TypeOK'
    BY <1>1 DEF Open
<1>2. ASSUME NEW p \in Process, Apply(p) PROVE TypeOK'
  <2>1. next(p) \in Nat \ {0}
    BY DEF next
  <2> QED
    BY <1>2, <2>1 DEF Apply
<1>3. ASSUME NEW p \in Process, ApplyThrows(p) PROVE TypeOK'
    BY <1>3 DEF ApplyThrows, local
<1>4. ASSUME NEW p \in Process, Finish(p) PROVE TypeOK'
    BY <1>4 DEF Finish, local
<1>5. ASSUME NEW p \in Process, Stop(p) PROVE TypeOK'
    BY <1>5 DEF Stop, local
<1>6. ASSUME NEW f \in broken, Fix(f) PROVE TypeOK'
    BY <1>6 DEF Fix, local
<1>7. CASE UNCHANGED vars
    BY <1>7 DEF vars, local
<1> QED
    BY <1>1, <1>2, <1>3, <1>4, <1>5, <1>6, <1>7 DEF Next

(* A process that can apply a file has read the version the schema is at:  *)
(* no other process is ahead, and its file is the one after the last.      *)
LEMMA ApplierIsAlone ==
    ASSUME Inv, NEW p \in Process, Apply(p)
    PROVE  /\ userVersion < next(p)
           /\ \A f \in applied : f < next(p)
           /\ \A q \in Process : Ahead(q) => q = p
<1> USE DEF Inv, TypeOK
<1>1. pc[p] = "migrating" /\ next(p) \notin applied /\ next(p) = version[p] + 1
    BY DEF Apply, next
<1>2. version[p] \in Nat /\ next(p) \in Nat \ {0}
    BY <1>1
<1>3. \A f \in applied : f < next(p)
  <2> SUFFICES ASSUME NEW f \in applied, f >= next(p) PROVE FALSE
    BY <1>2
  <2>1. next(p) \in 1..f
    BY <1>2
  <2> QED
    BY <1>1, <2>1 DEF VersionIsApplied
<1>4. userVersion < next(p)
  <2> SUFFICES ASSUME next(p) <= userVersion PROVE FALSE
    BY <1>2
  <2>1. next(p) \in 1..userVersion
    BY <1>2
  <2> QED
    BY <1>1, <2>1 DEF VersionIsApplied
<1>5. ASSUME NEW q \in Process, Ahead(q) PROVE q = p
  <2>1. CASE Ahead(p)
    BY <1>5, <2>1 DEF OneIsAhead
  <2>2. CASE ~Ahead(p)
    <3>1. version[p] = current[p] /\ current[p] <= userVersion
      BY <1>1, <2>2 DEF Ahead, ReadNoMore
    <3>2. userVersion < version[q] /\ pc[q] = "migrating"
      BY <1>5 DEF AheadIsLast, Ahead
    <3>3. next(p) <= version[q]
      BY <1>1, <3>1, <3>2
    <3>4. next(p) \in 1..version[q]
      BY <1>2, <3>3
    <3> QED
      BY <1>1, <3>2, <3>4 DEF ReadNoMore
  <2> QED
    BY <2>1, <2>2
<1> QED
    BY <1>3, <1>4, <1>5

LEMMA NextInv == Inv /\ [Next]_vars => Inv'
<1> SUFFICES ASSUME Inv, [Next]_vars PROVE Inv'
    OBVIOUS
<1>0. TypeOK'
    BY TypeNext
<1> USE DEF Inv, TypeOK
<1>1. ASSUME NEW p \in Process, Open(p) PROVE Inv'
  <2>1. /\ pc' = [pc EXCEPT ![p] = "migrating"]
        /\ current' = [current EXCEPT ![p] = userVersion]
        /\ version' = [version EXCEPT ![p] = userVersion]
        /\ UNCHANGED <<applied, userVersion, broken>>
    BY <1>1 DEF Open
  <2>2. VersionIsApplied' /\ ReadyIsMigrated'
    BY <2>1 DEF VersionIsApplied, ReadyIsMigrated
  <2>3. ReadNoMore'
    BY <2>1 DEF ReadNoMore, VersionIsApplied
  <2>4. \A q \in Process : Ahead(q)' => Ahead(q) /\ q # p
    BY <2>1 DEF Ahead
  <2>5. AheadIsLast' /\ OneIsAhead'
    BY <2>1, <2>4 DEF AheadIsLast, OneIsAhead
  <2> QED
    BY <1>0, <2>2, <2>3, <2>5
<1>2. ASSUME NEW p \in Process, Apply(p) PROVE Inv'
  <2>1. /\ pc[p] = "migrating"
        /\ applied' = applied \cup {next(p)}
        /\ version' = [version EXCEPT ![p] = next(p)]
        /\ UNCHANGED <<userVersion, broken, pc, current>>
    BY <1>2 DEF Apply
  <2>2. version[p] \in Nat /\ next(p) = version[p] + 1
    BY DEF next
  <2>3. /\ userVersion < next(p)
        /\ \A f \in applied : f < next(p)
        /\ \A q \in Process : Ahead(q) => q = p
    BY <1>2, ApplierIsAlone
  <2>4. 1..version[p] \subseteq applied /\ current[p] <= version[p] /\ current[p] <= userVersion
    BY <2>1 DEF ReadNoMore
  <2>5. 1..next(p) \subseteq applied'
    BY <2>1, <2>2, <2>4
  <2>6. VersionIsApplied'
    BY <2>1, <2>5 DEF VersionIsApplied
  <2>7. ReadyIsMigrated'
    BY <2>1 DEF ReadyIsMigrated
  <2>8. ReadNoMore'
    BY <2>1, <2>2, <2>4, <2>5 DEF ReadNoMore
  <2>9. \A q \in Process : Ahead(q)' => q = p
    BY <2>1, <2>3 DEF Ahead
  <2>10. AheadIsLast'
    BY <2>1, <2>2, <2>3, <2>9 DEF AheadIsLast
  <2>11. OneIsAhead'
    BY <2>9 DEF OneIsAhead
  <2> QED
    BY <1>0, <2>6, <2>7, <2>8, <2>10, <2>11
<1>3. ASSUME NEW p \in Process, ApplyThrows(p) PROVE Inv'
  <2>1. /\ pc' = [pc EXCEPT ![p] = "failed"]
        /\ UNCHANGED <<applied, userVersion, broken, current, version>>
    BY <1>3 DEF ApplyThrows, local
  <2>2. \A q \in Process : Ahead(q)' => Ahead(q)
    BY <2>1 DEF Ahead
  <2> QED
    BY <1>0, <2>1, <2>2
    DEF VersionIsApplied, ReadyIsMigrated, ReadNoMore, AheadIsLast, OneIsAhead
<1>4. ASSUME NEW p \in Process, Finish(p) PROVE Inv'
  <2>1. /\ pc[p] = "migrating"
        /\ next(p) > Shipped[p]
        /\ userVersion' = IF version[p] # current[p] THEN version[p] ELSE userVersion
        /\ pc' = [pc EXCEPT ![p] = "ready"]
        /\ UNCHANGED <<applied, broken, current, version>>
    BY <1>4 DEF Finish, local
  <2>2. 1..version[p] \subseteq applied /\ version[p] \in Nat
    BY <2>1 DEF ReadNoMore
  <2>3. VersionIsApplied'
    BY <2>1, <2>2 DEF VersionIsApplied
  <2>4. ReadyIsMigrated'
    <3>0. Shipped[p] \in Nat
      BY MigrationsAssumption
    <3>1. Shipped[p] \in Nat /\ Shipped[p] <= version[p]
      BY <2>1, <2>2, <3>0 DEF next
    <3>2. 1..Shipped[p] \subseteq applied
      BY <2>2, <3>1
    <3> QED
      BY <2>1, <3>2 DEF ReadyIsMigrated
  <2>5. userVersion <= userVersion'
    BY <2>1 DEF AheadIsLast, Ahead
  <2>6. ReadNoMore'
    BY <1>0, <2>1, <2>5 DEF ReadNoMore
  <2>7. \A q \in Process : Ahead(q)' => Ahead(q) /\ q # p
    BY <2>1 DEF Ahead
  <2>8. \A q \in Process : Ahead(q)' => userVersion' = userVersion
    BY <2>1, <2>7 DEF OneIsAhead, Ahead
  <2>9. AheadIsLast' /\ OneIsAhead'
    BY <2>1, <2>7, <2>8 DEF AheadIsLast, OneIsAhead
  <2> QED
    BY <1>0, <2>3, <2>4, <2>6, <2>9
<1>5. ASSUME NEW p \in Process, Stop(p) PROVE Inv'
  <2>1. /\ pc' = [pc EXCEPT ![p] = "down"]
        /\ UNCHANGED <<applied, userVersion, broken, current, version>>
    BY <1>5 DEF Stop, local
  <2>2. \A q \in Process : Ahead(q)' => Ahead(q)
    BY <2>1 DEF Ahead
  <2> QED
    BY <1>0, <2>1, <2>2
    DEF VersionIsApplied, ReadyIsMigrated, ReadNoMore, AheadIsLast, OneIsAhead
<1>6. ASSUME NEW f \in broken, Fix(f) PROVE Inv'
    BY <1>0, <1>6
    DEF Fix, local, VersionIsApplied, ReadyIsMigrated, ReadNoMore, AheadIsLast, OneIsAhead, Ahead
<1>7. CASE UNCHANGED vars
    BY <1>0, <1>7
    DEF vars, local, VersionIsApplied, ReadyIsMigrated, ReadNoMore, AheadIsLast, OneIsAhead, Ahead
<1> QED
    BY <1>1, <1>2, <1>3, <1>4, <1>5, <1>6, <1>7 DEF Next

LEMMA Invariance == Spec => []Inv
    BY InitInv, NextInv, PTL DEF Spec

(***************************************************************************)
(* The schema is a set of numbered files and each process is where         *)
(* migrate() can be (db.ts:163-205).                                       *)
(***************************************************************************)
THEOREM MigrationTypes == Spec => []TypeOK
<1>1. Inv => TypeOK
    BY DEF Inv
<1> QED
    BY <1>1, Invariance, PTL

(***************************************************************************)
(* No process works on a schema that lacks a file it ships (withStore,     *)
(* fest.ts:87-95).                                                         *)
(***************************************************************************)
THEOREM ReadyMigrated == Spec => []ReadyIsMigrated
<1>1. Inv => ReadyIsMigrated
    BY DEF Inv
<1> QED
    BY <1>1, Invariance, PTL

(***************************************************************************)
(* PRAGMA user_version never claims a file that is not applied (migrate,   *)
(* db.ts:177-216).                                                         *)
(***************************************************************************)
THEOREM VersionApplied == Spec => []VersionIsApplied
<1>1. Inv => VersionIsApplied
    BY DEF Inv
<1> QED
    BY <1>1, Invariance, PTL

(***************************************************************************)
(* At most one process at a time has applied files it has not claimed,     *)
(* without any lock around migrate().                                      *)
(***************************************************************************)
THEOREM OnlyOneAhead == Spec => []OneIsAhead
<1>1. Inv => OneIsAhead
    BY DEF Inv
<1> QED
    BY <1>1, Invariance, PTL

(***************************************************************************)
(* PRAGMA user_version never goes back, whichever processes race to write  *)
(* it (db.ts:208-213).                                                     *)
(***************************************************************************)
THEOREM VersionMonotonic == Spec => VersionNeverGoesBack
<1>1. Inv /\ [Next]_vars => [userVersion' >= userVersion]_vars
  <2> SUFFICES ASSUME Inv, Next PROVE userVersion' >= userVersion
    OBVIOUS
  <2> USE DEF Inv, TypeOK
  <2>1. ASSUME NEW p \in Process, Finish(p) PROVE userVersion' >= userVersion
    BY <2>1 DEF Finish, AheadIsLast, Ahead
  <2>2. ASSUME NEW p \in Process, Open(p) \/ Apply(p) \/ ApplyThrows(p) \/ Stop(p)
        PROVE  userVersion' >= userVersion
    BY <2>2 DEF Open, Apply, ApplyThrows, Stop
  <2>3. ASSUME NEW f \in broken, Fix(f) PROVE userVersion' >= userVersion
    BY <2>3 DEF Fix
  <2> QED
    BY <2>1, <2>2, <2>3 DEF Next
<1> QED
    BY <1>1, Invariance, PTL DEF Spec, VersionNeverGoesBack
=============================================================================
