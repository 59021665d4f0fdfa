---------------------------- MODULE ReportsProofs -----------------------------
(***************************************************************************)
(* Proofs about the dashboard's reports: for any records, ranges, scopes   *)
(* and latency buckets, and whatever retention has deleted, every figure   *)
(* is that of the records the range covers.                                *)
(*                                                                         *)
(* The invariant (BooksOK) says of every cell of the cube that its figures *)
(* are the sums over the rows booked into it, and of every deleted row     *)
(* that it is older than where retention has begun.  A query of rows then  *)
(* reads the rows its report is about, and the cells a query of the cube   *)
(* reads share its rows out among them, each in one, so that their sums    *)
(* are those of the rows (SumGroups).                                      *)
(***************************************************************************)
EXTENDS StoreProofs

-----------------------------------------------------------------------------
(* finite sets *)

\* What holds of nothing, and of one more than it holds of, holds of a finite set.
LEMMA SetInduction ==
    ASSUME NEW S, IsFiniteSet(S), NEW good,
           {} \in good, \A T \in SUBSET S, x \in S : T \in good => T \cup {x} \in good
    PROVE  S \in good
<1> DEFINE Bad == (SUBSET S) \ good
<1> SUFFICES ASSUME Bad # {} PROVE FALSE
    OBVIOUS
<1>1. PICK U \in Bad : \A V \in Bad : V \subseteq U => V = U
    <2>1. \A U \in Bad : U \subseteq S
        OBVIOUS
    <2> HIDE DEF Bad
    <2> QED
        BY <2>1, MinimalSubset
<1>2. PICK x \in U : TRUE
    OBVIOUS
<1>3. U \ {x} \in SUBSET S /\ x \in S /\ (U \ {x}) \cup {x} = U /\ U \ {x} # U
    BY <1>1, <1>2
<1>4. U \ {x} \in good
    BY <1>1, <1>3
<1> QED
    BY <1>1, <1>3, <1>4

\* The same of the numbers up to a number.
LEMMA CountingUp ==
    ASSUME NEW N \in Nat, NEW good, 0 \in good, \A n \in 0..N : n + 1 \in 0..N /\ n \in good => n + 1 \in good
    PROVE  0..N \subseteq good
<1> DEFINE left == (0..N) \ good
<1> SUFFICES ASSUME left # {} PROVE FALSE
    OBVIOUS
<1>1. left \in SUBSET Nat
    OBVIOUS
<1>2. PICK n \in left : \A m \in left : n <= m
    BY <1>1, LeastOf
<1>3. n \in Nat /\ n # 0 /\ n - 1 \in 0..N /\ n <= N /\ ~(n <= n - 1)
    BY <1>2
<1>4. n - 1 \in good
    BY <1>2, <1>3
<1> QED
    BY <1>2, <1>3, <1>4

\* What a strict order puts before something.
BeforeIn(order, things, x) == {y \in things : <<y, x>> \in order}

StrictOrder(order, things) ==
    /\ IsFiniteSet(things)
    /\ \A x \in things : <<x, x>> \notin order
    /\ \A x, y, z \in things : <<x, y>> \in order /\ <<y, z>> \in order => <<x, z>> \in order
    /\ \A x, y \in things : x = y \/ <<x, y>> \in order \/ <<y, x>> \in order

\* A finite ordered set has a first element.
LEMMA FirstOfAll ==
    ASSUME NEW things, NEW order, StrictOrder(order, things), things # {}
    PROVE  \E x \in things : \A y \in things \ {x} : <<x, y>> \in order
<1> DEFINE Upto(x) == BeforeIn(order, things, x) \cup {x}
           Bad == {Upto(x) : x \in things}
<1>1. /\ IsFiniteSet(things) /\ Bad # {} /\ \A U \in Bad : U \subseteq things
    <2>1. IsFiniteSet(things)
        BY DEF StrictOrder
    <2>2. PICK x \in things : TRUE
        OBVIOUS
    <2>3. Upto(x) \in Bad
        BY <2>2
    <2>4. \A y \in things : Upto(y) \subseteq things
        BY DEF BeforeIn
    <2> QED
        BY <2>1, <2>3, <2>4
<1>2. PICK U \in Bad : \A V \in Bad : V \subseteq U => V = U
    <2> HIDE DEF Bad
    <2> QED
        BY <1>1, MinimalSubset
<1>3. PICK x \in things : U = Upto(x)
    BY <1>2
<1>4. ASSUME NEW y \in things \ {x}
      PROVE  <<x, y>> \in order
    <2>1. ASSUME <<y, x>> \in order
          PROVE  FALSE
        <3>1. Upto(y) \subseteq Upto(x)
            BY <1>3, <1>4, <2>1 DEF StrictOrder, BeforeIn
        <3>2. Upto(y) = Upto(x)
            BY <1>2, <1>3, <1>4, <3>1
        <3>3. x \in Upto(y)
            BY <3>2
        <3>4. <<x, y>> \in order
            BY <1>4, <3>3 DEF BeforeIn
        <3> QED
            BY <1>3, <1>4, <2>1, <3>4 DEF StrictOrder
    <2> QED
        BY <1>3, <1>4, <2>1 DEF StrictOrder
<1> QED
    BY <1>4

-----------------------------------------------------------------------------
(* sums over a finite set *)
\* What the fold of the community modules folds with.
Pick(s) == CHOOSE x \in s : TRUE
Folded(w, s, iter) == IF s = {} THEN 0 ELSE w[Pick(s)] + iter[s \ {Pick(s)}]
Iter(w, S) == CHOOSE iter : iter = [s \in SUBSET S |-> Folded(w, s, iter)]

\* The sum is that function's value, by the definitions of the fold.
LEMMA SumIsIter == \A w, S : SumFunctionOnSet(w, S) = Iter(w, S)[S]
BY DEF SumFunctionOnSet, FoldFunctionOnSet, MapThenFoldSet, Iter, Folded, Pick

\* What is picked of a set is in it.
LEMMA PickTakes == \A s : s # {} => Pick(s) \in s
BY DEF Pick

\* What is summed.
Summed(w, S) == IsFiniteSet(S) /\ \A x \in S : w[x] \in Int

UpTo(S, n) == {s \in SUBSET S : Cardinality(s) <= n}
FoldsUpTo(w, S, n, iter) == iter \in [UpTo(S, n) -> Int] /\ \A s \in UpTo(S, n) : iter[s] = Folded(w, s, iter)

\* What a finite set is without one of its elements.
LEMMA Smaller ==
    ASSUME NEW S, IsFiniteSet(S), NEW s \in SUBSET S
    PROVE  /\ IsFiniteSet(s) /\ Cardinality(s) \in Nat
           /\ s = {} <=> Cardinality(s) = 0
           /\ s # {} => s \ {Pick(s)} \in SUBSET S /\ Cardinality(s \ {Pick(s)}) = Cardinality(s) - 1
           /\ \A x \in s : Cardinality(s \ {x}) = Cardinality(s) - 1
<1>1. IsFiniteSet(s) /\ Cardinality(s) \in Nat
    BY FS_Subset, FS_CardinalityType
<1>2. s = {} <=> Cardinality(s) = 0
    BY <1>1, FS_EmptySet
<1>3. \A x \in s : Cardinality(s \ {x}) = Cardinality(s) - 1
    BY <1>1, FS_RemoveElement
<1> QED
    BY <1>1, <1>2, <1>3, PickTakes

\* The function the fold folds with exists, so that it is what its equation
\* says.
LEMMA IterExists ==
    ASSUME NEW w, NEW S, Summed(w, S)
    PROVE  /\ Iter(w, S) = [s \in SUBSET S |-> Folded(w, s, Iter(w, S))]
           /\ Iter(w, S) \in [SUBSET S -> Int]
<1> DEFINE N == Cardinality(S)
           good == {n \in 0..N : \E iter : FoldsUpTo(w, S, n, iter)}
<1>0. IsFiniteSet(S) /\ N \in Nat
    BY FS_CardinalityType DEF Summed
<1>1. 0 \in good
    <2> DEFINE iter == [s \in UpTo(S, 0) |-> 0]
    <2>1. \A s \in UpTo(S, 0) : s = {}
        <3>1. \A s \in SUBSET S : Cardinality(s) \in Nat /\ (s = {} <=> Cardinality(s) = 0)
            BY <1>0, Smaller
        <3> QED
            BY <3>1 DEF UpTo
    <2>2. FoldsUpTo(w, S, 0, iter)
        BY <2>1 DEF FoldsUpTo, Folded
    <2> QED
        BY <2>2, <1>0
<1>2. ASSUME NEW n \in 0..N, n + 1 \in 0..N, n \in good
      PROVE  n + 1 \in good
    <2>1. PICK f : FoldsUpTo(w, S, n, f)
        BY <1>2
    <2> DEFINE g == [s \in UpTo(S, n + 1) |-> IF s \in UpTo(S, n) THEN f[s] ELSE Folded(w, s, f)]
    <2>0. \A s \in SUBSET S : Cardinality(s) \in Nat
        BY <1>0, Smaller
    <2>2. UpTo(S, n) \subseteq UpTo(S, n + 1)
        BY <2>0, <1>0 DEF UpTo
    <2>3. \A s \in UpTo(S, n + 1) : s # {} => s \ {Pick(s)} \in UpTo(S, n) /\ w[Pick(s)] \in Int
        BY <1>0, Smaller, PickTakes DEF UpTo, Summed
    <2>4. \A s \in UpTo(S, n + 1) : g[s] = Folded(w, s, f)
        BY <2>1 DEF FoldsUpTo
    <2>5. \A s \in UpTo(S, n) : g[s] = f[s]
        BY <2>2
    <2>6. g \in [UpTo(S, n + 1) -> Int]
        <3>1. \A s \in UpTo(S, n + 1) : Folded(w, s, f) \in Int
            BY <2>1, <2>3 DEF FoldsUpTo, Folded
        <3> QED
            BY <2>4, <3>1
    <2> HIDE DEF g
    <2>7. \A s \in UpTo(S, n + 1) : g[s] = Folded(w, s, g)
        BY <2>3, <2>4, <2>5 DEF Folded
    <2>8. FoldsUpTo(w, S, n + 1, g)
        BY <2>6, <2>7 DEF FoldsUpTo
    <2> QED
        BY <2>8, <1>2
<1> HIDE DEF good
<1>3. N \in good
    <2>1. 0..N \subseteq good
        <3> HIDE DEF N
        <3> QED
            BY <1>0, <1>1, <1>2, CountingUp
    <2> QED
        BY <2>1, <1>0
<1>4. PICK f : FoldsUpTo(w, S, N, f)
    BY <1>3 DEF good
<1>5. UpTo(S, N) = SUBSET S
    <2>1. \A s \in SUBSET S : Cardinality(s) <= N
        BY <1>0, FS_Subset
    <2> QED
        BY <2>1 DEF UpTo
<1>6. f = [s \in SUBSET S |-> Folded(w, s, f)] /\ f \in [SUBSET S -> Int]
    BY <1>4, <1>5 DEF FoldsUpTo
<1>7. Iter(w, S) = [s \in SUBSET S |-> Folded(w, s, Iter(w, S))]
    BY <1>6 DEF Iter
<1>8. \A n \in 0..N : \A s \in SUBSET S : Cardinality(s) = n => Iter(w, S)[s] = f[s]
    <2> DEFINE same == {n \in 0..N : \A s \in SUBSET S : Cardinality(s) = n => Iter(w, S)[s] = f[s]}
    <2>0. /\ \A s \in SUBSET S : Iter(w, S)[s] = Folded(w, s, Iter(w, S))
          /\ \A s \in SUBSET S : f[s] = Folded(w, s, f)
        BY <1>6, <1>7
    <2>1. 0 \in same
        <3>1. \A s \in SUBSET S : Cardinality(s) = 0 => s = {}
            BY <1>0, Smaller
        <3> QED
            BY <3>1, <2>0, <1>0 DEF Folded
    <2>2. ASSUME NEW n \in 0..N, n + 1 \in 0..N, n \in same
          PROVE  n + 1 \in same
        <3>1. ASSUME NEW s \in SUBSET S, Cardinality(s) = n + 1
              PROVE  Iter(w, S)[s] = f[s]
            <4>1. s # {} /\ s \ {Pick(s)} \in SUBSET S /\ Cardinality(s \ {Pick(s)}) = n
                BY <3>1, <1>0, Smaller
            <4>2. Iter(w, S)[s \ {Pick(s)}] = f[s \ {Pick(s)}]
                BY <4>1, <2>2
            <4> QED
                BY <4>1, <4>2, <2>0 DEF Folded
        <3> QED
            BY <3>1, <2>2
    <2> HIDE DEF same
    <2>3. 0..N \subseteq same
        <3> HIDE DEF N
        <3> QED
            BY <1>0, <2>1, <2>2, CountingUp
    <2> QED
        BY <2>3 DEF same
<1>9. Iter(w, S) \in [SUBSET S -> Int]
    <2>1. \A s \in SUBSET S : Cardinality(s) \in 0..N
        <3>1. \A s \in SUBSET S : Cardinality(s) \in Nat /\ Cardinality(s) <= N
            BY <1>0, FS_Subset, Smaller
        <3> HIDE DEF N
        <3> QED
            BY <3>1, <1>0
    <2>2. \A s \in SUBSET S : Iter(w, S)[s] \in Int
        BY <2>1, <1>8, <1>6
    <2> QED
        BY <2>2, <1>7
<1> QED
    BY <1>7, <1>9

\* Its equation, at one set.
LEMMA IterFolds ==
    ASSUME NEW w, NEW S, Summed(w, S), NEW s \in SUBSET S
    PROVE  Iter(w, S)[s] = Folded(w, s, Iter(w, S)) /\ Iter(w, S)[s] \in Int
<1>1. /\ Iter(w, S) = [t \in SUBSET S |-> Folded(w, t, Iter(w, S))]
      /\ Iter(w, S) \in [SUBSET S -> Int]
    BY IterExists
<1> QED
    BY <1>1

\* The sum of nothing.
LEMMA SumOfNone == \A w : SumFunctionOnSet(w, {}) = 0
<1>1. ASSUME NEW w
      PROVE  SumFunctionOnSet(w, {}) = 0
    <2>1. Summed(w, {})
        BY FS_EmptySet DEF Summed
    <2>2. Iter(w, {})[{}] = Folded(w, {}, Iter(w, {}))
        BY <2>1, IterFolds
    <2> QED
        BY <2>2, SumIsIter DEF Folded
<1> QED
    BY <1>1

\* A sum of integers is an integer.
LEMMA SumIsInt ==
    ASSUME NEW w, NEW S, Summed(w, S)
    PROVE  SumFunctionOnSet(w, S) \in Int
BY IterFolds, SumIsIter

\* A sum takes the element that is picked first.
LEMMA SumPicks ==
    ASSUME NEW w, NEW S, Summed(w, S), S # {}
    PROVE  SumFunctionOnSet(w, S) = w[Pick(S)] + SumFunctionOnSet(w, S \ {Pick(S)})
<1> DEFINE R == S \ {Pick(S)}
<1>1. Summed(w, R) /\ R \in SUBSET S
    <2>1. IsFiniteSet(R)
        BY FS_Subset DEF Summed
    <2> QED
        BY <2>1 DEF Summed
<1>2. Iter(w, S)[S] = w[Pick(S)] + Iter(w, S)[R]
    BY IterFolds DEF Folded
<1>3. \A s \in SUBSET R : Iter(w, S)[s] = Iter(w, R)[s]
    <2> DEFINE N == Cardinality(R)
               same == {n \in 0..N : \A s \in SUBSET R : Cardinality(s) = n => Iter(w, S)[s] = Iter(w, R)[s]}
    <2>0. /\ \A s \in SUBSET R : Iter(w, S)[s] = Folded(w, s, Iter(w, S))
          /\ \A s \in SUBSET R : Iter(w, R)[s] = Folded(w, s, Iter(w, R))
        BY <1>1, IterFolds
    <2>1. IsFiniteSet(R) /\ N \in Nat
        BY <1>1, FS_CardinalityType DEF Summed
    <2> HIDE DEF R
    <2>2. 0 \in same
        <3>1. \A s \in SUBSET R : Cardinality(s) = 0 => s = {}
            BY <2>1, Smaller
        <3>2. {} \in SUBSET R /\ 0 \in 0..N
            BY <2>1
        <3>3. Iter(w, S)[{}] = 0 /\ Iter(w, R)[{}] = 0
            BY <3>2, <2>0 DEF Folded
        <3> QED
            BY <3>1, <3>2, <3>3
    <2>3. ASSUME NEW n \in 0..N, n + 1 \in 0..N, n \in same
          PROVE  n + 1 \in same
        <3>1. ASSUME NEW s \in SUBSET R, Cardinality(s) = n + 1
              PROVE  Iter(w, S)[s] = Iter(w, R)[s]
            <4>1. s # {} /\ s \ {Pick(s)} \in SUBSET R /\ Cardinality(s \ {Pick(s)}) = n
                BY <3>1, <2>1, Smaller
            <4>2. Iter(w, S)[s \ {Pick(s)}] = Iter(w, R)[s \ {Pick(s)}]
                BY <4>1, <2>3
            <4> QED
                BY <4>1, <4>2, <2>0 DEF Folded
        <3> QED
            BY <3>1, <2>3
    <2> HIDE DEF same
    <2>4. 0..N \subseteq same
        <3> HIDE DEF N
        <3> QED
            BY <2>1, <2>2, <2>3, CountingUp
    <2>5. \A s \in SUBSET R : Cardinality(s) \in 0..N
        <3>1. \A s \in SUBSET R : Cardinality(s) \in Nat /\ Cardinality(s) <= N
            BY <2>1, FS_Subset, Smaller
        <3> HIDE DEF N
        <3> QED
            BY <3>1, <2>1
    <2> QED
        BY <2>4, <2>5 DEF same
<1> QED
    BY <1>2, <1>3, SumIsIter

SumTakes(w, T, e) == SumFunctionOnSet(w, T) = w[e] + SumFunctionOnSet(w, T \ {e})

\* It may take any element first: the sum does not depend on the order of the
\* picks.
LEMMA SumTake ==
    ASSUME NEW w, NEW S, Summed(w, S), NEW e \in S
    PROVE  SumTakes(w, S, e)
<1> DEFINE N == Cardinality(S)
           good == {n \in 0..N : \A T \in SUBSET S : Cardinality(T) = n => \A x \in T : SumTakes(w, T, x)}
<1>0. IsFiniteSet(S) /\ N \in Nat
    BY FS_CardinalityType DEF Summed
<1>1. \A T \in SUBSET S : Summed(w, T) /\ SumFunctionOnSet(w, T) \in Int
    <2>1. \A T \in SUBSET S : Summed(w, T)
        BY FS_Subset DEF Summed
    <2> QED
        BY <2>1, SumIsInt
<1>2. 0 \in good
    <2>1. \A T \in SUBSET S : Cardinality(T) = 0 => T = {}
        BY <1>0, Smaller
    <2> QED
        BY <2>1, <1>0
<1>3. ASSUME NEW n \in 0..N, n + 1 \in 0..N, n \in good
      PROVE  n + 1 \in good
    <2>1. ASSUME NEW T \in SUBSET S, Cardinality(T) = n + 1, NEW x \in T
          PROVE  SumTakes(w, T, x)
        <3> DEFINE c == Pick(T)
        <3>1. T # {} /\ c \in T
            BY PickTakes
        <3>2. SumFunctionOnSet(w, T) = w[c] + SumFunctionOnSet(w, T \ {c})
            BY <3>1, <1>1, SumPicks
        <3> HIDE DEF c
        <3>3. CASE x = c
            BY <3>2, <3>3 DEF SumTakes
        <3>4. CASE x # c
            <4>1. \A y \in T : T \ {y} \in SUBSET S /\ Cardinality(T \ {y}) = n
                <5>1. \A y \in T : Cardinality(T \ {y}) = Cardinality(T) - 1
                    BY <1>0, Smaller
                <5> QED
                    BY <5>1, <2>1, <1>0
            <4>2. SumTakes(w, T \ {c}, x) /\ SumTakes(w, T \ {x}, c)
                <5>1. x \in T \ {c} /\ c \in T \ {x}
                    BY <3>1, <3>4
                <5> QED
                    BY <4>1, <5>1, <3>1, <1>3
            <4>3. (T \ {c}) \ {x} = (T \ {x}) \ {c}
                OBVIOUS
            <4> DEFINE rest == SumFunctionOnSet(w, (T \ {x}) \ {c})
            <4>4. /\ SumFunctionOnSet(w, T \ {c}) = w[x] + rest
                  /\ SumFunctionOnSet(w, T \ {x}) = w[c] + rest
                BY <4>2, <4>3 DEF SumTakes
            <4>5. rest \in Int /\ w[x] \in Int /\ w[c] \in Int
                BY <1>1, <3>1 DEF Summed
            <4> HIDE DEF rest
            <4> QED
                BY <3>2, <4>4, <4>5 DEF SumTakes
        <3> QED
            BY <3>3, <3>4
    <2> QED
        BY <2>1, <1>3
<1> HIDE DEF good
<1>4. 0..N \subseteq good
    <2> HIDE DEF N
    <2> QED
        BY <1>0, <1>2, <1>3, CountingUp
<1>5. N \in good
    BY <1>4, <1>0
<1> QED
    BY <1>5 DEF good


\* A part of what can be summed can be.
LEMMA SummedPart ==
    ASSUME NEW w, NEW S, Summed(w, S), NEW T \in SUBSET S
    PROVE  Summed(w, T)
BY FS_Subset DEF Summed

\* One more adds what it weighs.
LEMMA SumAdd ==
    ASSUME NEW w, NEW S, Summed(w, S), NEW e, e \notin S, w[e] \in Int
    PROVE  Summed(w, S \cup {e}) /\ SumFunctionOnSet(w, S \cup {e}) = w[e] + SumFunctionOnSet(w, S)
<1>1. Summed(w, S \cup {e})
    BY FS_AddElement DEF Summed
<1>2. SumTakes(w, S \cup {e}, e)
    BY <1>1, SumTake
<1>3. (S \cup {e}) \ {e} = S
    OBVIOUS
<1> QED
    BY <1>1, <1>2, <1>3 DEF SumTakes

\* Two functions that agree on what is summed have the same sum.
LEMMA SumSame ==
    ASSUME NEW w, NEW v, NEW S, Summed(w, S), \A x \in S : v[x] = w[x]
    PROVE  Summed(v, S) /\ SumFunctionOnSet(v, S) = SumFunctionOnSet(w, S)
<1> DEFINE good == {T \in SUBSET S : SumFunctionOnSet(v, T) = SumFunctionOnSet(w, T)}
<1>0. Summed(v, S) /\ IsFiniteSet(S)
    BY DEF Summed
<1>1. {} \in good
    BY SumOfNone
<1>2. ASSUME NEW T \in SUBSET S, NEW x \in S, T \in good
      PROVE  T \cup {x} \in good
    <2>1. CASE x \in T
        <3>1. T \cup {x} = T
            BY <2>1
        <3> QED
            BY <3>1, <1>2
    <2>2. CASE x \notin T
        <3>1. Summed(w, T) /\ Summed(v, T) /\ w[x] \in Int /\ v[x] \in Int
            BY <1>0, SummedPart DEF Summed
        <3>2. SumFunctionOnSet(w, T \cup {x}) = w[x] + SumFunctionOnSet(w, T)
            BY <3>1, <2>2, SumAdd
        <3>3. SumFunctionOnSet(v, T \cup {x}) = v[x] + SumFunctionOnSet(v, T)
            BY <3>1, <2>2, SumAdd
        <3>4. SumFunctionOnSet(v, T) = SumFunctionOnSet(w, T) /\ v[x] = w[x]
            BY <1>2
        <3>5. SumFunctionOnSet(v, T \cup {x}) = SumFunctionOnSet(w, T \cup {x})
            BY <3>2, <3>3, <3>4
        <3> QED
            BY <3>5
    <2> QED
        BY <2>1, <2>2
<1> HIDE DEF good
<1>3. S \in good
    BY <1>0, <1>1, <1>2, SetInduction
<1> QED
    BY <1>0, <1>3 DEF good

\* A property of a partial sum that holds of none and is kept by one more.
LEMMA SumNat ==
    ASSUME NEW w, NEW S, IsFiniteSet(S), \A x \in S : w[x] \in Nat
    PROVE  Summed(w, S) /\ SumFunctionOnSet(w, S) \in Nat
<1> DEFINE good == {T \in SUBSET S : SumFunctionOnSet(w, T) \in Nat}
<1>0. Summed(w, S)
    BY DEF Summed
<1>1. {} \in good
    BY SumOfNone
<1>2. ASSUME NEW T \in SUBSET S, NEW x \in S, T \in good
      PROVE  T \cup {x} \in good
    <2>1. CASE x \in T
        <3>1. T \cup {x} = T
            BY <2>1
        <3> QED
            BY <3>1, <1>2
    <2>2. CASE x \notin T
        <3>1. Summed(w, T) /\ w[x] \in Nat
            BY <1>0, SummedPart
        <3>2. SumFunctionOnSet(w, T \cup {x}) = w[x] + SumFunctionOnSet(w, T)
            BY <3>1, <2>2, SumAdd
        <3> QED
            BY <3>1, <3>2, <1>2
    <2> QED
        BY <2>1, <2>2
<1> HIDE DEF good
<1>3. S \in good
    BY <1>1, <1>2, SetInduction
<1> QED
    BY <1>0, <1>3 DEF good

\* Sums of disjoint sets add up.
LEMMA SumUnion ==
    ASSUME NEW w, NEW S, NEW R, Summed(w, S), Summed(w, R), S \cap R = {}
    PROVE  /\ Summed(w, S \cup R)
           /\ SumFunctionOnSet(w, S \cup R) = SumFunctionOnSet(w, S) + SumFunctionOnSet(w, R)
<1> DEFINE good == {T \in SUBSET R : SumFunctionOnSet(w, S \cup T) = SumFunctionOnSet(w, S) + SumFunctionOnSet(w, T)}
<1>0. Summed(w, S \cup R)
    BY FS_Union DEF Summed
<1>1. {} \in good
    <2>1. S \cup {} = S /\ SumFunctionOnSet(w, {}) = 0 /\ SumFunctionOnSet(w, S) \in Int
        BY SumOfNone, SumIsInt
    <2>2. SumFunctionOnSet(w, S \cup {}) = SumFunctionOnSet(w, S) + SumFunctionOnSet(w, {})
        BY <2>1
    <2> QED
        BY <2>2
<1>2. ASSUME NEW T \in SUBSET R, NEW x \in R, T \in good
      PROVE  T \cup {x} \in good
    <2>1. CASE x \in T
        <3>1. T \cup {x} = T
            BY <2>1
        <3> QED
            BY <3>1, <1>2
    <2>2. CASE x \notin T
        <3>0. S \cup T \in SUBSET (S \cup R) /\ T \in SUBSET R
            OBVIOUS
        <3>1. Summed(w, T) /\ Summed(w, S \cup T) /\ w[x] \in Int
            BY <1>0, <3>0, SummedPart DEF Summed
        <3>2. SumFunctionOnSet(w, T \cup {x}) = w[x] + SumFunctionOnSet(w, T)
            BY <3>1, <2>2, SumAdd
        <3>3. x \notin S \cup T
            BY <2>2
        <3>4. SumFunctionOnSet(w, (S \cup T) \cup {x}) = w[x] + SumFunctionOnSet(w, S \cup T)
            BY <3>1, <3>3, SumAdd
        <3>5. SumFunctionOnSet(w, S \cup T) = SumFunctionOnSet(w, S) + SumFunctionOnSet(w, T)
            BY <1>2
        <3>6. /\ SumFunctionOnSet(w, T) \in Int /\ SumFunctionOnSet(w, S) \in Int
            BY <3>1, SumIsInt
        <3>7. (S \cup T) \cup {x} = S \cup (T \cup {x})
            OBVIOUS
        <3>8. \A a, b, c \in Int : a + (b + c) = b + (a + c)
            OBVIOUS
        <3>9. SumFunctionOnSet(w, S \cup (T \cup {x})) = SumFunctionOnSet(w, S) + SumFunctionOnSet(w, T \cup {x})
            <4>1. SumFunctionOnSet(w, S \cup (T \cup {x})) =
                  w[x] + (SumFunctionOnSet(w, S) + SumFunctionOnSet(w, T))
                BY <3>4, <3>5, <3>7
            <4>2. SumFunctionOnSet(w, S) + (w[x] + SumFunctionOnSet(w, T)) =
                  w[x] + (SumFunctionOnSet(w, S) + SumFunctionOnSet(w, T))
                BY <3>1, <3>6, <3>8, Zenon
            <4> QED
                BY <4>1, <4>2, <3>2
        <3> QED
            BY <3>9
    <2> QED
        BY <2>1, <2>2
<1> HIDE DEF good
<1>3. R \in good
    <2>1. IsFiniteSet(R)
        BY DEF Summed
    <2> QED
        BY <1>1, <1>2, <2>1, SetInduction
<1> QED
    BY <1>0, <1>3 DEF good

\* What adds nothing may be left out, and ones count.
LEMMA SumOfZeros ==
    ASSUME NEW w, NEW S, IsFiniteSet(S), \A x \in S : w[x] = 0
    PROVE  Summed(w, S) /\ SumFunctionOnSet(w, S) = 0
<1> DEFINE good == {T \in SUBSET S : SumFunctionOnSet(w, T) = 0}
<1>0. Summed(w, S)
    BY DEF Summed
<1>1. {} \in good
    BY SumOfNone
<1>2. ASSUME NEW T \in SUBSET S, NEW x \in S, T \in good
      PROVE  T \cup {x} \in good
    <2>1. CASE x \in T
        <3>1. T \cup {x} = T
            BY <2>1
        <3> QED
            BY <3>1, <1>2
    <2>2. CASE x \notin T
        <3>1. Summed(w, T) /\ w[x] = 0 /\ w[x] \in Int
            BY <1>0, SummedPart
        <3>2. SumFunctionOnSet(w, T \cup {x}) = w[x] + SumFunctionOnSet(w, T)
            BY <3>1, <2>2, SumAdd
        <3> QED
            BY <3>1, <3>2, <1>2
    <2> QED
        BY <2>1, <2>2
<1> HIDE DEF good
<1>3. S \in good
    BY <1>1, <1>2, SetInduction
<1> QED
    BY <1>0, <1>3 DEF good

\* What weighs nothing may be left out.
LEMMA SumWhere ==
    ASSUME NEW w, NEW S, Summed(w, S), NEW T \in SUBSET S, \A x \in S \ T : w[x] = 0
    PROVE  Summed(w, T) /\ SumFunctionOnSet(w, S) = SumFunctionOnSet(w, T)
<1>1. Summed(w, T) /\ Summed(w, S \ T) /\ IsFiniteSet(S \ T)
    <2>1. S \ T \in SUBSET S
        OBVIOUS
    <2>2. Summed(w, S \ T)
        BY <2>1, SummedPart
    <2> QED
        BY <2>2, SummedPart DEF Summed
<1>2. SumFunctionOnSet(w, S \ T) = 0
    BY <1>1, SumOfZeros
<1>3. T \cap (S \ T) = {} /\ T \cup (S \ T) = S
    OBVIOUS
<1>4. SumFunctionOnSet(w, T \cup (S \ T)) = SumFunctionOnSet(w, T) + SumFunctionOnSet(w, S \ T)
    BY <1>1, <1>3, SumUnion
<1>5. SumFunctionOnSet(w, T) \in Int
    BY <1>1, SumIsInt
<1>6. SumFunctionOnSet(w, S) = SumFunctionOnSet(w, T) + 0
    BY <1>2, <1>3, <1>4
<1> QED
    BY <1>1, <1>5, <1>6

\* Summing ones counts.
LEMMA SumOfOnes ==
    ASSUME NEW w, NEW S, IsFiniteSet(S), \A x \in S : w[x] = 1
    PROVE  Summed(w, S) /\ SumFunctionOnSet(w, S) = Cardinality(S)
<1> DEFINE good == {T \in SUBSET S : SumFunctionOnSet(w, T) = Cardinality(T)}
<1>0. Summed(w, S)
    BY DEF Summed
<1>1. {} \in good
    BY SumOfNone, FS_EmptySet
<1>2. ASSUME NEW T \in SUBSET S, NEW x \in S, T \in good
      PROVE  T \cup {x} \in good
    <2>1. CASE x \in T
        <3>1. T \cup {x} = T
            BY <2>1
        <3> QED
            BY <3>1, <1>2
    <2>2. CASE x \notin T
        <3>1. Summed(w, T) /\ w[x] = 1 /\ w[x] \in Int
            BY <1>0, SummedPart
        <3>2. SumFunctionOnSet(w, T \cup {x}) = w[x] + SumFunctionOnSet(w, T)
            BY <3>1, <2>2, SumAdd
        <3>3. IsFiniteSet(T) /\ Cardinality(T) \in Nat
            BY FS_Subset, FS_CardinalityType
        <3>4. Cardinality(T \cup {x}) = Cardinality(T) + 1
            BY <3>3, <2>2, FS_AddElement
        <3>5. SumFunctionOnSet(w, T) = Cardinality(T)
            BY <1>2
        <3>6. SumFunctionOnSet(w, T \cup {x}) = Cardinality(T \cup {x})
            BY <3>1, <3>2, <3>3, <3>4, <3>5
        <3> QED
            BY <3>6
    <2> QED
        BY <2>1, <2>2
<1> HIDE DEF good
<1>3. S \in good
    BY <1>1, <1>2, SetInduction
<1> QED
    BY <1>0, <1>3 DEF good

\* A sum by groups is the sum.
Where(S, h, g) == {x \in S : h[x] = g}
WhereIn(S, h, G) == {x \in S : h[x] \in G}

\* The sums of the groups add up to the sum of all that is in one.
LEMMA SumGroups ==
    ASSUME NEW w, NEW S, Summed(w, S), NEW h, NEW v, NEW G, IsFiniteSet(G),
           \A g \in G : v[g] = SumFunctionOnSet(w, Where(S, h, g))
    PROVE  Summed(v, G) /\ SumFunctionOnSet(v, G) = SumFunctionOnSet(w, WhereIn(S, h, G))
<1> DEFINE Group(H) == WhereIn(S, h, H)
           good == {H \in SUBSET G : SumFunctionOnSet(v, H) = SumFunctionOnSet(w, Group(H))}
<1>0. \A T \in SUBSET S : Summed(w, T) /\ SumFunctionOnSet(w, T) \in Int
    <2>1. \A T \in SUBSET S : Summed(w, T)
        BY SummedPart
    <2> QED
        BY <2>1, SumIsInt
<1>1. Summed(v, G)
    <2>1. \A g \in G : Where(S, h, g) \in SUBSET S
        BY DEF Where
    <2> QED
        BY <1>0, <2>1 DEF Summed
<1>2. {} \in good
    <2>1. Group({}) = {}
        BY DEF WhereIn
    <2> QED
        BY <2>1, SumOfNone
<1>3. ASSUME NEW T \in SUBSET G, NEW g \in G, T \in good
      PROVE  T \cup {g} \in good
    <2>1. CASE g \in T
        <3>1. T \cup {g} = T
            BY <2>1
        <3> QED
            BY <3>1, <1>3
    <2>2. CASE g \notin T
        <3> DEFINE mine == Where(S, h, g)
        <3>1. Summed(v, T) /\ v[g] \in Int
            BY <1>1, SummedPart DEF Summed
        <3>2. SumFunctionOnSet(v, T \cup {g}) = v[g] + SumFunctionOnSet(v, T)
            BY <3>1, <2>2, SumAdd
        <3>3. mine \cap Group(T) = {} /\ mine \cup Group(T) = Group(T \cup {g})
            BY <2>2 DEF Where, WhereIn
        <3>4. mine \in SUBSET S /\ Group(T) \in SUBSET S
            BY DEF Where, WhereIn
        <3>5. v[g] = SumFunctionOnSet(w, mine)
            OBVIOUS
        <3>6. SumFunctionOnSet(v, T) = SumFunctionOnSet(w, Group(T))
            BY <1>3
        <3> HIDE DEF mine, Group
        <3>7. SumFunctionOnSet(w, mine \cup Group(T)) = SumFunctionOnSet(w, mine) + SumFunctionOnSet(w, Group(T))
            BY <1>0, <3>3, <3>4, SumUnion
        <3>8. SumFunctionOnSet(v, T \cup {g}) = SumFunctionOnSet(w, Group(T \cup {g}))
            BY <3>2, <3>3, <3>5, <3>6, <3>7
        <3> QED
            BY <3>8
    <2> QED
        BY <2>1, <2>2
<1> HIDE DEF good
<1>4. G \in good
    BY <1>2, <1>3, SetInduction
<1> QED
    BY <1>1, <1>4 DEF good

-----------------------------------------------------------------------------
(* what a row is to a report *)

\* An instant is in its hour.
LEMMA HourBounds ==
    ASSUME NEW t \in Int
    PROVE  /\ HourFloor(t) \in Int /\ t \div Hour \in Int
           /\ HourFloor(t) <= t /\ t < HourFloor(t) + Hour
BY HourPositive DEF HourFloor

\* A bound that is an hour's beginning includes whole hours.
LEMMA WholeHours ==
    ASSUME NEW s \in Int, NEW t \in Int
    PROVE  HourFloor(s) <= t <=> HourFloor(s) <= HourFloor(t)
<1> DEFINE p == s \div Hour
           q == t \div Hour
<1>1. p \in Int /\ q \in Int /\ p * Hour = HourFloor(s) /\ q * Hour = HourFloor(t)
    BY HourBounds DEF HourFloor
<1>2. HourFloor(t) <= t /\ t < HourFloor(t) + Hour /\ Hour \in Nat \ {0} /\ HourFloor(s) \in Int /\ HourFloor(t) \in Int
    BY HourBounds, HourPositive
<1>3. ASSUME HourFloor(s) <= t, HourFloor(t) < HourFloor(s)
      PROVE  FALSE
    <2> HIDE DEF p, q
    <2>1. p < q + 1
        <3>1. p * Hour < (q + 1) * Hour
            BY <1>1, <1>2, <1>3
        <3> QED
            BY <3>1, <1>1, <1>2
    <2>2. q < p
        <3>1. q * Hour < p * Hour
            BY <1>1, <1>3
        <3> QED
            BY <3>1, <1>1, <1>2
    <2> QED
        BY <2>1, <2>2, <1>1
<1> QED
    BY <1>2, <1>3

-----------------------------------------------------------------------------
(* rows *)

\* What the metering writer stores of a request.
RowOK(r) ==
    /\ r.user # All /\ r.tag # All /\ r.origin # NULL
    /\ r.at \in Int /\ r.seq \in Nat
    /\ r.tokens \in Nat /\ r.duration \in Nat /\ r.failed \in BOOLEAN
    /\ r.cost \in Nat \cup {NULL} /\ r.notional \in Nat \cup {NULL}
    /\ r.basis = "subscription" => r.cost = NULL

RowsOK(H) == IsFiniteSet(H) /\ \A r \in H : RowOK(r)

Shares(H, f) == [r \in H |-> Booked(r)[f]]
Total(H, f, S) == SumFunctionOnSet(Shares(H, f), S)

\* A row says the same to the query of rows and to the cube, since what a
\* subscription absorbs has no price.
LEMMA BothBooks ==
    ASSUME NEW r, RowOK(r), NULL \notin Nat
    PROVE  /\ RawShare(r) = Booked(r)
           /\ \A f \in Fields : Booked(r)[f] \in Nat
<1>1. /\ Known(r.cost) \in Nat /\ Known(r.notional) \in Nat
      /\ r.basis = "subscription" => Known(r.cost) = 0
    BY DEF RowOK, Known
<1>2. (IF r.basis = "subscription" THEN 0 ELSE Known(r.cost)) = Known(r.cost)
    BY <1>1
<1>3. RawShare(r) = Booked(r)
    BY <1>2 DEF RawShare, Booked
<1>4. \A b : Bit(b) \in Nat
    BY DEF Bit
<1>5. r.tokens \in Nat
    BY DEF RowOK
<1>6. \A f \in Fields : Booked(r)[f] \in Nat
    BY <1>1, <1>4, <1>5 DEF Booked, Fields
<1> QED
    BY <1>3, <1>6

\* The figures of rows can be summed.
LEMMA SharesSummed ==
    ASSUME NEW H, RowsOK(H), NEW f \in Fields, NEW S \in SUBSET H, NULL \notin Nat
    PROVE  /\ Summed(Shares(H, f), S) /\ IsFiniteSet(S)
           /\ \A r \in S : Shares(H, f)[r] = Booked(r)[f] /\ Booked(r)[f] \in Nat
           /\ Total(H, f, S) \in Nat
<1>1. IsFiniteSet(S)
    BY FS_Subset DEF RowsOK
<1>2. \A r \in S : Shares(H, f)[r] = Booked(r)[f] /\ Booked(r)[f] \in Nat
    BY BothBooks DEF RowsOK, Shares
<1>3. Summed(Shares(H, f), S) /\ Total(H, f, S) \in Nat
    BY <1>1, <1>2, SumNat DEF Total
<1> QED
    BY <1>1, <1>2, <1>3

\* A report over rows is their sums.
LEMMA OfRowsIsTotal ==
    ASSUME NEW H, RowsOK(H), NEW S \in SUBSET H, NULL \notin Nat
    PROVE  OfRows(S) = [f \in Fields |-> Total(H, f, S)]
<1>1. ASSUME NEW f \in Fields
      PROVE  OfRows(S)[f] = Total(H, f, S)
    <2> DEFINE share == [r \in S |-> RawShare(r)]
               v == [x \in DOMAIN share |-> share[x][f]]
    <2>1. OfRows(S)[f] = SumFunctionOnSet(v, S)
        BY DEF OfRows, Figures, SumFunction
    <2>2. \A r \in S : v[r] = Shares(H, f)[r]
        <3>1. \A r \in S : RawShare(r) = Booked(r)
            BY BothBooks DEF RowsOK
        <3> QED
            BY <3>1, SharesSummed
    <2>3. Summed(Shares(H, f), S)
        BY SharesSummed
    <2> HIDE DEF v
    <2> QED
        BY <2>1, <2>2, <2>3, SumSame DEF Total
<1>2. OfRows(S) = [f \in Fields |-> OfRows(S)[f]]
    BY DEF OfRows, Figures
<1> QED
    BY <1>1, <1>2

-----------------------------------------------------------------------------
(* the ledger *)

\* Summing bits counts where they are set.
LEMMA SumOfBits ==
    ASSUME NEW w, NEW S, IsFiniteSet(S), NEW T \in SUBSET S, \A x \in S : w[x] = Bit(x \in T)
    PROVE  SumFunctionOnSet(w, S) = Cardinality(T)
<1>1. Summed(w, S) /\ (\A x \in S \ T : w[x] = 0) /\ \A x \in T : w[x] = 1
    BY DEF Summed, Bit
<1>2. IsFiniteSet(T)
    BY FS_Subset
<1>3. SumFunctionOnSet(w, S) = SumFunctionOnSet(w, T)
    BY <1>1, SumWhere
<1>4. SumFunctionOnSet(w, T) = Cardinality(T)
    BY <1>1, <1>2, SumOfOnes
<1> QED
    BY <1>3, <1>4

\* The rows without a figure are those that add nothing to it.
LEMMA SumOfSome ==
    ASSUME NEW w, NEW S, IsFiniteSet(S), NEW T \in SUBSET S, NEW v,
           \A x \in T : w[x] = v[x], \A x \in S \ T : w[x] = 0, \A x \in S : w[x] \in Int
    PROVE  SumFunctionOnSet(w, S) = SumFunctionOnSet(v, T)
<1>1. Summed(w, S)
    BY DEF Summed
<1>2. Summed(w, T) /\ SumFunctionOnSet(w, S) = SumFunctionOnSet(w, T)
    BY <1>1, SumWhere
<1>3. SumFunctionOnSet(v, T) = SumFunctionOnSet(w, T)
    BY <1>2, SumSame
<1> QED
    BY <1>2, <1>3

\* The ledger is the totals of the rows' shares.
LEMMA LedgerIsTotal ==
    ASSUME NEW H, RowsOK(H), NEW S \in SUBSET H, NULL \notin Nat
    PROVE  Ledger(S) = [f \in Fields |-> Total(H, f, S)]
<1> DEFINE Spent == {r \in S : r.basis # "subscription" /\ r.cost # NULL}
           Paid == {r \in S : r.basis # "subscription"}
           Noted == {r \in S : r.notional # NULL}
           W(f) == Shares(H, f)
<1>0. IsFiniteSet(S) /\ Spent \in SUBSET S /\ Paid \in SUBSET S /\ Noted \in SUBSET S
    <2>1. IsFiniteSet(S)
        BY FS_Subset DEF RowsOK
    <2> QED
        BY <2>1
<1>1. \A r \in S : RowOK(r)
    BY DEF RowsOK
<1>2. \A f \in Fields : \A r \in S : W(f)[r] = Booked(r)[f] /\ W(f)[r] \in Int
    BY SharesSummed
<1>3. Total(H, "requests", S) = Cardinality(S)
    <2>1. \A r \in S : W("requests")[r] = 1
        BY DEF Shares, Booked
    <2> QED
        BY <1>0, <2>1, SumOfOnes DEF Total
<1>4. Total(H, "errors", S) = Cardinality({r \in S : r.failed})
    <2> DEFINE T == {r \in S : r.failed}
    <2>1. \A r \in S : W("errors")[r] = Bit(r \in T)
        BY DEF Shares, Booked, Bit
    <2>2. T \in SUBSET S
        OBVIOUS
    <2> HIDE DEF T
    <2>3. SumFunctionOnSet(W("errors"), S) = Cardinality(T)
        BY <1>0, <2>1, <2>2, SumOfBits
    <2> QED
        BY <2>3 DEF Total, T
<1>5. Total(H, "tokens", S) = SumFunction([r \in S |-> r.tokens])
    <2> DEFINE v == [r \in S |-> r.tokens]
    <2>1. \A r \in S : W("tokens")[r] = v[r]
        BY DEF Shares, Booked
    <2>2. DOMAIN v = S
        OBVIOUS
    <2> HIDE DEF v
    <2>3. Summed(W("tokens"), S)
        BY <1>0, <1>2 DEF Summed, Fields
    <2>4. SumFunctionOnSet(v, S) = SumFunctionOnSet(W("tokens"), S)
        BY <2>1, <2>3, SumSame
    <2> QED
        BY <2>2, <2>4 DEF Total, SumFunction, v
<1>6. Total(H, "priced", S) = SumFunction([r \in Spent |-> r.cost])
    <2> DEFINE v == [r \in Spent |-> r.cost]
    <2>1. (\A r \in Spent : W("priced")[r] = v[r]) /\ \A r \in S \ Spent : W("priced")[r] = 0
        <3>1. \A r \in S : W("priced")[r] = Known(r.cost) /\ (r.basis = "subscription" => r.cost = NULL)
            BY <1>1 DEF Shares, Booked, RowOK
        <3> QED
            BY <3>1 DEF Known
    <2>2. DOMAIN v = Spent
        OBVIOUS
    <2>3. \A r \in S : W("priced")[r] \in Int
        BY <1>2 DEF Fields
    <2> HIDE DEF v, Spent
    <2>4. SumFunctionOnSet(W("priced"), S) = SumFunctionOnSet(v, Spent)
        BY <1>0, <2>1, <2>3, SumOfSome
    <2> QED
        BY <2>2, <2>4 DEF Total, SumFunction, v
<1>7. Total(H, "unpriced", S) = Cardinality(Paid \ Spent)
    <2>1. \A r \in S : W("unpriced")[r] = Bit(r \in Paid \ Spent)
        <3>1. \A r \in S : W("unpriced")[r] = Bit(r.cost = NULL /\ r.basis # "subscription")
            BY DEF Shares, Booked
        <3> QED
            BY <3>1 DEF Bit
    <2>2. Paid \ Spent \in SUBSET S
        BY <1>0
    <2> HIDE DEF Paid, Spent
    <2>3. SumFunctionOnSet(W("unpriced"), S) = Cardinality(Paid \ Spent)
        BY <1>0, <2>1, <2>2, SumOfBits
    <2> QED
        BY <2>3 DEF Total
<1>8. Total(H, "subscription", S) = Cardinality({r \in S : r.basis = "subscription"})
    <2> DEFINE T == {r \in S : r.basis = "subscription"}
    <2>1. \A r \in S : W("subscription")[r] = Bit(r \in T)
        BY DEF Shares, Booked, Bit
    <2>2. T \in SUBSET S
        OBVIOUS
    <2> HIDE DEF T
    <2>3. SumFunctionOnSet(W("subscription"), S) = Cardinality(T)
        BY <1>0, <2>1, <2>2, SumOfBits
    <2> QED
        BY <2>3 DEF Total, T
<1>9. Total(H, "notional", S) = SumFunction([r \in Noted |-> r.notional])
    <2> DEFINE v == [r \in Noted |-> r.notional]
    <2>1. (\A r \in Noted : W("notional")[r] = v[r]) /\ \A r \in S \ Noted : W("notional")[r] = 0
        <3>1. \A r \in S : W("notional")[r] = Known(r.notional)
            BY DEF Shares, Booked
        <3> QED
            BY <3>1 DEF Known
    <2>2. DOMAIN v = Noted
        OBVIOUS
    <2>3. \A r \in S : W("notional")[r] \in Int
        BY <1>2 DEF Fields
    <2> HIDE DEF v, Noted
    <2>4. SumFunctionOnSet(W("notional"), S) = SumFunctionOnSet(v, Noted)
        BY <1>0, <2>1, <2>3, SumOfSome
    <2> QED
        BY <2>2, <2>4 DEF Total, SumFunction, v
<1>10. Total(H, "notionalUnpriced", S) = Cardinality({r \in S : r.notional = NULL})
    <2> DEFINE T == {r \in S : r.notional = NULL}
    <2>1. \A r \in S : W("notionalUnpriced")[r] = Bit(r \in T)
        BY DEF Shares, Booked, Bit
    <2>2. T \in SUBSET S
        OBVIOUS
    <2> HIDE DEF T
    <2>3. SumFunctionOnSet(W("notionalUnpriced"), S) = Cardinality(T)
        BY <1>0, <2>1, <2>2, SumOfBits
    <2> QED
        BY <2>3 DEF Total, T
<1>11. Ledger(S) = [requests |-> Cardinality(S),
         errors |-> Cardinality({r \in S : r.failed}),
         tokens |-> SumFunction([r \in S |-> r.tokens]),
         priced |-> SumFunction([r \in Spent |-> r.cost]),
         unpriced |-> Cardinality(Paid \ Spent),
         subscription |-> Cardinality({r \in S : r.basis = "subscription"}),
         notional |-> SumFunction([r \in Noted |-> r.notional]),
         notionalUnpriced |-> Cardinality({r \in S : r.notional = NULL})]
    BY DEF Ledger
<1> HIDE DEF Spent, Paid, Noted
<1>12. Ledger(S) = [requests |-> Total(H, "requests", S), errors |-> Total(H, "errors", S),
         tokens |-> Total(H, "tokens", S), priced |-> Total(H, "priced", S),
         unpriced |-> Total(H, "unpriced", S), subscription |-> Total(H, "subscription", S),
         notional |-> Total(H, "notional", S), notionalUnpriced |-> Total(H, "notionalUnpriced", S)]
    BY <1>3, <1>4, <1>5, <1>6, <1>7, <1>8, <1>9, <1>10, <1>11
<1> QED
    BY <1>12 DEF Fields


-----------------------------------------------------------------------------
(* the cube *)

Lats(H, b) == [r \in H |-> LatOf(r)[b]]
Counts(H, b, S) == SumFunctionOnSet(Lats(H, b), S)

\* The rows booked in a cell.
RowsOf(H, c) == {r \in H : c \in CellsOf(r)}

CellTells(figures, H, c) ==
    /\ \A f \in Fields : figures.share[f] = Total(H, f, RowsOf(H, c))
    /\ \A b \in Buckets : figures.lat[b] = Counts(H, b, RowsOf(H, c))

\* From the hour `low` on the cube is that of all the rows ever stored.
CubeTells(books, H, low) ==
    /\ low \in Int
    /\ \A c \in DOMAIN books : \E r \in H : c \in CellsOf(r)
    /\ \A r \in H : HourFloor(r.at) >= low => CellsOf(r) \subseteq DOMAIN books
    /\ \A c \in DOMAIN books : c.hour >= low => CellTells(books[c], H, c)

\* What a cell of a row's says of it.
LEMMA CellFields ==
    ASSUME NEW r, NEW c \in CellsOf(r)
    PROVE  /\ c.hour = HourFloor(r.at) /\ c.origin = r.origin /\ c.basis = r.basis /\ c.tag = OrAll(r.tag)
           /\ c.user \in {OrAll(r.user), All} /\ c.model \in {OrAll(r.model), All}
           /\ c = Cell(r, c.user, c.model)
BY DEF CellsOf, Cell

\* The buckets of rows can be summed.
LEMMA LatsSummed ==
    ASSUME NEW H, IsFiniteSet(H), NEW b \in Buckets, NEW S \in SUBSET H
    PROVE  /\ Summed(Lats(H, b), S) /\ IsFiniteSet(S)
           /\ \A r \in S : Lats(H, b)[r] = LatOf(r)[b] /\ LatOf(r)[b] = Bit(b = BucketOf(r.duration))
           /\ Counts(H, b, S) \in Nat
<1>1. IsFiniteSet(S)
    BY FS_Subset
<1>2. \A r \in S : Lats(H, b)[r] = LatOf(r)[b] /\ LatOf(r)[b] = Bit(b = BucketOf(r.duration))
    BY DEF Lats, LatOf
<1>3. \A r \in S : Lats(H, b)[r] \in Nat
    BY <1>2 DEF Bit
<1>4. Summed(Lats(H, b), S) /\ Counts(H, b, S) \in Nat
    BY <1>1, <1>3, SumNat DEF Counts
<1> QED
    BY <1>1, <1>2, <1>4

Grown(H, r, G) == r \notin H /\ G = H \cup {r}
TotalGrown(H, r, G, f, S) ==
    /\ Total(G, f, S) = Total(H, f, S)
    /\ Total(G, f, S \cup {r}) = Total(H, f, S) + Booked(r)[f]
CountGrown(H, r, G, b, S) ==
    /\ Counts(G, b, S) = Counts(H, b, S)
    /\ Counts(G, b, S \cup {r}) = Counts(H, b, S) + LatOf(r)[b]

\* A new row adds its share to what it is counted in, and changes no other
\* total.
LEMMA TotalGrows ==
    ASSUME NEW H, NEW r, NEW G, Grown(H, r, G), RowsOK(G),
           NEW f \in Fields, NEW S \in SUBSET H, NULL \notin Nat
    PROVE  TotalGrown(H, r, G, f, S)
<1>1. RowsOK(H) /\ S \in SUBSET G /\ S \cup {r} \in SUBSET G /\ r \notin S
    <2>1. IsFiniteSet(H)
        BY FS_Subset DEF RowsOK, Grown
    <2> QED
        BY <2>1 DEF RowsOK, Grown
<1>2. /\ Summed(Shares(H, f), S) /\ Total(H, f, S) \in Nat
      /\ \A x \in S : Shares(H, f)[x] = Booked(x)[f]
    BY <1>1, SharesSummed
<1>4. /\ Summed(Shares(G, f), S \cup {r}) /\ Summed(Shares(G, f), S)
      /\ \A x \in S \cup {r} : Shares(G, f)[x] = Booked(x)[f] /\ Booked(x)[f] \in Nat
    BY <1>1, SharesSummed
<1>5. SumFunctionOnSet(Shares(G, f), S) = SumFunctionOnSet(Shares(H, f), S)
    BY <1>2, <1>4, SumSame
<1>6. SumFunctionOnSet(Shares(G, f), S \cup {r}) = Shares(G, f)[r] + SumFunctionOnSet(Shares(G, f), S)
    <2>1. Shares(G, f)[r] \in Int
        BY <1>4
    <2> QED
        BY <2>1, <1>1, <1>4, SumAdd
<1>7. Shares(G, f)[r] = Booked(r)[f] /\ Booked(r)[f] \in Nat
    BY <1>4
<1>8. Total(H, f, S) + Booked(r)[f] = Booked(r)[f] + Total(H, f, S)
    BY <1>2, <1>7
<1> QED
    BY <1>5, <1>6, <1>7, <1>8 DEF Total, TotalGrown

\* A new row adds one to its bucket of what it is counted in.
LEMMA CountsGrow ==
    ASSUME NEW H, NEW r, IsFiniteSet(H), NEW G, Grown(H, r, G),
           NEW b \in Buckets, NEW S \in SUBSET H
    PROVE  CountGrown(H, r, G, b, S)
<1>1. IsFiniteSet(G) /\ S \in SUBSET G /\ S \cup {r} \in SUBSET G /\ r \notin S
    BY FS_AddElement DEF Grown
<1>2. /\ Summed(Lats(H, b), S) /\ Counts(H, b, S) \in Nat
      /\ \A x \in S : Lats(H, b)[x] = LatOf(x)[b]
    BY LatsSummed
<1>4. /\ Summed(Lats(G, b), S \cup {r}) /\ Summed(Lats(G, b), S)
      /\ \A x \in S \cup {r} : Lats(G, b)[x] = LatOf(x)[b] /\ Lats(G, b)[x] \in Int
    <2>1. /\ Summed(Lats(G, b), S \cup {r}) /\ Summed(Lats(G, b), S)
          /\ \A x \in S \cup {r} : Lats(G, b)[x] = LatOf(x)[b]
        BY <1>1, LatsSummed
    <2> QED
        BY <2>1 DEF Summed
<1>5. SumFunctionOnSet(Lats(G, b), S) = SumFunctionOnSet(Lats(H, b), S)
    <2>1. \A x \in S : Lats(G, b)[x] = Lats(H, b)[x]
        BY <1>2, <1>4
    <2> QED
        BY <2>1, <1>2, SumSame
<1>6. SumFunctionOnSet(Lats(G, b), S \cup {r}) = Lats(G, b)[r] + SumFunctionOnSet(Lats(G, b), S)
    BY <1>1, <1>4, SumAdd
<1>7. Lats(G, b)[r] = LatOf(r)[b] /\ LatOf(r)[b] \in Int
    BY <1>4
<1>8. Counts(H, b, S) + LatOf(r)[b] = LatOf(r)[b] + Counts(H, b, S)
    BY <1>2, <1>7
<1> QED
    BY <1>5, <1>6, <1>7, <1>8 DEF Counts, CountGrown

\* Booking a row keeps the cube that of the rows (write.ts, UPSERT_ROLLUP).
LEMMA BookTells ==
    ASSUME NEW H, NEW r, NEW G, Grown(H, r, G), RowsOK(G),
           NEW books, NEW low, CubeTells(books, H, low), NULL \notin Nat
    PROVE  CubeTells(Book(books, r), G, low)
<1> DEFINE B == Book(books, r)
           old(c) == IF c \in DOMAIN books THEN books[c] ELSE EmptyCell
<1>0. RowsOK(H) /\ IsFiniteSet(H)
    <2>1. IsFiniteSet(H)
        BY FS_Subset DEF RowsOK, Grown
    <2> QED
        BY <2>1 DEF RowsOK, Grown
<1>1. DOMAIN B = DOMAIN books \cup CellsOf(r)
    BY DEF Book
<1>2. \A c \in DOMAIN B : c \notin CellsOf(r) => c \in DOMAIN books /\ B[c] = books[c]
    BY DEF Book
<1>3. \A c \in CellsOf(r) :
         /\ \A f \in Fields : B[c].share[f] = old(c).share[f] + Booked(r)[f]
         /\ \A b \in Buckets : B[c].lat[b] = old(c).lat[b] + LatOf(r)[b]
    BY DEF Book
<1> HIDE DEF B
<1>4. /\ low \in Int
      /\ \A c \in DOMAIN books : \E x \in H : c \in CellsOf(x)
      /\ \A x \in H : HourFloor(x.at) >= low => CellsOf(x) \subseteq DOMAIN books
      /\ \A c \in DOMAIN books : c.hour >= low => CellTells(books[c], H, c)
    BY DEF CubeTells
<1>8. \A f \in Fields, S \in SUBSET H :
         /\ Total(G, f, S) = Total(H, f, S)
         /\ Total(G, f, S \cup {r}) = Total(H, f, S) + Booked(r)[f]
    <2>1. ASSUME NEW f \in Fields, NEW S \in SUBSET H
          PROVE  TotalGrown(H, r, G, f, S)
        BY TotalGrows, Zenon
    <2> QED
        BY <2>1 DEF TotalGrown
<1>9. \A b \in Buckets, S \in SUBSET H :
         /\ Counts(G, b, S) = Counts(H, b, S)
         /\ Counts(G, b, S \cup {r}) = Counts(H, b, S) + LatOf(r)[b]
    <2>1. ASSUME NEW b \in Buckets, NEW S \in SUBSET H
          PROVE  CountGrown(H, r, G, b, S)
        BY <1>0, CountsGrow, Zenon
    <2> QED
        BY <2>1 DEF CountGrown
<1>5. \A c \in DOMAIN B : \E x \in G : c \in CellsOf(x)
    BY <1>1, <1>4 DEF Grown
<1>6. \A x \in G : HourFloor(x.at) >= low => CellsOf(x) \subseteq DOMAIN B
    BY <1>1, <1>4 DEF Grown
<1>7. ASSUME NEW c \in DOMAIN B, c.hour >= low
      PROVE  CellTells(B[c], G, c)
    <2>1. RowsOf(H, c) \in SUBSET H
        BY DEF RowsOf
    <2>2. CASE c \notin CellsOf(r)
        <3>1. RowsOf(G, c) = RowsOf(H, c)
            BY <2>2 DEF RowsOf, Grown
        <3>2. CellTells(books[c], H, c) /\ B[c] = books[c]
            BY <1>2, <1>4, <1>7, <2>2
        <3>3. \A f \in Fields : Total(G, f, RowsOf(G, c)) = Total(H, f, RowsOf(H, c))
            BY <2>1, <3>1, <1>8
        <3>4. \A b \in Buckets : Counts(G, b, RowsOf(G, c)) = Counts(H, b, RowsOf(H, c))
            BY <2>1, <3>1, <1>9
        <3> QED
            BY <3>2, <3>3, <3>4 DEF CellTells
    <2>3. CASE c \in CellsOf(r)
        <3>1. RowsOf(G, c) = RowsOf(H, c) \cup {r}
            BY <2>3 DEF RowsOf, Grown
        <3>2. CellTells(old(c), H, c)
            <4>1. CASE c \in DOMAIN books
                BY <4>1, <1>4, <1>7
            <4>2. CASE c \notin DOMAIN books
                <5>1. RowsOf(H, c) = {}
                    <6>1. ASSUME NEW x \in H, c \in CellsOf(x)
                          PROVE  FALSE
                        <7>1. c.hour = HourFloor(x.at)
                            BY <6>1, CellFields
                        <7> QED
                            BY <7>1, <6>1, <1>4, <1>7, <4>2
                    <6> QED
                        BY <6>1 DEF RowsOf
                <5> QED
                    BY <4>2, <5>1, SumOfNone DEF CellTells, EmptyCell, Total, Counts
            <4> QED
                BY <4>1, <4>2
        <3>3. \A f \in Fields : Total(G, f, RowsOf(G, c)) = Total(H, f, RowsOf(H, c)) + Booked(r)[f]
            BY <2>1, <3>1, <1>8
        <3>4. \A b \in Buckets : Counts(G, b, RowsOf(G, c)) = Counts(H, b, RowsOf(H, c)) + LatOf(r)[b]
            BY <2>1, <3>1, <1>9
        <3> HIDE DEF old
        <3> QED
            BY <2>3, <1>3, <3>2, <3>3, <3>4 DEF CellTells
    <2> QED
        BY <2>2, <2>3
<1> QED
    BY <1>4, <1>5, <1>6, <1>7 DEF CubeTells, B

\* So does deleting the cells before an hour, from then on (retention.ts).
LEMMA DeletionTells ==
    ASSUME NEW H, RowsOK(H), NEW books, NEW low, CubeTells(books, H, low), NEW from \in Int,
           NEW high \in Int, high >= low, high >= from
    PROVE  CubeTells([c \in {d \in DOMAIN books : d.hour >= from} |-> books[c]], H, high)
<1> DEFINE B == [c \in {d \in DOMAIN books : d.hour >= from} |-> books[c]]
<1>1. \A c \in DOMAIN books : c.hour \in Int
    <2>1. ASSUME NEW c \in DOMAIN books
          PROVE  c.hour \in Int
        <3>1. PICK r \in H : c \in CellsOf(r)
            BY DEF CubeTells
        <3>2. c.hour = HourFloor(r.at) /\ r.at \in Int
            BY <3>1, CellFields DEF RowsOK, RowOK
        <3> QED
            BY <3>2, HourBounds
    <2> QED
        BY <2>1
<1>2. \A c \in DOMAIN B : c \in DOMAIN books /\ B[c] = books[c]
    OBVIOUS
<1>3. \A c \in DOMAIN B : \E r \in H : c \in CellsOf(r)
    BY <1>2 DEF CubeTells
<1>4. ASSUME NEW r \in H, HourFloor(r.at) >= high
      PROVE  CellsOf(r) \subseteq DOMAIN B
    <2>1. HourFloor(r.at) \in Int
        BY HourBounds DEF RowsOK, RowOK
    <2>2. HourFloor(r.at) >= low /\ HourFloor(r.at) >= from
        BY <2>1, <1>4 DEF CubeTells
    <2>3. CellsOf(r) \subseteq DOMAIN books
        BY <2>2 DEF CubeTells
    <2>4. \A c \in CellsOf(r) : c.hour = HourFloor(r.at)
        BY CellFields
    <2> QED
        BY <2>2, <2>3, <2>4
<1>5. ASSUME NEW c \in DOMAIN B, c.hour >= high
      PROVE  CellTells(B[c], H, c)
    <2>1. c.hour >= low
        BY <1>1, <1>2, <1>5 DEF CubeTells
    <2> QED
        BY <2>1, <1>2 DEF CubeTells
<1> HIDE DEF B
<1>6. CubeTells(B, H, high)
    BY <1>3, <1>4, <1>5 DEF CubeTells
<1> QED
    BY <1>6 DEF B

-----------------------------------------------------------------------------
(* the cells a query reads, and their rows *)

ScopeOK(scope) == scope.user # All
RangeOK(range) == range.from \in Int /\ range.to \in Int /\ range.tag # All

\* The cell of a row that a report over the cube reads it in.
GrainCell(r, scope, byUser, byModel) ==
    Cell(r, IF scope.user # NULL THEN scope.user ELSE IF byUser THEN OrAll(r.user) ELSE All,
            IF byModel THEN OrAll(r.model) ELSE All)

\* The rows of whole hours, and those of them that have a cell of the grain.
InHours(H, scope, range) ==
    {r \in H : /\ InScope(scope, r.user) /\ TagMatches(range, r.tag)
               /\ HourFloor(range.from) <= HourFloor(r.at) /\ HourFloor(r.at) < range.to}
HasGrain(r, scope, byUser, byModel) ==
    /\ byUser => scope.user # NULL \/ OrAll(r.user) # All
    /\ byModel => OrAll(r.model) # All
Grained(H, scope, range, byUser, byModel) ==
    {r \in InHours(H, scope, range) : HasGrain(r, scope, byUser, byModel)}

Facts(tables, H, low, scope, range) ==
    /\ RowsOK(H) /\ CubeTells(tables.cube, H, low) /\ ScopeOK(scope) /\ RangeOK(range)
    /\ HourFloor(range.from) >= low
    /\ NULL # All /\ NULL \notin Nat

\* A cell that a query of a grain reads is one of the rows in its scope and
\* range, and of no other cell of theirs.
LEMMA GrainRows ==
    ASSUME NEW r, NEW scope, NEW range, NEW byUser, NEW byModel, NEW tables, RowOK(r),
           NULL # All, ScopeOK(scope), RangeOK(range),
           NEW c \in CellsIn(tables, scope, range, byUser, byModel), c \in CellsOf(r)
    PROVE  /\ InScope(scope, r.user) /\ TagMatches(range, r.tag)
           /\ HourFloor(range.from) <= HourFloor(r.at) /\ HourFloor(r.at) < range.to
           /\ HasGrain(r, scope, byUser, byModel)
           /\ c = GrainCell(r, scope, byUser, byModel)
<1>1. /\ c.hour = HourFloor(r.at) /\ c.tag = OrAll(r.tag)
      /\ c.user \in {OrAll(r.user), All} /\ c.model \in {OrAll(r.model), All}
      /\ c = Cell(r, c.user, c.model)
    BY CellFields
<1>2. /\ IF scope.user # NULL THEN c.user = scope.user ELSE IF byUser THEN c.user # All ELSE c.user = All
      /\ IF byModel THEN c.model # All ELSE c.model = All
      /\ HoursOf(range, c.hour) /\ TagMatches(range, c.tag)
    BY DEF CellsIn
<1>3. HourFloor(range.from) <= HourFloor(r.at) /\ HourFloor(r.at) < range.to
    BY <1>1, <1>2 DEF HoursOf
<1>4. TagMatches(range, r.tag)
    BY <1>1, <1>2 DEF TagMatches, OrAll, RangeOK, RowOK
<1>5. InScope(scope, r.user)
    BY <1>1, <1>2 DEF InScope, OrAll, ScopeOK
<1>6. c.user = (IF scope.user # NULL THEN scope.user ELSE IF byUser THEN OrAll(r.user) ELSE All)
    BY <1>1, <1>2
<1>7. c.model = (IF byModel THEN OrAll(r.model) ELSE All)
    BY <1>1, <1>2
<1>8. HasGrain(r, scope, byUser, byModel)
    BY <1>1, <1>2 DEF HasGrain
<1>9. c = GrainCell(r, scope, byUser, byModel)
    BY <1>1, <1>6, <1>7 DEF GrainCell
<1> QED
    BY <1>3, <1>4, <1>5, <1>8, <1>9

\* Every such row has its cell of that grain, and the query reads it.
LEMMA GrainIn ==
    ASSUME NEW tables, NEW H, NEW low, NEW scope, NEW range, NEW byUser, NEW byModel,
           Facts(tables, H, low, scope, range),
           NEW r \in Grained(H, scope, range, byUser, byModel)
    PROVE  /\ GrainCell(r, scope, byUser, byModel) \in CellsIn(tables, scope, range, byUser, byModel)
           /\ GrainCell(r, scope, byUser, byModel) \in CellsOf(r)
<1> DEFINE u == IF scope.user # NULL THEN scope.user ELSE IF byUser THEN OrAll(r.user) ELSE All
           m == IF byModel THEN OrAll(r.model) ELSE All
           c == GrainCell(r, scope, byUser, byModel)
<1>1. /\ r \in H /\ RowOK(r)
      /\ InScope(scope, r.user) /\ TagMatches(range, r.tag)
      /\ HourFloor(range.from) <= HourFloor(r.at) /\ HourFloor(r.at) < range.to
      /\ HasGrain(r, scope, byUser, byModel)
    BY DEF Grained, InHours, Facts, RowsOK
<1>2. u \in {OrAll(r.user), All} /\ m \in {OrAll(r.model), All}
    BY <1>1 DEF InScope, OrAll
<1>3. c = Cell(r, u, m)
    BY DEF GrainCell
<1>4. c \in CellsOf(r)
    BY <1>2, <1>3 DEF CellsOf
<1>5. c.user = u /\ c.model = m /\ c.hour = HourFloor(r.at) /\ c.tag = OrAll(r.tag)
    BY <1>3 DEF Cell
<1>6. HourFloor(r.at) >= low
    <2>1. HourFloor(range.from) \in Int /\ HourFloor(r.at) \in Int /\ low \in Int /\ HourFloor(range.from) >= low
        BY <1>1, HourBounds DEF Facts, RangeOK, RowOK, CubeTells
    <2> QED
        BY <1>1, <2>1
<1>7. c \in DOMAIN tables.cube
    BY <1>1, <1>4, <1>6 DEF Facts, CubeTells
<1>8. TagMatches(range, c.tag)
    BY <1>1, <1>5 DEF TagMatches, OrAll, RowOK, Facts
<1>9. IF scope.user # NULL THEN c.user = scope.user ELSE IF byUser THEN c.user # All ELSE c.user = All
    BY <1>1, <1>5 DEF HasGrain
<1>10. IF byModel THEN c.model # All ELSE c.model = All
    BY <1>1, <1>5 DEF HasGrain
<1>11. HoursOf(range, c.hour)
    BY <1>1, <1>5 DEF HoursOf
<1> HIDE DEF c
<1>12. c \in CellsIn(tables, scope, range, byUser, byModel)
    BY <1>7, <1>8, <1>9, <1>10, <1>11 DEF CellsIn
<1> QED
    BY <1>4, <1>12 DEF c

GrainMap(S, scope, byUser, byModel) == [r \in S |-> GrainCell(r, scope, byUser, byModel)]

\* h takes the rows S onto the cells C, and a cell is booked from the rows it
\* is the image of.
Onto(h, S, C, H, books) ==
    /\ S \in SUBSET H /\ IsFiniteSet(C) /\ C \subseteq DOMAIN books
    /\ \A r \in S : h[r] \in C /\ h[r] \in CellsOf(r)
    /\ \A c \in C : \E r \in S : h[r] = c
    /\ \A c \in C : RowsOf(H, c) = Where(S, h, c) /\ CellTells(books[c], H, c)

\* So the cells that are read share the rows out among them.
LEMMA GrainOnto ==
    ASSUME NEW tables, NEW H, NEW low, NEW scope, NEW range, NEW byUser, NEW byModel,
           Facts(tables, H, low, scope, range)
    PROVE  LET S == Grained(H, scope, range, byUser, byModel)
           IN  Onto(GrainMap(S, scope, byUser, byModel), S, CellsIn(tables, scope, range, byUser, byModel), H, tables.cube)
<1> DEFINE S == Grained(H, scope, range, byUser, byModel)
           C == CellsIn(tables, scope, range, byUser, byModel)
           h == GrainMap(S, scope, byUser, byModel)
<1>1. S \in SUBSET H /\ C \subseteq DOMAIN tables.cube
    BY DEF Grained, InHours, CellsIn
<1>2. \A r \in S : h[r] = GrainCell(r, scope, byUser, byModel)
    BY DEF GrainMap
<1>3. \A r \in S : h[r] \in C /\ h[r] \in CellsOf(r)
    BY <1>2, GrainIn
<1>4. ASSUME NEW c \in C, NEW r \in H, c \in CellsOf(r)
      PROVE  r \in S /\ h[r] = c
    <2>1. RowOK(r) /\ NULL # All /\ ScopeOK(scope) /\ RangeOK(range)
        BY DEF Facts, RowsOK
    <2>2. /\ InScope(scope, r.user) /\ TagMatches(range, r.tag)
          /\ HourFloor(range.from) <= HourFloor(r.at) /\ HourFloor(r.at) < range.to
          /\ HasGrain(r, scope, byUser, byModel)
          /\ c = GrainCell(r, scope, byUser, byModel)
        BY <2>1, <1>4, GrainRows
    <2>3. r \in S
        BY <2>2 DEF Grained, InHours
    <2> QED
        BY <2>2, <2>3, <1>2
<1>5. \A c \in C : \E r \in H : c \in CellsOf(r)
    BY <1>1 DEF Facts, CubeTells
<1>6. \A c \in C : \E r \in S : h[r] = c
    BY <1>4, <1>5
<1>7. \A c \in C : RowsOf(H, c) = Where(S, h, c)
    BY <1>1, <1>3, <1>4 DEF RowsOf, Where
<1>8. IsFiniteSet(C)
    <2>1. IsFiniteSet(S)
        BY <1>1, FS_Subset DEF Facts, RowsOK
    <2>2. C = {h[r] : r \in S}
        BY <1>3, <1>6
    <2> HIDE DEF S, C, h
    <2>3. h \in [S -> C]
        BY <1>3 DEF h, GrainMap
    <2>4. h \in Surjection(S, C)
        BY <2>3, <1>6 DEF Surjection
    <2> QED
        BY <2>1, <2>4, FS_Surjection
<1>9. \A c \in C : CellTells(tables.cube[c], H, c)
    <2>1. ASSUME NEW c \in C
          PROVE  c.hour >= low
        <3>1. HoursOf(range, c.hour)
            BY DEF CellsIn
        <3>2. PICK r \in H : c \in CellsOf(r)
            BY <1>5
        <3>3. c.hour = HourFloor(r.at)
            BY <3>2, CellFields
        <3>4. c.hour \in Int /\ HourFloor(range.from) \in Int /\ low \in Int /\ HourFloor(range.from) >= low
            BY <3>3, HourBounds DEF Facts, RowsOK, RowOK, RangeOK, CubeTells
        <3> QED
            BY <3>1, <3>4 DEF HoursOf
    <2> QED
        BY <2>1, <1>1 DEF Facts, CubeTells
<1> HIDE DEF S, C, h
<1>10. Onto(h, S, C, H, tables.cube)
    BY <1>1, <1>3, <1>6, <1>7, <1>8, <1>9 DEF Onto
<1> QED
    BY <1>10 DEF S, C, h

CellsSum(tables, H, h, S, C, D) == OfCells(tables, D) = [f \in Fields |-> Total(H, f, WhereIn(S, h, D))]

\* A report over cells is the sums of the rows they were booked from.
LEMMA OfCellsIsTotal ==
    ASSUME NEW tables, NEW H, RowsOK(H), NULL \notin Nat, NEW h, NEW S, NEW C, Onto(h, S, C, H, tables.cube), NEW D \in SUBSET C
    PROVE  CellsSum(tables, H, h, S, C, D)
<1>1. ASSUME NEW f \in Fields
      PROVE  OfCells(tables, D)[f] = Total(H, f, WhereIn(S, h, D))
    <2> DEFINE share == [c \in D |-> tables.cube[c].share]
               v == [x \in DOMAIN share |-> share[x][f]]
    <2>1. OfCells(tables, D)[f] = SumFunctionOnSet(v, D)
        BY DEF OfCells, Figures, SumFunction
    <2>2. \A c \in D : v[c] = SumFunctionOnSet(Shares(H, f), Where(S, h, c))
        <3>1. \A c \in D : v[c] = tables.cube[c].share[f]
            OBVIOUS
        <3>2. \A c \in D : tables.cube[c].share[f] = Total(H, f, RowsOf(H, c)) /\ RowsOf(H, c) = Where(S, h, c)
            BY DEF Onto, CellTells
        <3> HIDE DEF v
        <3> QED
            BY <3>1, <3>2 DEF Total
    <2>3. Summed(Shares(H, f), S)
        BY SharesSummed DEF Onto
    <2>4. IsFiniteSet(D)
        <3>1. IsFiniteSet(C)
            BY DEF Onto
        <3> QED
            BY <3>1, FS_Subset
    <2> HIDE DEF v
    <2>5. SumFunctionOnSet(v, D) = SumFunctionOnSet(Shares(H, f), WhereIn(S, h, D))
        BY <2>2, <2>3, <2>4, SumGroups
    <2> QED
        BY <2>1, <2>5 DEF Total
<1>2. OfCells(tables, D) = [f \in Fields |-> OfCells(tables, D)[f]]
    BY DEF OfCells, Figures
<1> QED
    BY <1>1, <1>2 DEF CellsSum

\* The buckets of the cells that are read are those of their rows.
LEMMA HistogramIsCounts ==
    ASSUME NEW tables, NEW H, RowsOK(H), NEW h, NEW S, NEW C, Onto(h, S, C, H, tables.cube)
    PROVE  Histogram([c \in C |-> tables.cube[c].lat]) = [b \in Buckets |-> Counts(H, b, S)]
<1> DEFINE lat == [c \in C |-> tables.cube[c].lat]
<1>1. ASSUME NEW b \in Buckets
      PROVE  Histogram(lat)[b] = Counts(H, b, S)
    <2> DEFINE v == [x \in DOMAIN lat |-> lat[x][b]]
    <2>1. Histogram(lat)[b] = SumFunctionOnSet(v, C)
        BY DEF Histogram, SumFunction
    <2>2. \A c \in C : v[c] = SumFunctionOnSet(Lats(H, b), Where(S, h, c))
        <3>1. \A c \in C : v[c] = tables.cube[c].lat[b]
            OBVIOUS
        <3>2. \A c \in C : tables.cube[c].lat[b] = Counts(H, b, RowsOf(H, c)) /\ RowsOf(H, c) = Where(S, h, c)
            BY DEF Onto, CellTells
        <3> HIDE DEF v
        <3> QED
            BY <3>1, <3>2 DEF Counts
    <2>3. Summed(Lats(H, b), S) /\ IsFiniteSet(C)
        <3>1. IsFiniteSet(H) /\ S \in SUBSET H /\ IsFiniteSet(C)
            BY DEF Onto, RowsOK
        <3> QED
            BY <3>1, LatsSummed
    <2> HIDE DEF v
    <2>4. SumFunctionOnSet(v, C) = SumFunctionOnSet(Lats(H, b), WhereIn(S, h, C))
        BY <2>2, <2>3, SumGroups
    <2>5. WhereIn(S, h, C) = S
        BY DEF Onto, WhereIn
    <2> QED
        BY <2>1, <2>4, <2>5 DEF Counts
<1>2. Histogram(lat) = [b \in Buckets |-> Histogram(lat)[b]]
    BY DEF Histogram
<1> HIDE DEF lat
<1>3. Histogram(lat) = [b \in Buckets |-> Counts(H, b, S)]
    BY <1>1, <1>2
<1> QED
    BY <1>3 DEF lat

-----------------------------------------------------------------------------
(* groups *)

\* What the query of rows says is the ledger.
LEMMA OfRowsIsLedger ==
    ASSUME NEW H, RowsOK(H), NEW S \in SUBSET H, NULL \notin Nat
    PROVE  OfRows(S) = Ledger(S)
BY OfRowsIsTotal, LedgerIsTotal

Dimensions == {"user", "model", "origin", "tag", "hour"}

\* Rows by what they are grouped by.
Groups(S, by) == {GroupOf(r, by) : r \in S}
GroupIn(S, by, g) == {r \in S : GroupOf(r, by) = g}
ByGroup(S, by) == [g \in Groups(S, by) |-> Ledger(GroupIn(S, by, g))]

\* Finitely many rows are in finitely many groups.
LEMMA GroupsFinite ==
    ASSUME NEW S, IsFiniteSet(S), NEW by
    PROVE  IsFiniteSet(Groups(S, by))
<1> DEFINE k == [r \in S |-> GroupOf(r, by)]
<1>1. k \in Surjection(S, Groups(S, by))
    BY DEF Surjection, Groups
<1> QED
    BY <1>1, FS_Surjection

\* Each group of the query of rows is the ledger of its rows.
LEMMA GroupedRows ==
    ASSUME NEW H, RowsOK(H), NULL \notin Nat, NEW tables, NEW scope, NEW range, ReadsRows(range), NEW by,
           RowsIn(tables, scope, range) \in SUBSET H
    PROVE  Grouped(tables, scope, range, by) = ByGroup(RowsIn(tables, scope, range), by)
<1> DEFINE S == RowsIn(tables, scope, range)
<1>1. Grouped(tables, scope, range, by) = [g \in Groups(S, by) |-> OfRows(GroupIn(S, by, g))]
    BY DEF Grouped, Groups, GroupIn
<1>2. \A g : OfRows(GroupIn(S, by, g)) = Ledger(GroupIn(S, by, g))
    <2>1. \A g : GroupIn(S, by, g) \in SUBSET H
        BY DEF GroupIn
    <2> QED
        BY <2>1, OfRowsIsLedger
<1> HIDE DEF S
<1>3. Grouped(tables, scope, range, by) = ByGroup(S, by)
    BY <1>1, <1>2 DEF ByGroup
<1> QED
    BY <1>3 DEF S

\* The group of a cell is that of its rows.
LEMMA GrainGroup ==
    ASSUME NEW tables, NEW H, NEW low, NEW scope, NEW range, NEW by \in Dimensions,
           Facts(tables, H, low, scope, range),
           NEW r \in Grained(H, scope, range, by = "user", by = "model")
    PROVE  GrainCell(r, scope, by = "user", by = "model")[by] = GroupOf(r, by)
<1> DEFINE c == GrainCell(r, scope, by = "user", by = "model")
<1>1. InScope(scope, r.user) /\ NULL # All
    BY DEF Grained, InHours, Facts
<1>2. /\ c.hour = HourFloor(r.at) /\ c.origin = r.origin /\ c.tag = OrAll(r.tag)
      /\ c.user = (IF scope.user # NULL THEN scope.user ELSE IF by = "user" THEN OrAll(r.user) ELSE All)
      /\ c.model = (IF by = "model" THEN OrAll(r.model) ELSE All)
    BY DEF GrainCell, Cell
<1> HIDE DEF c
<1>3. by = "hour" => c[by] = GroupOf(r, by)
    BY <1>2 DEF GroupOf
<1>4. by = "origin" => c[by] = GroupOf(r, by)
    <2>1. OrAll(r.origin) = r.origin
        BY DEF OrAll, Grained, InHours, Facts, RowsOK, RowOK
    <2> QED
        BY <1>2, <2>1 DEF GroupOf
<1>5. by = "tag" => c[by] = GroupOf(r, by)
    BY <1>2 DEF GroupOf
<1>6. by = "user" => c[by] = GroupOf(r, by)
    <2>1. by = "user" => c.user = OrAll(r.user)
        BY <1>1, <1>2 DEF InScope, OrAll
    <2> QED
        BY <2>1 DEF GroupOf
<1>7. by = "model" => c[by] = GroupOf(r, by)
    BY <1>2 DEF GroupOf
<1>8. c[by] = GroupOf(r, by)
    BY <1>3, <1>4, <1>5, <1>6, <1>7 DEF Dimensions
<1> QED
    BY <1>8 DEF c

\* The totals of the cells that are read are the ledger of the hours' rows.
LEMMA TotalsOfCells ==
    ASSUME NEW tables, NEW H, NEW low, NEW scope, NEW range, ~ReadsRows(range),
           Facts(tables, H, low, scope, range)
    PROVE  UsageTotals(tables, scope, range) = Ledger(InHours(H, scope, range))
<1> DEFINE S == Grained(H, scope, range, FALSE, FALSE)
           C == CellsIn(tables, scope, range, FALSE, FALSE)
           h == GrainMap(S, scope, FALSE, FALSE)
<1>1. Onto(h, S, C, H, tables.cube)
    BY GrainOnto
<1>2. S = InHours(H, scope, range)
    BY DEF Grained, HasGrain
<1>3. UsageTotals(tables, scope, range) = OfCells(tables, C)
    BY DEF UsageTotals
<1> HIDE DEF S, C, h
<1>4. RowsOK(H) /\ NULL \notin Nat /\ S \in SUBSET H /\ WhereIn(S, h, C) = S
    BY <1>1 DEF Facts, Onto, WhereIn
<1>5. CellsSum(tables, H, h, S, C, C)
    <2>1. C \in SUBSET C
        OBVIOUS
    <2> QED
        BY <1>1, <1>4, <2>1, OfCellsIsTotal, Zenon
<1>6. Ledger(S) = [f \in Fields |-> Total(H, f, S)]
    BY <1>4, LedgerIsTotal
<1> QED
    BY <1>2, <1>3, <1>4, <1>5, <1>6 DEF CellsSum

\* Each group of cells is the ledger of its rows, of those the grain
\* attributes.
LEMMA GroupedCells ==
    ASSUME NEW tables, NEW H, NEW low, NEW scope, NEW range, ~ReadsRows(range), NEW by \in Dimensions,
           Facts(tables, H, low, scope, range)
    PROVE  Grouped(tables, scope, range, by) = ByGroup(Grained(H, scope, range, by = "user", by = "model"), by)
<1> DEFINE S == Grained(H, scope, range, by = "user", by = "model")
           C == CellsIn(tables, scope, range, by = "user", by = "model")
           h == GrainMap(S, scope, by = "user", by = "model")
           CellsBy(g) == {c \in C : c[by] = g}
<1>1. Onto(h, S, C, H, tables.cube)
    BY GrainOnto
<1>2. \A r \in S : h[r][by] = GroupOf(r, by)
    <2>1. \A r \in S : h[r] = GrainCell(r, scope, by = "user", by = "model")
        BY DEF GrainMap
    <2>2. \A r \in S : GrainCell(r, scope, by = "user", by = "model")[by] = GroupOf(r, by)
        BY GrainGroup
    <2> QED
        BY <2>1, <2>2
<1>3. Grouped(tables, scope, range, by) = [g \in {c[by] : c \in C} |-> OfCells(tables, CellsBy(g))]
    BY DEF Grouped
<1> HIDE DEF S, C, h
<1>4. RowsOK(H) /\ NULL \notin Nat /\ S \in SUBSET H
    BY <1>1 DEF Facts, Onto
<1>5. {c[by] : c \in C} = Groups(S, by)
    BY <1>1, <1>2 DEF Onto, Groups
<1>6. ASSUME NEW g
      PROVE  OfCells(tables, CellsBy(g)) = Ledger(GroupIn(S, by, g))
    <2>1. CellsBy(g) \in SUBSET C
        OBVIOUS
    <2>2. WhereIn(S, h, CellsBy(g)) = GroupIn(S, by, g)
        BY <1>1, <1>2 DEF Onto, WhereIn, GroupIn
    <2> HIDE DEF CellsBy
    <2>3. CellsSum(tables, H, h, S, C, CellsBy(g))
        BY <1>1, <1>4, <2>1, OfCellsIsTotal, Zenon
    <2>4. GroupIn(S, by, g) \in SUBSET H
        BY <1>4 DEF GroupIn
    <2>5. Ledger(GroupIn(S, by, g)) = [f \in Fields |-> Total(H, f, GroupIn(S, by, g))]
        BY <1>4, <2>4, LedgerIsTotal
    <2> QED
        BY <2>2, <2>3, <2>5 DEF CellsSum
<1> HIDE DEF CellsBy
<1>7. Grouped(tables, scope, range, by) = ByGroup(S, by)
    BY <1>3, <1>5, <1>6 DEF ByGroup
<1> QED
    BY <1>7 DEF S

\* What no cell is attributed to is what is missing from the total.
Attributed(S, by) == {r \in S : GroupOf(r, by) # All}

\* What the total has beyond the attributed groups is the group of what has no
\* attribution, and shows when there is any.
LEMMA ResidualIsRest ==
    ASSUME NEW H, RowsOK(H), NULL \notin Nat, NEW S \in SUBSET H, NEW by
    PROVE  WithResidual(Ledger(S), ByGroup(Attributed(S, by), by)) = ByGroup(S, by)
<1> DEFINE A == Attributed(S, by)
           R == S \ A
           G == Groups(A, by)
           books == ByGroup(A, by)
           residual == Minus(Ledger(S), books)
<1>1. /\ A \in SUBSET H /\ A \in SUBSET S /\ R \in SUBSET H
      /\ A \cap R = {} /\ A \cup R = S
      /\ GroupIn(S, by, All) = R
      /\ \A g : g # All => GroupIn(S, by, g) = GroupIn(A, by, g)
      /\ All \notin G
      /\ Groups(S, by) = IF R = {} THEN G ELSE G \cup {All}
    BY DEF Groups, GroupIn, Attributed
<1>2. DOMAIN books = G /\ \A g \in G : books[g] = Ledger(GroupIn(A, by, g))
    BY DEF ByGroup
<1> HIDE DEF books, R, G, A
<1>3. IsFiniteSet(R) /\ IsFiniteSet(A) /\ IsFiniteSet(G)
    BY <1>1, SharesSummed, GroupsFinite, FS_Subset DEF RowsOK, G
<1> DEFINE k == [r \in A |-> GroupOf(r, by)]
<1>4. \A g : Where(A, k, g) = GroupIn(A, by, g)
    BY DEF Where, GroupIn
<1>5. WhereIn(A, k, G) = A
    BY DEF WhereIn, G, Groups
<1> HIDE DEF k
<1>6. ASSUME NEW f \in Fields
      PROVE  Minus(Ledger(S), books)[f] = Total(H, f, R)
    <2> DEFINE v == [g \in DOMAIN books |-> books[g][f]]
    <2>1. \A g \in G : v[g] = Total(H, f, GroupIn(A, by, g))
        <3>1. \A g \in G : GroupIn(A, by, g) \in SUBSET H
            BY <1>1 DEF GroupIn
        <3>2. \A g \in G : Ledger(GroupIn(A, by, g)) = [e \in Fields |-> Total(H, e, GroupIn(A, by, g))]
            BY <3>1, LedgerIsTotal
        <3> QED
            BY <1>2, <3>2
    <2>2. SumFunction(v) = SumFunctionOnSet(v, G)
        BY <1>2 DEF SumFunction
    <2>3. /\ Summed(Shares(H, f), A) /\ Summed(Shares(H, f), R)
          /\ Total(H, f, A) \in Nat /\ Total(H, f, R) \in Nat
        BY <1>1, SharesSummed
    <2>4. Minus(Ledger(S), books)[f] =
            LET d == Ledger(S)[f] - SumFunction(v)
            IN  IF f \in {"priced", "notional"} /\ d < 0 THEN 0 ELSE d
        BY DEF Minus
    <2> HIDE DEF v
    <2>5. \A g \in G : v[g] = SumFunctionOnSet(Shares(H, f), Where(A, k, g))
        BY <2>1, <1>4 DEF Total
    <2>6. SumFunctionOnSet(v, G) = SumFunctionOnSet(Shares(H, f), WhereIn(A, k, G))
        BY <2>3, <2>5, <1>3, SumGroups
    <2>7. SumFunction(v) = Total(H, f, A)
        BY <2>2, <2>6, <1>5 DEF Total
    <2>8. SumFunctionOnSet(Shares(H, f), A \cup R) =
          SumFunctionOnSet(Shares(H, f), A) + SumFunctionOnSet(Shares(H, f), R)
        BY <1>1, <2>3, SumUnion
    <2>9. Ledger(S)[f] = Total(H, f, A) + Total(H, f, R)
        <3>1. Ledger(S) = [e \in Fields |-> Total(H, e, S)]
            BY LedgerIsTotal
        <3> QED
            BY <3>1, <2>8, <1>1 DEF Total
    <2>10. Ledger(S)[f] - SumFunction(v) = Total(H, f, R)
        BY <2>3, <2>7, <2>9
    <2> QED
        BY <2>3, <2>4, <2>10
<1>7. Minus(Ledger(S), books) = Ledger(R)
    <2>1. Minus(Ledger(S), books) = [f \in Fields |-> Minus(Ledger(S), books)[f]]
        BY DEF Minus
    <2>2. Ledger(R) = [f \in Fields |-> Total(H, f, R)]
        BY <1>1, LedgerIsTotal
    <2> QED
        BY <1>6, <2>1, <2>2
<1>8. Ledger(R).requests = Cardinality(R) /\ (Cardinality(R) > 0 <=> R # {})
    <2>1. Ledger(R).requests = Cardinality(R)
        BY DEF Ledger
    <2>2. Cardinality(R) \in Nat /\ (Cardinality(R) = 0 <=> R = {})
        BY <1>3, FS_EmptySet, FS_CardinalityType
    <2> QED
        BY <2>1, <2>2
<1>9. WithResidual(Ledger(S), books) =
        IF R # {} THEN [g \in G \cup {All} |-> IF g = All THEN Ledger(R) ELSE Ledger(GroupIn(A, by, g))]
        ELSE books
    BY <1>2, <1>7, <1>8 DEF WithResidual
<1>10. CASE R = {}
    <2>1. books = ByGroup(S, by)
        BY <1>1, <1>10 DEF ByGroup, books, G, A
    <2> QED
        BY <2>1, <1>9, <1>10 DEF books, A
<1>11. CASE R # {}
    <2>1. ByGroup(S, by) = [g \in G \cup {All} |-> Ledger(GroupIn(S, by, g))]
        BY <1>1, <1>11 DEF ByGroup
    <2>2. \A g \in G \cup {All} : Ledger(GroupIn(S, by, g)) =
              IF g = All THEN Ledger(R) ELSE Ledger(GroupIn(A, by, g))
        BY <1>1
    <2> QED
        BY <2>1, <2>2, <1>9, <1>11 DEF books, A
<1> QED
    BY <1>10, <1>11

-----------------------------------------------------------------------------
(* what a report tells, from either source *)

\* What a report is told: the rows of its range, by either source.
Sees(tables, H, scope, range, S) ==
    /\ RowsOK(H) /\ NULL \notin Nat /\ NULL # All
    /\ S \in SUBSET H
    /\ ReadsRows(range) => RowsIn(tables, scope, range) = S
    /\ ~ReadsRows(range) =>
          /\ \E low \in Int : Facts(tables, H, low, scope, range)
          /\ S = InHours(H, scope, range)

\* The totals are the ledger, from either source (queries.ts usageTotals).
LEMMA TotalsSeen ==
    ASSUME NEW tables, NEW H, NEW scope, NEW range, NEW S, Sees(tables, H, scope, range, S)
    PROVE  UsageTotals(tables, scope, range) = Ledger(S)
<1>0. RowsOK(H) /\ NULL \notin Nat /\ S \in SUBSET H
    BY DEF Sees
<1>1. CASE ReadsRows(range)
    <2>1. UsageTotals(tables, scope, range) = OfRows(S)
        BY <1>1 DEF UsageTotals, Sees
    <2> QED
        BY <1>0, <2>1, OfRowsIsLedger
<1>2. CASE ~ReadsRows(range)
    <2>1. PICK low \in Int : Facts(tables, H, low, scope, range)
        BY <1>2 DEF Sees
    <2>2. UsageTotals(tables, scope, range) = Ledger(InHours(H, scope, range))
        BY <1>2, <2>1, TotalsOfCells
    <2> QED
        BY <1>2, <2>2 DEF Sees
<1> QED
    BY <1>1, <1>2

\* So is every group by a dimension that no cell leaves out.
LEMMA GroupsSeen ==
    ASSUME NEW tables, NEW H, NEW scope, NEW range, NEW S, Sees(tables, H, scope, range, S),
           NEW by \in {"origin", "tag", "hour"}
    PROVE  Grouped(tables, scope, range, by) = ByGroup(S, by)
<1>0. RowsOK(H) /\ NULL \notin Nat /\ S \in SUBSET H /\ by \in Dimensions
    BY DEF Sees, Dimensions
<1>1. CASE ReadsRows(range)
    <2>1. RowsIn(tables, scope, range) = S /\ RowsIn(tables, scope, range) \in SUBSET H
        BY <1>1 DEF Sees
    <2>2. Grouped(tables, scope, range, by) = ByGroup(RowsIn(tables, scope, range), by)
        BY <1>0, <1>1, <2>1, GroupedRows
    <2> QED
        BY <2>1, <2>2
<1>2. CASE ~ReadsRows(range)
    <2>1. PICK low \in Int : Facts(tables, H, low, scope, range)
        BY <1>2 DEF Sees
    <2>2. Grouped(tables, scope, range, by) = ByGroup(Grained(H, scope, range, by = "user", by = "model"), by)
        BY <1>0, <1>2, <2>1, GroupedCells
    <2>3. Grained(H, scope, range, by = "user", by = "model") = S
        BY <1>2 DEF Sees, Grained, HasGrain
    <2> QED
        BY <2>2, <2>3
<1> QED
    BY <1>1, <1>2

\* By person and by model the cells tell of what is attributed.
LEMMA AttributedSeen ==
    ASSUME NEW tables, NEW H, NEW scope, NEW range, NEW S, Sees(tables, H, scope, range, S), ~ReadsRows(range),
           NEW by \in {"user", "model"}
    PROVE  /\ Grouped(tables, scope, range, by) = ByGroup(Attributed(S, by), by)
           /\ Grained(H, scope, range, by = "user", by = "model") = Attributed(S, by)
<1>1. PICK low \in Int : Facts(tables, H, low, scope, range)
    BY DEF Sees
<1>2. by \in Dimensions
    BY DEF Dimensions
<1>3. Grouped(tables, scope, range, by) = ByGroup(Grained(H, scope, range, by = "user", by = "model"), by)
    BY <1>1, <1>2, GroupedCells
<1>4. S = InHours(H, scope, range)
    BY DEF Sees
<1>5. ASSUME NEW r \in S
      PROVE  HasGrain(r, scope, by = "user", by = "model") <=> GroupOf(r, by) # All
    <2>1. InScope(scope, r.user) /\ scope.user # All
        BY <1>1, <1>4 DEF InHours, Facts, ScopeOK
    <2>2. CASE by = "user"
        <3>1. GroupOf(r, by) = OrAll(r.user)
            BY <2>2 DEF GroupOf
        <3>2. scope.user # NULL => OrAll(r.user) # All
            BY <2>1 DEF InScope, OrAll
        <3> QED
            BY <2>2, <3>1, <3>2 DEF HasGrain
    <2>3. CASE by = "model"
        BY <2>3 DEF GroupOf, HasGrain
    <2> QED
        BY <2>2, <2>3
<1>6. Grained(H, scope, range, by = "user", by = "model") = Attributed(S, by)
    BY <1>4, <1>5 DEF Grained, Attributed
<1> QED
    BY <1>3, <1>6

\* And the residual tells of the rest (queries.ts subtractTotals).
LEMMA PeopleAndModelsSeen ==
    ASSUME NEW tables, NEW H, NEW scope, NEW range, NEW S, Sees(tables, H, scope, range, S)
    PROVE  /\ UsageByUser(tables, scope, range) = ByGroup(S, "user")
           /\ UsageByModel(tables, scope, range) = ByGroup(S, "model")
<1>0. RowsOK(H) /\ NULL \notin Nat /\ S \in SUBSET H
    BY DEF Sees
<1>1. CASE ReadsRows(range)
    <2>1. RowsIn(tables, scope, range) = S /\ RowsIn(tables, scope, range) \in SUBSET H
        BY <1>1 DEF Sees
    <2>2. \A by : Grouped(tables, scope, range, by) = ByGroup(RowsIn(tables, scope, range), by)
        BY <1>0, <1>1, <2>1, GroupedRows
    <2> QED
        BY <1>1, <2>1, <2>2 DEF UsageByUser, UsageByModel
<1>2. CASE ~ReadsRows(range)
    <2>1. UsageTotals(tables, scope, range) = Ledger(S)
        BY TotalsSeen
    <2>2. \A by \in {"user", "model"} : Grouped(tables, scope, range, by) = ByGroup(Attributed(S, by), by)
        BY <1>2, AttributedSeen
    <2>3. \A by : WithResidual(Ledger(S), ByGroup(Attributed(S, by), by)) = ByGroup(S, by)
        BY <1>0, ResidualIsRest
    <2> QED
        BY <1>2, <2>1, <2>2, <2>3 DEF UsageByUser, UsageByModel
<1> QED
    BY <1>1, <1>2

PeopleOf(S, o) == {r.user : r \in {s \in S : s.origin = o}} \ {NULL}

\* The people behind an origin are those of its rows, from either source.
LEMMA PeopleSeen ==
    ASSUME NEW tables, NEW H, NEW scope, NEW range, NEW S, Sees(tables, H, scope, range, S), NEW o
    PROVE  DistinctUsers(tables, scope, range, o) = PeopleOf(S, o)
<1>1. CASE ReadsRows(range)
    BY <1>1 DEF Sees, DistinctUsers, PeopleOf
<1>2. CASE ~ReadsRows(range)
    <2>1. PICK low \in Int : Facts(tables, H, low, scope, range)
        BY <1>2 DEF Sees
    <2> DEFINE A == Grained(H, scope, range, TRUE, FALSE)
               C == CellsIn(tables, scope, range, TRUE, FALSE)
               h == GrainMap(A, scope, TRUE, FALSE)
    <2>2. Onto(h, A, C, H, tables.cube)
        BY <2>1, GrainOnto
    <2>3. DistinctUsers(tables, scope, range, o) = {c.user : c \in {d \in C : d.origin = o}}
        BY <1>2 DEF DistinctUsers
    <2>4. ASSUME NEW r \in A
          PROVE  /\ r \in S /\ h[r] \in C
                 /\ h[r].origin = r.origin /\ h[r].user = r.user /\ r.user # NULL
        <3>1. InScope(scope, r.user) /\ r \in S /\ HasGrain(r, scope, TRUE, FALSE)
            BY <1>2 DEF Grained, InHours, Sees
        <3>2. r.user # NULL /\ OrAll(r.user) = r.user
            BY <3>1, <2>1 DEF HasGrain, InScope, OrAll
        <3>3. h[r] = GrainCell(r, scope, TRUE, FALSE)
            BY DEF GrainMap
        <3>5. h[r] \in C
            BY <2>2 DEF Onto
        <3> HIDE DEF h, A, C
        <3> DEFINE u == IF scope.user # NULL THEN scope.user ELSE IF TRUE THEN OrAll(r.user) ELSE All
        <3>6. u = r.user
            BY <3>1, <3>2 DEF InScope
        <3>7. h[r] = Cell(r, u, All)
            BY <3>3 DEF GrainCell
        <3> HIDE DEF u
        <3>4. h[r].origin = r.origin /\ h[r].user = r.user
            BY <3>6, <3>7 DEF Cell
        <3> QED
            BY <3>1, <3>2, <3>4, <3>5
    <2>5. ASSUME NEW r \in S, r.user # NULL
          PROVE  r \in A
        <3>1. r \in InHours(H, scope, range) /\ RowOK(r)
            BY <1>2, <2>1 DEF Sees, Facts, RowsOK
        <3>2. OrAll(r.user) # All
            BY <2>5, <3>1 DEF OrAll, RowOK
        <3> QED
            BY <3>1, <3>2 DEF Grained, HasGrain
    <2>6. \A c \in C : \E r \in A : h[r] = c
        BY <2>2 DEF Onto
    <2> HIDE DEF A, C, h
    <2>7. ASSUME NEW u \in {c.user : c \in {d \in C : d.origin = o}}
          PROVE  u \in PeopleOf(S, o)
        <3>1. PICK c \in C : c.origin = o /\ u = c.user
            OBVIOUS
        <3>2. PICK r \in A : h[r] = c
            BY <2>6
        <3> QED
            BY <3>1, <3>2, <2>4 DEF PeopleOf
    <2>8. ASSUME NEW u \in PeopleOf(S, o)
          PROVE  u \in {c.user : c \in {d \in C : d.origin = o}}
        <3>1. PICK r \in S : r.origin = o /\ u = r.user /\ r.user # NULL
            BY DEF PeopleOf
        <3>2. r \in A
            BY <3>1, <2>5
        <3> QED
            BY <3>1, <3>2, <2>4
    <2> QED
        BY <2>3, <2>7, <2>8
<1> QED
    BY <1>1, <1>2

-----------------------------------------------------------------------------
(* tags, clients, errors and quota *)

TagCounts(T) == [v \in {r.tag : r \in T} \ {NULL} |-> Cardinality({r \in T : r.tag = v})]

\* The values offered for a tag, with how often each was used, are those of the
\* rows of every tag.
LEMMA TagsSeen ==
    ASSUME NEW tables, NEW H, NEW scope, NEW range, NEW T,
           Sees(tables, H, scope, [range EXCEPT !.tag = NULL], T)
    PROVE  TagValues(tables, scope, range) = TagCounts(T)
<1> DEFINE wide == [range EXCEPT !.tag = NULL]
<1>1. UsageByTag(tables, scope, wide) = ByGroup(T, "tag")
    BY GroupsSeen DEF UsageByTag
<1>2. \A r \in T : r.tag # All /\ NULL # All
    BY DEF Sees, RowsOK, RowOK
<1>3. \A r \in T : GroupOf(r, "tag") = IF r.tag = NULL THEN All ELSE r.tag
    BY DEF GroupOf, OrAll
<1>4. Groups(T, "tag") \ {All} = {r.tag : r \in T} \ {NULL}
    BY <1>2, <1>3 DEF Groups
<1>5. \A v \in {r.tag : r \in T} \ {NULL} : GroupIn(T, "tag", v) = {r \in T : r.tag = v}
    BY <1>2, <1>3 DEF GroupIn
<1>6. TagValues(tables, scope, range) =
          [v \in DOMAIN ByGroup(T, "tag") \ {All} |-> ByGroup(T, "tag")[v].requests]
    BY <1>1 DEF TagValues
<1>7. DOMAIN ByGroup(T, "tag") = Groups(T, "tag")
    BY DEF ByGroup
<1>8. \A v \in Groups(T, "tag") : ByGroup(T, "tag")[v].requests = Cardinality(GroupIn(T, "tag", v))
    BY DEF ByGroup, Ledger
<1> QED
    BY <1>4, <1>5, <1>6, <1>7, <1>8 DEF TagCounts

\* The sizes of the parts add up.
LEMMA PartsAddUp ==
    ASSUME NEW S, IsFiniteSet(S), NEW k, NEW v, NEW G, \A r \in S : k[r] \in G,
           IsFiniteSet(G), \A g \in G : v[g] = Cardinality(Where(S, k, g))
    PROVE  SumFunctionOnSet(v, G) = Cardinality(S)
<1> DEFINE w == [r \in S |-> 1]
<1>1. \A r \in S : w[r] = 1
    OBVIOUS
<1> HIDE DEF w
<1>2. \A T \in SUBSET S : IsFiniteSet(T) /\ SumFunctionOnSet(w, T) = Cardinality(T)
    <2>1. ASSUME NEW T \in SUBSET S
          PROVE  IsFiniteSet(T) /\ SumFunctionOnSet(w, T) = Cardinality(T)
        <3>1. IsFiniteSet(T)
            BY FS_Subset
        <3>2. \A r \in T : w[r] = 1
            BY <1>1
        <3> QED
            BY <3>1, <3>2, SumOfOnes
    <2> QED
        BY <2>1
<1>3. \A g \in G : v[g] = SumFunctionOnSet(w, Where(S, k, g))
    <2>1. \A g \in G : Where(S, k, g) \in SUBSET S
        BY DEF Where
    <2> QED
        BY <1>2, <2>1
<1>4. Summed(w, S)
    BY <1>1, SumOfOnes
<1>5. SumFunctionOnSet(v, G) = SumFunctionOnSet(w, WhereIn(S, k, G))
    BY <1>3, <1>4, SumGroups
<1>6. WhereIn(S, k, G) = S
    BY DEF WhereIn
<1>7. S \in SUBSET S
    OBVIOUS
<1> QED
    BY <1>2, <1>5, <1>6, <1>7

\* The clients' requests add up to the rows.
LEMMA ClientsAddUp ==
    ASSUME NEW tables, NEW scope, NEW range, NEW S, S = RowsIn(tables, scope, range), IsFiniteSet(S)
    PROVE  LET clients == UsageByClient(tables, scope, range)
           IN  SumFunction([c \in DOMAIN clients |-> clients[c].requests]) = Cardinality(S)
<1> DEFINE k == [r \in S |-> OrAll(r.client)]
           G == {OrAll(r.client) : r \in S}
           clients == UsageByClient(tables, scope, range)
           v == [c \in DOMAIN clients |-> clients[c].requests]
<1>1. clients = [c \in G |-> OfRows({r \in S : OrAll(r.client) = c})]
    BY DEF UsageByClient
<1>2. \A c \in G : {r \in S : OrAll(r.client) = c} = Where(S, k, c) /\ Where(S, k, c) \in SUBSET S
    BY DEF Where
<1>3. \A r \in S : k[r] \in G
    OBVIOUS
<1>4. IsFiniteSet(G)
    <2>1. k \in Surjection(S, G)
        BY DEF Surjection
    <2> QED
        BY <2>1, FS_Surjection
<1>5. \A T \in SUBSET S : OfRows(T).requests = Cardinality(T)
    <2>1. ASSUME NEW T \in SUBSET S
          PROVE  OfRows(T).requests = Cardinality(T)
        <3> DEFINE share == [r \in T |-> RawShare(r)]
                   w == [x \in DOMAIN share |-> share[x]["requests"]]
        <3>1. OfRows(T).requests = SumFunctionOnSet(w, T)
            BY DEF OfRows, Figures, SumFunction, Fields
        <3>2. \A r \in T : w[r] = 1
            BY DEF RawShare
        <3>3. IsFiniteSet(T)
            BY FS_Subset
        <3> HIDE DEF w
        <3> QED
            BY <3>1, <3>2, <3>3, SumOfOnes
    <2> QED
        BY <2>1
<1> HIDE DEF G, k, clients
<1>6. DOMAIN v = G /\ \A c \in G : v[c] = Cardinality(Where(S, k, c))
    BY <1>1, <1>2, <1>5
<1> HIDE DEF v
<1>7. SumFunctionOnSet(v, G) = Cardinality(S)
    BY <1>3, <1>4, <1>6, PartsAddUp
<1>8. SumFunction(v) = Cardinality(S)
    BY <1>6, <1>7 DEF SumFunction
<1> QED
    BY <1>8 DEF v, clients

\* The breakdown of the errors adds up to them.
LEMMA ErrorsAddUp ==
    ASSUME NEW tables, NEW scope, NEW range, NEW S, S = RowsIn(tables, scope, range), IsFiniteSet(S)
    PROVE  SumFunction(ErrorBreakdown(tables, scope, range)) = Ledger(S).errors
<1> DEFINE F == {r \in S : r.failed}
           k == [r \in F |-> r.error]
           G == {r.error : r \in F}
           v == ErrorBreakdown(tables, scope, range)
<1>1. v = [e \in G |-> Cardinality({r \in F : r.error = e})]
    BY DEF ErrorBreakdown
<1>2. \A e \in G : {r \in F : r.error = e} = Where(F, k, e)
    BY DEF Where
<1>3. \A r \in F : k[r] \in G
    OBVIOUS
<1>4. IsFiniteSet(F)
    <2>1. F \in SUBSET S
        OBVIOUS
    <2> HIDE DEF F
    <2> QED
        BY <2>1, FS_Subset
<1>5. IsFiniteSet(G)
    <2>1. k \in Surjection(F, G)
        BY DEF Surjection
    <2> QED
        BY <2>1, <1>4, FS_Surjection
<1>6. Ledger(S).errors = Cardinality(F)
    BY DEF Ledger
<1> HIDE DEF G, k, v, F
<1>7. DOMAIN v = G /\ \A e \in G : v[e] = Cardinality(Where(F, k, e))
    BY <1>1, <1>2
<1>8. SumFunctionOnSet(v, G) = Cardinality(F)
    BY <1>3, <1>4, <1>5, <1>7, PartsAddUp
<1>9. SumFunction(v) = Ledger(S).errors
    BY <1>6, <1>7, <1>8 DEF SumFunction
<1> QED
    BY <1>9 DEF v

\* The rows of a person that carried the headers have a newest.
LEMMA NewestQuota ==
    ASSUME NEW tables, NEW scope, RowsOK(tables.rows),
           \A q, s \in tables.rows : q.seq = s.seq => q = s,
           NEW r \in tables.rows, InScope(scope, r.user), r.quota # NULL
    PROVE  Cardinality({q \in LatestQuota(tables, scope) : q.user = r.user /\ q.at >= r.at}) = 1
<1> DEFINE S == {s \in tables.rows : InScope(scope, s.user) /\ s.quota # NULL}
           Newer(q, s) == q.at > s.at \/ (q.at = s.at /\ q.seq > s.seq)
           Q == {s \in S : s.user = r.user}
           order == {p \in Q \X Q : Newer(p[1], p[2])}
<1>1. \A q \in Q : q.at \in Int /\ q.seq \in Int
    BY DEF RowsOK, RowOK
<1>2. \A q, s \in Q : <<q, s>> \in order <=> Newer(q, s)
    OBVIOUS
<1>3. IsFiniteSet(Q) /\ r \in Q
    <2>1. Q \in SUBSET tables.rows /\ IsFiniteSet(tables.rows) /\ r \in Q
        BY DEF RowsOK
    <2> HIDE DEF Q
    <2> QED
        BY <2>1, FS_Subset
<1>4. \A q, s \in Q : q.seq = s.seq => q = s
    OBVIOUS
<1>5. LatestQuota(tables, scope) = {q \in S : \A s \in S : s.user = q.user /\ s # q => Newer(q, s)}
    BY DEF LatestQuota
<1>6. \A q : q \in Q <=> q \in S /\ q.user = r.user
    OBVIOUS
<1> HIDE DEF order, Q, S
<1>7. StrictOrder(order, Q)
    BY <1>1, <1>2, <1>3, <1>4 DEF StrictOrder
<1>8. PICK q \in Q : \A s \in Q \ {q} : <<q, s>> \in order
    BY <1>3, <1>7, FirstOfAll
<1>9. q \in LatestQuota(tables, scope)
    BY <1>2, <1>5, <1>6, <1>8
<1>10. q.at >= r.at
    <2>1. r = q \/ Newer(q, r)
        BY <1>2, <1>3, <1>8
    <2>2. q.at \in Int /\ r.at \in Int
        BY <1>1, <1>3
    <2> QED
        BY <2>1, <2>2
<1>11. ASSUME NEW s \in LatestQuota(tables, scope), s.user = r.user
       PROVE  s = q
    <2>1. s \in Q
        BY <1>5, <1>6, <1>11
    <2>2. s # q => Newer(s, q) /\ Newer(q, s)
        BY <1>2, <1>5, <1>6, <1>8, <1>11, <2>1
    <2> QED
        BY <1>1, <2>1, <2>2
<1>12. {s \in LatestQuota(tables, scope) : s.user = r.user /\ s.at >= r.at} = {q}
    BY <1>6, <1>9, <1>10, <1>11
<1> QED
    BY <1>12, FS_Singleton

-----------------------------------------------------------------------------
(* the books are kept *)

\* What is stored is what the writer stores, and where no page is opened both
\* tables are what the history says from where retention has not begun.
BooksOK ==
    /\ RowsOK(history)
    /\ cut = [rows |-> cut.rows, cells |-> cut.cells] /\ cut.rows \in Int /\ cut.cells \in Int
    /\ view = NoPage =>
          /\ \A r \in history \ rows : r.at < cut.rows
          /\ CubeTells(cube, history, cut.cells)

\* The later of two instants.
LEMMA LaterOf ==
    ASSUME NEW a \in Int, NEW b \in Int
    PROVE  Max({a, b}) \in Int /\ Max({a, b}) >= a /\ Max({a, b}) >= b
<1>1. \E x \in {a, b} : \A y \in {a, b} : x >= y
    OBVIOUS
<1>2. Max({a, b}) \in {a, b} /\ \A y \in {a, b} : Max({a, b}) >= y
    BY <1>1 DEF Max
<1> QED
    BY <1>2

\* What a batch stores is well-formed.
LEMMA KindIsStored ==
    ASSUME HistoryOK, NEW k \in Kinds \cup PagedKinds, Commit(k)
    PROVE  RowOK(New(k))
<1>1. /\ New(k).seq = Cardinality(history) + 1 /\ New(k).at = clock - k.ago
      /\ k.ago \in 0..RequestKeep
    BY CommitIs
<1>2. New(k).seq \in Nat /\ New(k).at \in Int
    BY <1>1, StoreAssumption DEF HistoryOK
<1>3. /\ New(k).user = k.user /\ New(k).tag = k.tag /\ New(k).origin = k.origin
      /\ New(k).tokens = k.tokens /\ New(k).duration = k.duration /\ New(k).failed = k.failed
      /\ New(k).cost = k.cost /\ New(k).notional = k.notional /\ New(k).basis = k.basis
    BY DEF New, Row
<1>4. /\ k.user # All /\ k.tag # All /\ k.origin # NULL
      /\ k.tokens \in Nat /\ k.duration \in Nat /\ k.failed \in BOOLEAN
      /\ k.cost \in Nat \cup {NULL} /\ k.notional \in Nat \cup {NULL}
      /\ k.basis = "subscription" => k.cost = NULL
    BY KindAssumption
<1> QED
    BY <1>2, <1>3, <1>4 DEF RowOK

\* An empty store is kept so.
LEMMA BooksInit == StoreInit => BooksOK
<1> SUFFICES ASSUME StoreInit PROVE BooksOK
    OBVIOUS
<1>1. rows = {} /\ history = {} /\ cube = <<>> /\ cut = [rows |-> 0, cells |-> 0]
    BY DEF StoreInit
<1>2. RowsOK(history)
    BY <1>1, FS_EmptySet DEF RowsOK
<1>3. CubeTells(cube, history, cut.cells)
    <2>1. DOMAIN cube = {}
        BY <1>1
    <2> QED
        BY <1>1, <2>1 DEF CubeTells
<1> QED
    BY <1>1, <1>2, <1>3 DEF BooksOK

\* Every step keeps the books: a batch books what it stores, and a sweep moves
\* its cut-off over what it deletes.
LEMMA BooksNext == HistoryOK /\ SweepOK /\ LiveOK /\ WalkOK /\ BooksOK /\ [StoreNext]_storeVars => BooksOK'
<1> SUFFICES ASSUME HistoryOK, SweepOK, LiveOK, WalkOK, BooksOK, [StoreNext]_storeVars PROVE BooksOK'
    OBVIOUS
<1>0. NULL \notin Nat
    BY StoreAssumption
<1>1. ASSUME NEW k \in Kinds \cup PagedKinds, Commit(k)
      PROVE  BooksOK'
    <2> DEFINE row == New(k)
    <2>1. /\ rows' = rows \cup {row} /\ history' = history \cup {row} /\ row \notin history
          /\ view' = NoPage => view = NoPage
          /\ UNCHANGED cut /\ IsFiniteSet(history')
        <3>1. view' = NoPage => view = NoPage
            BY <1>1 DEF Commit, NoPage
        <3> QED
            BY <3>1, <1>1, CommitIs
    <2>2. cube' = Book(cube, row)
        BY <1>1 DEF Commit, New
    <2>3. RowOK(row)
        BY <1>1, KindIsStored
    <2> HIDE DEF row
    <2>4. RowsOK(history')
        BY <2>1, <2>3 DEF BooksOK, RowsOK
    <2>5. ASSUME view' = NoPage
          PROVE  /\ \A r \in history' \ rows' : r.at < cut'.rows
                 /\ CubeTells(cube', history', cut'.cells)
        <3>1. view = NoPage
            BY <2>1, <2>5
        <3>2. Grown(history, row, history')
            BY <2>1 DEF Grown
        <3>3. CubeTells(cube, history, cut.cells)
            BY <3>1 DEF BooksOK
        <3>4. CubeTells(Book(cube, row), history', cut.cells)
            BY <1>0, <2>4, <3>2, <3>3, BookTells
        <3>5. \A r \in history' \ rows' : r \in history \ rows
            BY <2>1
        <3> QED
            BY <2>1, <2>2, <3>1, <3>4, <3>5 DEF BooksOK
    <2> QED
        BY <2>1, <2>4, <2>5 DEF BooksOK
<1>2. ASSUME UNCHANGED <<rows, history, cube, cut>>, view' = NoPage => view = NoPage
      PROVE  BooksOK'
    BY <1>2 DEF BooksOK
<1>3. CASE Tick \/ StartSweep \/ SweepFails
    BY <1>2, <1>3 DEF Tick, StartSweep, SweepFails, dbVars
<1>4. ASSUME NEW s, NEW f, NEW n, OpenList(s, f, n)
      PROVE  BooksOK'
    BY <1>2, <1>4 DEF OpenList, dbVars, NoPage
<1>5. ASSUME NEW seq, NEW b, FrameArrives(seq, b) \/ Publish(seq, b)
      PROVE  BooksOK'
    <2>1. LiveShape /\ view.is = "live"
        BY <1>5 DEF FrameArrives, Publish, Live, LiveOK
    <2>2. view'.is = "live" /\ UNCHANGED <<dbVars, cut>>
        BY <1>5, <2>1 DEF FrameArrives, Publish, Live, LiveShape
    <2> QED
        BY <1>2, <2>2 DEF dbVars, NoPage
<1>6. CASE Connect \/ Disconnect \/ SeedRead \/ SeedArrives
    <2>1. LiveShape /\ view.is = "live"
        BY <1>6 DEF Connect, Disconnect, SeedRead, SeedArrives, Live, LiveOK
    <2>2. view'.is = "live" /\ UNCHANGED <<dbVars, cut>>
        BY <1>6, <2>1 DEF Connect, Disconnect, SeedRead, SeedArrives, Live, LiveShape
    <2> QED
        BY <1>2, <2>2 DEF dbVars, NoPage
<1>10. CASE LoadMore
    <2>1. ListShape /\ view.is = "list"
        BY <1>10 DEF LoadMore, WalkOK
    <2>2. view'.is = "list" /\ UNCHANGED <<dbVars, cut>>
        BY <1>10, <2>1 DEF LoadMore, ListShape
    <2> QED
        BY <1>2, <2>2 DEF dbVars, NoPage
<1>11. CASE OpenLive
    BY <1>2, <1>11 DEF OpenLive, dbVars, NoPage
<1>7. CASE SweepRows
    <2>1. /\ rows' = rows \ Batch /\ UNCHANGED <<cube, history, view>> /\ cut' = Cut("rows", sweep.rows)
          /\ sweep.rows \in Int
        BY <1>7 DEF SweepRows, SweepOK
    <2>2. \A r \in Batch : r.at < sweep.rows
        BY DEF Batch
    <2>3. CASE view = NoPage
        <3>1. cut' = [rows |-> Max({cut.rows, sweep.rows}), cells |-> cut.cells]
            BY <2>1, <2>3 DEF Cut, BooksOK
        <3>2. /\ Max({cut.rows, sweep.rows}) \in Int
              /\ Max({cut.rows, sweep.rows}) >= cut.rows /\ Max({cut.rows, sweep.rows}) >= sweep.rows
            BY <2>1, LaterOf DEF BooksOK
        <3> QED
            BY <2>1, <2>2, <2>3, <3>1, <3>2 DEF BooksOK, RowsOK, RowOK
    <2>4. CASE view # NoPage
        BY <2>1, <2>4 DEF BooksOK, Cut
    <2> QED
        BY <2>3, <2>4
<1>8. CASE SweepCells
    <2> DEFINE left == [c \in {d \in DOMAIN cube : d.hour >= sweep.cells} |-> cube[c]]
    <2>1. /\ cube' = left /\ UNCHANGED <<rows, history, view>> /\ cut' = Cut("cells", sweep.cells)
          /\ sweep.cells \in Int
        BY <1>8 DEF SweepCells, SweepOK
    <2>3. CASE view = NoPage
        <3> DEFINE high == Max({cut.cells, sweep.cells})
        <3>1. cut' = [rows |-> cut.rows, cells |-> high]
            BY <2>1, <2>3 DEF Cut, BooksOK
        <3>2. high \in Int /\ high >= cut.cells /\ high >= sweep.cells
            BY <2>1, LaterOf DEF BooksOK
        <3> HIDE DEF high
        <3>3. CubeTells(left, history, high)
            BY <2>1, <2>3, <3>2, DeletionTells DEF BooksOK
        <3> HIDE DEF left
        <3> QED
            BY <2>1, <2>3, <3>1, <3>2, <3>3 DEF BooksOK
    <2>4. CASE view # NoPage
        BY <2>1, <2>4 DEF BooksOK, Cut
    <2> QED
        BY <2>3, <2>4
<1>9. CASE UNCHANGED storeVars
    BY <1>2, <1>9 DEF storeVars, dbVars
<1> QED
    BY <1>1, <1>3, <1>4, <1>5, <1>6, <1>7, <1>8, <1>9, <1>10, <1>11 DEF StoreNext

\* The books are kept at all times.
LEMMA BooksAlways == StoreSpec => []BooksOK
<1> QED
    BY History, SweepAlways, PageAlways, BooksInit, BooksNext, PTL DEF StoreSpec

-----------------------------------------------------------------------------
(* the figures *)

\* What a report reads is what it tells.
LEMMA StoreIsSeen ==
    ASSUME HistoryOK, BooksOK, view = NoPage, NEW scope, ScopeOK(scope), NEW range, RangeOK(range),
           Retained(range)
    PROVE  Sees(db, history, scope, range, Told(scope, range))
<1> DEFINE S == Told(scope, range)
<1>1. RowsOK(history) /\ NULL \notin Nat /\ NULL # All /\ S \in SUBSET history
    BY StoreAssumption, ReportAssumption DEF BooksOK, Told
<1>2. db.rows = rows /\ db.cube = cube
    BY DEF db
<1>3. ASSUME ReadsRows(range)
      PROVE  RowsIn(db, scope, range) = S
    <2>1. \A r \in history \ rows : r.at < range.from
        <3>1. \A r \in history : r.at \in Int
            BY <1>1 DEF RowsOK, RowOK
        <3>2. range.from >= cut.rows
            BY <1>3 DEF Retained
        <3> QED
            BY <3>1, <3>2 DEF BooksOK, RangeOK
    <2>2. \A r \in history : r.at \in Int /\ r.at < range.from => ~(range.from <= r.at)
        BY DEF RangeOK
    <2>3. rows \subseteq history /\ \A r \in history : r.at \in Int
        BY <1>1 DEF HistoryOK, RowsOK, RowOK
    <2>4. S = {r \in history : /\ InScope(scope, r.user) /\ TagMatches(range, r.tag)
                               /\ range.from <= r.at /\ r.at < range.to}
        BY <1>3 DEF Told, Covers, InScope, TagMatches
    <2> QED
        BY <1>2, <2>1, <2>2, <2>3, <2>4 DEF RowsIn
<1>4. ASSUME ~ReadsRows(range)
      PROVE  cut.cells \in Int /\ Facts(db, history, cut.cells, scope, range)
    <2>1. CubeTells(cube, history, cut.cells) /\ cut.cells \in Int
        BY DEF BooksOK
    <2>2. HourFloor(range.from) >= cut.cells
        BY <1>4 DEF Retained
    <2> QED
        BY <1>1, <1>2, <2>1, <2>2 DEF Facts
<1>5. ASSUME ~ReadsRows(range)
      PROVE  S = InHours(history, scope, range)
    <2>1. \A r \in history : HourFloor(range.from) <= r.at <=> HourFloor(range.from) <= HourFloor(r.at)
        BY <1>1, WholeHours DEF RowsOK, RowOK, RangeOK
    <2> QED
        BY <1>5, <2>1 DEF Told, Covers, InHours, InScope, TagMatches
<1> HIDE DEF S
<1>6. S = Told(scope, range)
    BY DEF S
<1> QED
    BY <1>1, <1>3, <1>4, <1>5, <1>6 DEF Sees

\* A split by what a row's group is.
SplitBy(S, by) == [g \in {GroupOf(r, by) : r \in S} |-> Ledger({r \in S : GroupOf(r, by) = g})]

\* What a row's group is, by each dimension.
LEMMA GroupIs ==
    ASSUME NEW r
    PROVE  /\ GroupOf(r, "user") = OrAll(r.user) /\ GroupOf(r, "model") = OrAll(r.model)
           /\ GroupOf(r, "origin") = OrAll(r.origin) /\ GroupOf(r, "tag") = OrAll(r.tag)
           /\ GroupOf(r, "hour") = HourFloor(r.at)
BY DEF GroupOf

\* The groups are the property's.
LEMMA SplitIs ==
    ASSUME NEW S, \A r \in S : r.origin # NULL
    PROVE  /\ ByGroup(S, "user") = Split(S, LAMBDA r : OrAll(r.user))
           /\ ByGroup(S, "model") = Split(S, LAMBDA r : OrAll(r.model))
           /\ ByGroup(S, "origin") = Split(S, LAMBDA r : r.origin)
           /\ ByGroup(S, "tag") = Split(S, LAMBDA r : OrAll(r.tag))
           /\ ByGroup(S, "hour") = Split(S, LAMBDA r : HourFloor(r.at))
<1>1. \A r \in S : GroupOf(r, "origin") = r.origin
    BY GroupIs DEF OrAll
<1>2. ByGroup(S, "user") = Split(S, LAMBDA r : OrAll(r.user))
    BY GroupIs DEF ByGroup, Groups, GroupIn, Split
<1>3. ByGroup(S, "model") = Split(S, LAMBDA r : OrAll(r.model))
    BY GroupIs DEF ByGroup, Groups, GroupIn, Split
<1>4. ByGroup(S, "origin") = Split(S, LAMBDA r : r.origin)
    <2>1. Groups(S, "origin") = {r.origin : r \in S}
        BY <1>1 DEF Groups
    <2>2. \A g : GroupIn(S, "origin", g) = {r \in S : r.origin = g}
        BY <1>1 DEF GroupIn
    <2> QED
        BY <2>1, <2>2 DEF ByGroup, Split
<1>5. ByGroup(S, "tag") = Split(S, LAMBDA r : OrAll(r.tag))
    BY GroupIs DEF ByGroup, Groups, GroupIn, Split
<1>6. ByGroup(S, "hour") = Split(S, LAMBDA r : HourFloor(r.at))
    BY GroupIs DEF ByGroup, Groups, GroupIn, Split
<1> QED
    BY <1>2, <1>3, <1>4, <1>5, <1>6

\* The state's facts in one: every report tells of what it covers.
LEMMA FiguresFollow ==
    ASSUME HistoryOK, BooksOK
    PROVE  FiguresAgree
<1> SUFFICES ASSUME Settled, NEW scope \in Scopes, NEW range \in Ranges
             PROVE  LET S == Told(scope, range)
                        T == Told(scope, [range EXCEPT !.tag = NULL])
                        origins == UsageByOrigin(db, scope, range)
                    IN  /\ Retained(range) =>
                            /\ UsageTotals(db, scope, range) = Ledger(S)
                            /\ UsageByUser(db, scope, range) = Split(S, LAMBDA r : OrAll(r.user))
                            /\ UsageByModel(db, scope, range) = Split(S, LAMBDA r : OrAll(r.model))
                            /\ [o \in DOMAIN origins |-> origins[o].totals] = Split(S, LAMBDA r : r.origin)
                            /\ \A o \in DOMAIN origins :
                                  origins[o].people = Cardinality({r.user : r \in {s \in S : s.origin = o}} \ {NULL})
                            /\ UsageByTag(db, scope, range) = Split(S, LAMBDA r : OrAll(r.tag))
                            /\ UsageSeries(db, scope, range) = Split(S, LAMBDA r : HourFloor(r.at))
                            /\ TagValues(db, scope, range) =
                                  [v \in {r.tag : r \in T} \ {NULL} |-> Cardinality({r \in T : r.tag = v})]
                        /\ range.from >= cut.rows =>
                            LET exact == {r \in S : range.from <= r.at /\ r.at < range.to}
                                clients == UsageByClient(db, scope, range)
                            IN  /\ SumFunction(ErrorBreakdown(db, scope, range)) = Ledger(exact).errors
                                /\ SumFunction([c \in DOMAIN clients |-> clients[c].requests]) = Cardinality(exact)
                        /\ \A r \in Told(scope, [range EXCEPT !.tag = NULL, !.from = 0]) :
                              r.quota # NULL /\ r.at >= cut.rows =>
                                  Cardinality({q \in LatestQuota(db, scope) : q.user = r.user /\ q.at >= r.at}) = 1
    BY DEF FiguresAgree
<1> DEFINE S == Told(scope, range)
           any == [range EXCEPT !.tag = NULL]
           T == Told(scope, any)
           origins == UsageByOrigin(db, scope, range)
           exact == {r \in S : range.from <= r.at /\ r.at < range.to}
<1>1. /\ view = NoPage /\ ScopeOK(scope) /\ RangeOK(range) /\ RangeOK(any)
      /\ any.from = range.from /\ any.to = range.to /\ NULL # All /\ NULL \notin Nat
    BY ReportAssumption, StoreAssumption DEF Settled, ScopeOK, RangeOK
<1>2. RowsOK(history) /\ S \in SUBSET history /\ rows \subseteq history /\ db.rows = rows
    BY DEF BooksOK, HistoryOK, Told, db
<1>3. ASSUME Retained(range)
      PROVE  Sees(db, history, scope, range, S) /\ Sees(db, history, scope, any, T)
    <2>1. Retained(any)
        BY <1>1, <1>3 DEF Retained, ReadsRows
    <2> HIDE DEF any
    <2> QED
        BY <1>1, <1>3, <2>1, StoreIsSeen
<1>4. ASSUME Retained(range)
      PROVE  /\ UsageTotals(db, scope, range) = Ledger(S)
             /\ UsageByUser(db, scope, range) = Split(S, LAMBDA r : OrAll(r.user))
             /\ UsageByModel(db, scope, range) = Split(S, LAMBDA r : OrAll(r.model))
             /\ Grouped(db, scope, range, "origin") = Split(S, LAMBDA r : r.origin)
             /\ UsageByTag(db, scope, range) = Split(S, LAMBDA r : OrAll(r.tag))
             /\ UsageSeries(db, scope, range) = Split(S, LAMBDA r : HourFloor(r.at))
    <2>1. \A r \in S : r.origin # NULL
        BY <1>2 DEF RowsOK, RowOK
    <2>2. UsageTotals(db, scope, range) = Ledger(S)
        BY <1>3, <1>4, TotalsSeen
    <2>3. /\ UsageByUser(db, scope, range) = ByGroup(S, "user")
          /\ UsageByModel(db, scope, range) = ByGroup(S, "model")
        BY <1>3, <1>4, PeopleAndModelsSeen
    <2>4. \A by \in {"origin", "tag", "hour"} : Grouped(db, scope, range, by) = ByGroup(S, by)
        BY <1>3, <1>4, GroupsSeen
    <2> HIDE DEF S
    <2>5. /\ Grouped(db, scope, range, "origin") = ByGroup(S, "origin")
          /\ UsageByTag(db, scope, range) = ByGroup(S, "tag")
          /\ UsageSeries(db, scope, range) = ByGroup(S, "hour")
        BY <2>4 DEF UsageByTag, UsageSeries
    <2>6. /\ ByGroup(S, "user") = Split(S, LAMBDA r : OrAll(r.user))
          /\ ByGroup(S, "model") = Split(S, LAMBDA r : OrAll(r.model))
          /\ ByGroup(S, "origin") = Split(S, LAMBDA r : r.origin)
          /\ ByGroup(S, "tag") = Split(S, LAMBDA r : OrAll(r.tag))
          /\ ByGroup(S, "hour") = Split(S, LAMBDA r : HourFloor(r.at))
        BY <2>1, SplitIs
    <2> QED
        BY <2>2, <2>3, <2>5, <2>6
<1>5. ASSUME Retained(range)
      PROVE  /\ [o \in DOMAIN origins |-> origins[o].totals] = Split(S, LAMBDA r : r.origin)
             /\ \A o \in DOMAIN origins :
                   origins[o].people = Cardinality({r.user : r \in {s \in S : s.origin = o}} \ {NULL})
    <2> DEFINE parts == Grouped(db, scope, range, "origin")
    <2>1. parts = Split(S, LAMBDA r : r.origin)
        BY <1>4, <1>5
    <2>2. \A o : DistinctUsers(db, scope, range, o) = PeopleOf(S, o)
        BY <1>3, <1>5, PeopleSeen
    <2>3. parts = [o \in DOMAIN parts |-> parts[o]]
        BY <2>1 DEF Split
    <2> HIDE DEF S, parts
    <2>4. origins = [o \in DOMAIN parts |->
                        [totals |-> parts[o], people |-> Cardinality(DistinctUsers(db, scope, range, o))]]
        BY DEF UsageByOrigin, parts
    <2> HIDE DEF origins
    <2>5. /\ DOMAIN origins = DOMAIN parts
          /\ \A o \in DOMAIN parts : origins[o].totals = parts[o] /\ origins[o].people = Cardinality(PeopleOf(S, o))
        BY <2>2, <2>4
    <2>6. [o \in DOMAIN origins |-> origins[o].totals] = parts
        BY <2>3, <2>5
    <2>7. \A o \in DOMAIN origins :
             origins[o].people = Cardinality({r.user : r \in {s \in S : s.origin = o}} \ {NULL})
        BY <2>5 DEF PeopleOf
    <2> QED
        BY <2>1, <2>6, <2>7
<1>6. ASSUME Retained(range)
      PROVE  TagValues(db, scope, range) =
                 [v \in {r.tag : r \in T} \ {NULL} |-> Cardinality({r \in T : r.tag = v})]
    <2>1. Sees(db, history, scope, [range EXCEPT !.tag = NULL], T)
        BY <1>3, <1>6
    <2> HIDE DEF T
    <2>2. TagValues(db, scope, range) = TagCounts(T)
        BY <2>1, TagsSeen
    <2> QED
        BY <2>2 DEF TagCounts
<1>7. ASSUME range.from >= cut.rows
      PROVE  LET clients == UsageByClient(db, scope, range)
             IN  /\ SumFunction(ErrorBreakdown(db, scope, range)) = Ledger(exact).errors
                 /\ SumFunction([c \in DOMAIN clients |-> clients[c].requests]) = Cardinality(exact)
    <2>1. \A r \in history : r.at \in Int
        BY <1>2 DEF RowsOK, RowOK
    <2>2. \A r \in history \ rows : ~(range.from <= r.at)
        BY <1>1, <1>7, <2>1 DEF BooksOK, RangeOK
    <2>3. \A r \in history : range.from <= r.at /\ r.at < range.to => Covers(range, r.at)
        <3>1. ASSUME NEW r \in history, range.from <= r.at, r.at < range.to, ~ReadsRows(range)
              PROVE  HourFloor(range.from) <= r.at /\ HourFloor(r.at) < range.to
            <4>1. range.from \in Int /\ range.to \in Int /\ r.at \in Int
                BY <1>1, <2>1 DEF RangeOK
            <4>2. /\ HourFloor(range.from) \in Int /\ HourFloor(range.from) <= range.from
                  /\ HourFloor(r.at) \in Int /\ HourFloor(r.at) <= r.at
                BY <4>1, HourBounds
            <4> QED
                BY <3>1, <4>1, <4>2
        <3> QED
            BY <3>1 DEF Covers
    <2>4. exact = RowsIn(db, scope, range)
        BY <1>2, <2>2, <2>3 DEF RowsIn, Told, InScope, TagMatches
    <2>5. IsFiniteSet(exact)
        BY <1>2, FS_Subset DEF RowsOK
    <2> HIDE DEF exact
    <2>6. SumFunction(ErrorBreakdown(db, scope, range)) = Ledger(exact).errors
        BY <2>4, <2>5, ErrorsAddUp
    <2> QED
        BY <2>4, <2>5, <2>6, ClientsAddUp
<1>8. ASSUME NEW r \in Told(scope, [range EXCEPT !.tag = NULL, !.from = 0]),
             r.quota # NULL, r.at >= cut.rows
      PROVE  Cardinality({q \in LatestQuota(db, scope) : q.user = r.user /\ q.at >= r.at}) = 1
    <2>1. r \in history /\ InScope(scope, r.user)
        BY <1>8 DEF Told, InScope
    <2>2. r \in rows
        <3>1. r.at \in Int /\ cut.rows \in Int
            BY <1>2, <2>1 DEF RowsOK, RowOK, BooksOK
        <3> QED
            BY <1>1, <1>8, <2>1, <3>1 DEF BooksOK
    <2>3. RowsOK(db.rows)
        BY <1>2, FS_Subset DEF RowsOK
    <2>4. \A q, s \in db.rows : q.seq = s.seq => q = s
        BY <1>2 DEF HistoryOK
    <2> QED
        BY <1>2, <1>8, <2>1, <2>2, <2>3, <2>4, NewestQuota
<1> QED
    BY <1>4, <1>5, <1>6, <1>7, <1>8

\* FiguresAgree, at all times.
LEMMA FiguresAlways == StoreSpec => []FiguresAgree
<1>1. HistoryOK /\ BooksOK => FiguresAgree
    BY FiguresFollow
<1> QED
    BY <1>1, History, BooksAlways, PTL

-----------------------------------------------------------------------------
(* the latency buckets *)

\* Every duration has one bucket.
LEMMA BucketIs ==
    ASSUME NEW d \in Nat
    PROVE  /\ Len(LatUpper) \in Nat
           /\ BucketOf(d) \in 1..(Len(LatUpper) + 1)
           /\ BucketOf(d) = Len(LatUpper) + 1 \/ d < LatUpper[BucketOf(d)]
           /\ \A lower \in 1..(BucketOf(d) - 1) : d >= LatUpper[lower]
<1> DEFINE last == Len(LatUpper)
           fits == {b \in 1..(last + 1) : b = last + 1 \/ d < LatUpper[b]}
<1>1. last \in Nat /\ \A i \in 1..last : LatUpper[i] \in Nat
    BY EdgesAscend
<1>2. BucketOf(d) = CHOOSE b \in 1..(last + 1) :
          /\ b = last + 1 \/ d < LatUpper[b]
          /\ \A lower \in 1..(b - 1) : d >= LatUpper[lower]
    BY DEF BucketOf, Buckets
<1> HIDE DEF last
<1>3. fits \in SUBSET Nat /\ fits # {}
    <2>1. last + 1 \in fits
        BY <1>1
    <2> QED
        BY <1>1, <2>1
<1>4. PICK b \in fits : \A m \in fits : b <= m
    BY <1>3, LeastOf
<1>5. ASSUME NEW lower \in 1..(b - 1)
      PROVE  d >= LatUpper[lower]
    <2>1. lower \in 1..last /\ lower \notin fits
        BY <1>1, <1>4, <1>5
    <2> QED
        BY <1>1, <2>1
<1>6. \E x \in 1..(last + 1) :
          /\ x = last + 1 \/ d < LatUpper[x]
          /\ \A lower \in 1..(x - 1) : d >= LatUpper[lower]
    BY <1>4, <1>5
<1>7. /\ BucketOf(d) \in 1..(last + 1)
      /\ BucketOf(d) = last + 1 \/ d < LatUpper[BucketOf(d)]
      /\ \A lower \in 1..(BucketOf(d) - 1) : d >= LatUpper[lower]
    BY <1>2, <1>6
<1> QED
    BY <1>1, <1>7 DEF last

\* A bucket holds what is below its upper edge, and a later one nothing of it.
LEMMA BucketBelow ==
    ASSUME NEW d \in Nat, NEW b \in 1..Len(LatUpper)
    PROVE  BucketOf(d) \in Nat /\ (BucketOf(d) <= b <=> d < LatUpper[b])
<1> DEFINE last == Len(LatUpper)
           x == BucketOf(d)
<1>1. /\ last \in Nat /\ \A i \in 1..last : LatUpper[i] \in Nat
      /\ \A i, j \in 1..last : i < j => LatUpper[i] < LatUpper[j]
    BY EdgesAscend
<1>2. /\ x \in 1..(last + 1) /\ (x = last + 1 \/ d < LatUpper[x])
      /\ \A lower \in 1..(x - 1) : d >= LatUpper[lower]
    BY BucketIs
<1>3. b \in 1..last
    OBVIOUS
<1> HIDE DEF last, x
<1>4. ASSUME x <= b
      PROVE  d < LatUpper[b]
    <2>1. x \in 1..last /\ d < LatUpper[x] /\ LatUpper[x] \in Nat /\ LatUpper[b] \in Nat
        BY <1>1, <1>2, <1>3, <1>4
    <2>2. x = b \/ LatUpper[x] < LatUpper[b]
        BY <1>1, <1>3, <1>4, <2>1
    <2> QED
        BY <2>1, <2>2
<1>5. ASSUME ~(x <= b)
      PROVE  ~(d < LatUpper[b])
    <2>1. b \in 1..(x - 1)
        BY <1>1, <1>2, <1>3, <1>5
    <2> QED
        BY <1>1, <1>2, <1>3, <2>1
<1>6. x \in Nat /\ (x <= b <=> d < LatUpper[b])
    BY <1>1, <1>2, <1>3, <1>4, <1>5
<1> QED
    BY <1>6 DEF x

\* The edges of the bucket a duration is in.
LEMMA BucketAround ==
    ASSUME NEW d \in Nat
    PROVE  /\ LatLower(BucketOf(d)) \in Nat /\ LatLower(BucketOf(d)) <= d
           /\ BucketOf(d) <= Len(LatUpper) =>
                 LatUpper[BucketOf(d)] \in Nat /\ d < LatUpper[BucketOf(d)]
<1> DEFINE last == Len(LatUpper)
           x == BucketOf(d)
<1>1. last \in Nat /\ \A i \in 1..last : LatUpper[i] \in Nat
    BY EdgesAscend
<1>2. /\ x \in 1..(last + 1) /\ (x = last + 1 \/ d < LatUpper[x])
      /\ \A lower \in 1..(x - 1) : d >= LatUpper[lower]
    BY BucketIs
<1> HIDE DEF last, x
<1>3. LatLower(x) \in Nat /\ LatLower(x) <= d
    <2>1. CASE x = 1
        BY <2>1 DEF LatLower
    <2>2. CASE x # 1
        <3>1. LatLower(x) = LatUpper[x - 1] /\ x - 1 \in 1..last /\ x - 1 \in 1..(x - 1)
            BY <1>1, <1>2, <2>2 DEF LatLower
        <3> QED
            BY <1>1, <1>2, <3>1
    <2> QED
        BY <2>1, <2>2
<1>4. x <= last => LatUpper[x] \in Nat /\ d < LatUpper[x]
    BY <1>1, <1>2
<1> QED
    BY <1>3, <1>4 DEF x, last

-----------------------------------------------------------------------------
\* The rows of a report that took at most so long, and less.
AtMost(S, d) == {r \in S : r.duration <= d}
Faster(S, d) == {r \in S : r.duration < d}

RankTaken(S, k, d) ==
    /\ d \in Nat /\ d \in {r.duration : r \in S}
    /\ Cardinality(Faster(S, d)) < k
    /\ k <= Cardinality(AtMost(S, d))

\* There is a duration at every rank.
LEMMA RankIsTaken ==
    ASSUME NEW S, IsFiniteSet(S), \A r \in S : r.duration \in Nat, NEW k \in 1..Cardinality(S)
    PROVE  RankTaken(S, k, AtRank(S, k))
<1> DEFINE w == [r \in S |-> r.duration]
           all == SumFunctionOnSet(w, S)
           enough == {m \in Nat : k <= Cardinality(AtMost(S, m))}
<1>0. \A r \in S : w[r] = r.duration
    OBVIOUS
<1> HIDE DEF w
<1>1. \A d : /\ IsFiniteSet(AtMost(S, d)) /\ Cardinality(AtMost(S, d)) \in Nat
             /\ IsFiniteSet(Faster(S, d)) /\ Cardinality(Faster(S, d)) \in Nat
    <2>1. \A d : AtMost(S, d) \subseteq S /\ Faster(S, d) \subseteq S
        BY DEF AtMost, Faster
    <2> QED
        BY <2>1, FS_Subset, FS_CardinalityType
<1>2. all \in Nat /\ \A r \in S : r.duration <= all
    <2>1. \A r \in S : w[r] \in Nat
        BY <1>0
    <2>2. Summed(w, S) /\ all \in Nat
        BY <2>1, SumNat
    <2>3. ASSUME NEW r \in S
          PROVE  r.duration <= all
        <3>1. SumTakes(w, S, r)
            BY <2>2, SumTake
        <3>2. IsFiniteSet(S \ {r})
            BY FS_Subset
        <3>3. SumFunctionOnSet(w, S \ {r}) \in Nat
            BY <2>1, <3>2, SumNat
        <3> QED
            BY <1>0, <2>1, <2>2, <3>1, <3>3 DEF SumTakes
    <2> QED
        BY <2>2, <2>3
<1>3. enough \in SUBSET Nat /\ all \in enough
    <2>1. AtMost(S, all) = S
        BY <1>2 DEF AtMost
    <2>2. Cardinality(S) \in Nat
        BY FS_CardinalityType
    <2> HIDE DEF all
    <2> QED
        BY <1>2, <2>1, <2>2
<1> HIDE DEF all
<1>4. PICK d \in enough : \A m \in enough : d <= m
    BY <1>3, LeastOf
<1>5. d \in Nat /\ k <= Cardinality(AtMost(S, d)) /\ k \in Nat /\ k > 0
    <2>1. Cardinality(S) \in Nat
        BY FS_CardinalityType
    <2> QED
        BY <1>4, <2>1
<1>6. Cardinality(Faster(S, d)) < k
    <2>1. CASE d = 0
        <3>1. Faster(S, d) = {}
            BY <2>1 DEF Faster
        <3> QED
            BY <1>5, <3>1, FS_EmptySet
    <2>2. CASE d # 0
        <3>1. d - 1 \in Nat /\ ~(d <= d - 1)
            BY <1>5, <2>2
        <3>2. d - 1 \notin enough
            BY <1>4, <3>1
        <3>3. ~(k <= Cardinality(AtMost(S, d - 1)))
            BY <3>1, <3>2
        <3>4. Faster(S, d) = AtMost(S, d - 1)
            BY <1>5, <3>1 DEF Faster, AtMost
        <3> QED
            BY <1>1, <1>5, <3>3, <3>4
    <2> QED
        BY <2>1, <2>2
<1>7. d \in {r.duration : r \in S}
    <2>1. ASSUME d \notin {r.duration : r \in S}
          PROVE  FALSE
        <3>1. Faster(S, d) = AtMost(S, d)
            BY <1>5, <2>1 DEF Faster, AtMost
        <3> QED
            BY <1>1, <1>5, <1>6, <3>1
    <2> QED
        BY <2>1
<1>8. \E x \in {r.duration : r \in S} :
          Cardinality({r \in S : r.duration < x}) < k /\ k <= Cardinality({r \in S : r.duration <= x})
    BY <1>5, <1>6, <1>7 DEF Faster, AtMost
<1>9. /\ AtRank(S, k) \in {r.duration : r \in S}
      /\ Cardinality({r \in S : r.duration < AtRank(S, k)}) < k
      /\ k <= Cardinality({r \in S : r.duration <= AtRank(S, k)})
    BY <1>8 DEF AtRank
<1> QED
    BY <1>9 DEF RankTaken, Faster, AtMost

-----------------------------------------------------------------------------
(* ranks *)

Timed(S) == IsFiniteSet(S) /\ \A r \in S : r.duration \in Nat
InBucket(S, b) == {r \in S : BucketOf(r.duration) = b}
InFirst(S, c) == {r \in S : BucketOf(r.duration) <= c}
LatTold(S) == [b \in Buckets |-> Cardinality(InBucket(S, b))]

\* The buckets cumulate to how many are in the first of them.
LEMMA LatCumulates ==
    ASSUME NEW S, Timed(S), NEW c \in 0..(Len(LatUpper) + 1)
    PROVE  /\ SumFunctionOnSet(LatTold(S), 1..c) = Cardinality(InFirst(S, c))
           /\ Cardinality(InFirst(S, c)) \in Nat
<1> DEFINE last == Len(LatUpper)
           T == InFirst(S, c)
           k == [r \in T |-> BucketOf(r.duration)]
           v == LatTold(S)
<1>1. last \in Nat
    BY EdgesAscend
<1>2. Buckets = 1..(last + 1)
    BY DEF Buckets
<1>3. \A r \in S : BucketOf(r.duration) \in 1..(last + 1)
    BY BucketIs DEF Timed
<1> HIDE DEF last
<1>4. c \in 0..(last + 1)
    BY DEF last
<1>5. IsFiniteSet(T) /\ T \subseteq S
    BY FS_Subset DEF Timed, InFirst
<1>6. \A r \in T : k[r] = BucketOf(r.duration)
    OBVIOUS
<1> HIDE DEF k
<1>7. \A r \in T : k[r] \in 1..c
    BY <1>1, <1>3, <1>4, <1>5, <1>6 DEF InFirst
<1>8. \A g \in 1..c : v[g] = Cardinality(Where(T, k, g))
    <2>1. ASSUME NEW g \in 1..c
          PROVE  v[g] = Cardinality(Where(T, k, g))
        <3>1. g \in Buckets /\ g <= c
            BY <1>1, <1>2, <1>4, <2>1
        <3>2. Where(T, k, g) = InBucket(S, g)
            BY <1>5, <1>6, <3>1 DEF Where, InBucket, InFirst
        <3> QED
            BY <3>1, <3>2 DEF LatTold
    <2> QED
        BY <2>1
<1>9. IsFiniteSet(1..c) /\ Cardinality(T) \in Nat
    BY <1>1, <1>4, <1>5, FS_Interval, FS_CardinalityType
<1> HIDE DEF T, v
<1>10. SumFunctionOnSet(v, 1..c) = Cardinality(T)
    BY <1>5, <1>7, <1>8, <1>9, PartsAddUp
<1> QED
    BY <1>9, <1>10 DEF T, v

Percentages == {<<1, 2>>, <<19, 20>>}

\* The lesser of two numbers.
LEMMA EarlierOf ==
    ASSUME NEW a \in Int, NEW b \in Int
    PROVE  Min({a, b}) = IF a <= b THEN a ELSE b
<1>1. \E x \in {a, b} : \A y \in {a, b} : x <= y
    OBVIOUS
<1>2. Min({a, b}) \in {a, b} /\ \A y \in {a, b} : Min({a, b}) <= y
    BY <1>1 DEF Min
<1> QED
    BY <1>2

\* The nearest rank is the least that reaches the share.
Reaches(p, n, k) ==
    /\ k \in 1..n
    /\ \A m \in Nat : p[2] * m >= p[1] * n <=> m >= k

\* The nearest rank is the least number of rows that reaches the share, for the
\* two percentiles that are shown.
LEMMA RankReaches ==
    ASSUME NEW n \in Nat \ {0}, NEW p \in Percentages
    PROVE  Reaches(p, n, Rank(p, n))
<1>1. CASE p = <<1, 2>>
    <2> DEFINE q == (n + 1) \div 2
    <2>0. p[1] = 1 /\ p[2] = 2
        BY <1>1
    <2>1. q \in 1..n /\ \A m \in Nat : 2 * m >= n <=> m >= q
        OBVIOUS
    <2>2. (p[1] * n + p[2] - 1) \div p[2] = q
        BY <2>0
    <2> HIDE DEF q
    <2>3. Min({q, n}) = q
        BY <2>1, EarlierOf
    <2>4. Max({1, q}) = q
        <3>1. Max({1, q}) >= q /\ Max({1, q}) \in {1, q} /\ Max({1, q}) >= 1
            <4>1. \E x \in {1, q} : \A y \in {1, q} : x >= y
                BY <2>1
            <4> QED
                BY <4>1 DEF Max
        <3> QED
            BY <2>1, <3>1
    <2>5. Rank(p, n) = q
        BY <2>2, <2>3, <2>4 DEF Rank
    <2> QED
        BY <2>0, <2>1, <2>5 DEF Reaches
<1>2. CASE p = <<19, 20>>
    <2> DEFINE q == (19 * n + 19) \div 20
    <2>0. p[1] = 19 /\ p[2] = 20
        BY <1>2
    <2>1. q \in 1..n /\ \A m \in Nat : 20 * m >= 19 * n <=> m >= q
        OBVIOUS
    <2>2. (p[1] * n + p[2] - 1) \div p[2] = q
        BY <2>0
    <2> HIDE DEF q
    <2>3. Min({q, n}) = q
        BY <2>1, EarlierOf
    <2>4. Max({1, q}) = q
        <3>1. Max({1, q}) >= q /\ Max({1, q}) \in {1, q} /\ Max({1, q}) >= 1
            <4>1. \E x \in {1, q} : \A y \in {1, q} : x >= y
                BY <2>1
            <4> QED
                BY <4>1 DEF Max
        <3> QED
            BY <2>1, <3>1
    <2>5. Rank(p, n) = q
        BY <2>2, <2>3, <2>4 DEF Rank
    <2> QED
        BY <2>0, <2>1, <2>5 DEF Reaches
<1> QED
    BY <1>1, <1>2 DEF Percentages

\* A share of a width is not wider.
LEMMA ShareOfWidth ==
    ASSUME NEW x \in Nat, NEW y \in Nat, y > 0, x <= y, NEW width \in Nat
    PROVE  (x * width) \div y \in 0..width
<1> DEFINE q == (x * width) \div y
<1>1. q \in Int /\ y * q <= x * width /\ x * width < y * (q + 1)
    OBVIOUS
<1>2. x * width \in Nat /\ x * width <= y * width
    OBVIOUS
<1> HIDE DEF q
<1>3. q >= 0
    <2>1. ASSUME q + 1 <= 0
          PROVE  FALSE
        <3>1. y * (q + 1) <= 0
            BY <1>1, <2>1
        <3> QED
            BY <1>1, <1>2, <3>1
    <2> QED
        BY <1>1, <2>1
<1>4. q <= width
    <2>1. ASSUME q >= width + 1
          PROVE  FALSE
        <3>1. y * q >= y * width + y
            BY <1>1, <2>1
        <3> QED
            BY <1>1, <1>2, <3>1
    <2> QED
        BY <1>1, <2>1
<1>5. q \in 0..width
    BY <1>1, <1>3, <1>4
<1> QED
    BY <1>5 DEF q

-----------------------------------------------------------------------------
(* where an estimate lands *)

\* The bucket that the duration of a rank is in.
RankBucket(S, p) == BucketOf(AtRank(S, Rank(p, Cardinality(S))))

\* A bucket holds the rank when fewer come before it, and enough in it.
Holds(S, k, b) ==
    /\ b \in 1..(Len(LatUpper) + 1)
    /\ Cardinality(InFirst(S, b - 1)) < k
    /\ k <= Cardinality(InFirst(S, b))

\* More buckets hold no fewer rows.
LEMMA FirstGrows ==
    ASSUME NEW S, Timed(S), NEW a, NEW b, InFirst(S, a) \subseteq InFirst(S, b)
    PROVE  /\ Cardinality(InFirst(S, a)) \in Nat /\ Cardinality(InFirst(S, b)) \in Nat
           /\ Cardinality(InFirst(S, a)) <= Cardinality(InFirst(S, b))
<1>1. InFirst(S, a) \subseteq S /\ InFirst(S, b) \subseteq S
    BY DEF InFirst
<1>2. IsFiniteSet(InFirst(S, a)) /\ IsFiniteSet(InFirst(S, b))
    BY <1>1, FS_Subset DEF Timed
<1> QED
    BY <1>2, FS_CardinalityType, FS_Subset

\* The bucket of the duration at a rank is the one the cumulated counts reach
\* the rank in.
LEMMA RankBucketHolds ==
    ASSUME NEW S, Timed(S), NEW k \in 1..Cardinality(S)
    PROVE  Holds(S, k, BucketOf(AtRank(S, k)))
<1> DEFINE d == AtRank(S, k)
           b == BucketOf(d)
           last == Len(LatUpper)
<1>1. RankTaken(S, k, d)
    BY RankIsTaken DEF Timed
<1>2. d \in Nat
    BY <1>1 DEF RankTaken
<1> HIDE DEF d
<1>3. /\ last \in Nat /\ b \in 1..(last + 1) /\ (b = last + 1 \/ d < LatUpper[b])
      /\ \A lower \in 1..(b - 1) : d >= LatUpper[lower]
    BY <1>2, BucketIs
<1>4. \A r \in S : r.duration \in Nat /\ BucketOf(r.duration) \in 1..(last + 1)
    BY BucketIs DEF Timed
<1>5. \A i \in 1..last : LatUpper[i] \in Nat
    BY EdgesAscend
<1>6. \A r \in S, i \in 1..last : BucketOf(r.duration) <= i <=> r.duration < LatUpper[i]
    BY <1>4, BucketBelow
<1> HIDE DEF b, last
<1>7. InFirst(S, b - 1) \subseteq Faster(S, d)
    <2>1. ASSUME NEW r \in S, BucketOf(r.duration) <= b - 1
          PROVE  r.duration < d
        <3>1. b - 1 \in 1..last /\ b - 1 \in 1..(b - 1)
            BY <1>3, <1>4, <2>1
        <3> QED
            BY <1>2, <1>3, <1>4, <1>5, <1>6, <2>1, <3>1
    <2> QED
        BY <2>1 DEF InFirst, Faster
<1>8. AtMost(S, d) \subseteq InFirst(S, b)
    <2>1. ASSUME NEW r \in S, r.duration <= d
          PROVE  BucketOf(r.duration) <= b
        <3>1. CASE b = last + 1
            BY <1>3, <1>4, <3>1
        <3>2. CASE b # last + 1
            <4>1. b \in 1..last
                BY <1>3, <3>2
            <4> QED
                BY <1>2, <1>3, <1>4, <1>5, <1>6, <2>1, <4>1
        <3> QED
            BY <3>1, <3>2
    <2> QED
        BY <2>1 DEF InFirst, AtMost
<1>9. \A T \in SUBSET S : IsFiniteSet(T) /\ Cardinality(T) \in Nat
    BY FS_Subset, FS_CardinalityType DEF Timed
<1>10. /\ Faster(S, d) \in SUBSET S /\ AtMost(S, d) \in SUBSET S
       /\ InFirst(S, b - 1) \in SUBSET S /\ InFirst(S, b) \in SUBSET S
    BY DEF Faster, AtMost, InFirst
<1>11. /\ Cardinality(InFirst(S, b - 1)) <= Cardinality(Faster(S, d))
       /\ Cardinality(AtMost(S, d)) <= Cardinality(InFirst(S, b))
    BY <1>7, <1>8, <1>9, <1>10, FS_Subset
<1>12. Cardinality(Faster(S, d)) < k /\ k <= Cardinality(AtMost(S, d))
    BY <1>1 DEF RankTaken
<1>13. /\ Cardinality(Faster(S, d)) \in Nat /\ Cardinality(AtMost(S, d)) \in Nat
       /\ Cardinality(InFirst(S, b - 1)) \in Nat /\ Cardinality(InFirst(S, b)) \in Nat
       /\ k \in Nat
    <2>1. Cardinality(S) \in Nat
        BY FS_CardinalityType DEF Timed
    <2> QED
        BY <1>9, <1>10, <2>1
<1>14. Cardinality(InFirst(S, b - 1)) < k /\ k <= Cardinality(InFirst(S, b))
    BY <1>11, <1>12, <1>13
<1>15. Holds(S, k, b)
    BY <1>3, <1>14 DEF Holds, last
<1> QED
    BY <1>15 DEF b, d

\* Only one bucket does.
LEMMA OneHolds ==
    ASSUME NEW S, Timed(S), NEW k \in Int, NEW b, NEW c, Holds(S, k, b), Holds(S, k, c)
    PROVE  b = c
<1>0. Len(LatUpper) \in Nat
    BY EdgesAscend
<1>1. b \in Int /\ c \in Int
    BY <1>0 DEF Holds
<1>2. \A r \in S : BucketOf(r.duration) \in Int
    BY <1>0, BucketIs DEF Timed
<1>3. ASSUME NEW x \in Int, NEW y \in Int, x < y, Holds(S, k, x), Holds(S, k, y)
      PROVE  FALSE
    <2>1. InFirst(S, x) \subseteq InFirst(S, y - 1)
        BY <1>2, <1>3 DEF InFirst
    <2> HIDE DEF InFirst
    <2>2. /\ Cardinality(InFirst(S, x)) <= Cardinality(InFirst(S, y - 1))
          /\ Cardinality(InFirst(S, x)) \in Nat /\ Cardinality(InFirst(S, y - 1)) \in Nat
        BY <2>1, FirstGrows
    <2>3. k <= Cardinality(InFirst(S, x)) /\ Cardinality(InFirst(S, y - 1)) < k
        BY <1>3 DEF Holds
    <2> QED
        BY <2>2, <2>3
<1>4. ~(b < c) /\ ~(c < b)
    BY <1>1, <1>3
<1> QED
    BY <1>1, <1>4

\* Where the estimate lands is where the rank is.
LEMMA LandsWhereRankIs ==
    ASSUME NEW S, Timed(S), S # {}, NEW p \in Percentages
    PROVE  /\ RankBucket(S, p) \in Buckets
           /\ \A c \in Buckets : Lands(LatTold(S), p, c) <=> c = RankBucket(S, p)
<1> DEFINE n == Cardinality(S)
           k == Rank(p, n)
           last == Len(LatUpper)
           lat == LatTold(S)
           b == RankBucket(S, p)
<1>1. n \in Nat \ {0}
    BY FS_CardinalityType, FS_EmptySet DEF Timed
<1>2. Reaches(p, n, k)
    BY <1>1, RankReaches
<1>3. k \in 1..n /\ k \in Int
    BY <1>1, <1>2 DEF Reaches
<1>4. Holds(S, k, b)
    BY <1>3, RankBucketHolds DEF RankBucket
<1>5. last \in Nat /\ Buckets = 1..(last + 1)
    BY EdgesAscend DEF Buckets
<1>6. InFirst(S, last + 1) = S
    <2>1. \A r \in S : BucketOf(r.duration) \in 1..(last + 1)
        BY BucketIs DEF Timed
    <2> QED
        BY <1>5, <2>1 DEF InFirst
<1>7. \A c \in 0..(last + 1) : /\ SumFunctionOnSet(lat, 1..c) = Cardinality(InFirst(S, c))
                               /\ Cardinality(InFirst(S, c)) \in Nat
    BY LatCumulates
<1>8. p[1] \in Nat /\ p[2] \in Nat
    BY DEF Percentages
<1> HIDE DEF n, k, last, b, lat
<1>9. ASSUME NEW c \in Buckets
      PROVE  Lands(lat, p, c) <=> c = b
    <2> DEFINE upto == Cardinality(InFirst(S, c))
               before == Cardinality(InFirst(S, c - 1))
    <2>1. c \in 0..(last + 1) /\ c - 1 \in 0..(last + 1) /\ last + 1 \in 0..(last + 1)
        BY <1>5, <1>9
    <2>2. /\ SumFunctionOnSet(lat, 1..c) = upto /\ upto \in Nat
          /\ SumFunctionOnSet(lat, 1..(c - 1)) = before /\ before \in Nat
          /\ SumFunctionOnSet(lat, 1..(last + 1)) = n
        BY <1>6, <1>7, <2>1 DEF n
    <2>3. lat[c] = upto - before
        <3>1. /\ InFirst(S, c) = InFirst(S, c - 1) \cup InBucket(S, c)
              /\ InFirst(S, c - 1) \cap InBucket(S, c) = {}
            <4>1. \A r \in S : BucketOf(r.duration) \in 1..(last + 1)
                BY BucketIs DEF Timed, last
            <4>2. c \in Int
                BY <1>5, <1>9
            <4>3. \A r \in S : /\ BucketOf(r.duration) <= c <=>
                                      BucketOf(r.duration) <= c - 1 \/ BucketOf(r.duration) = c
                               /\ ~(BucketOf(r.duration) <= c - 1 /\ BucketOf(r.duration) = c)
                BY <1>5, <4>1, <4>2
            <4> QED
                BY <4>3 DEF InFirst, InBucket
        <3>2. IsFiniteSet(InFirst(S, c - 1)) /\ IsFiniteSet(InBucket(S, c))
            BY FS_Subset DEF Timed, InFirst, InBucket
        <3>3. InFirst(S, c - 1) \cap InBucket(S, c) = {} /\ Cardinality({}) = 0
            BY <3>1, FS_EmptySet
        <3>4. Cardinality(InBucket(S, c)) \in Nat
            BY <3>2, FS_CardinalityType
        <3>5. Cardinality(InFirst(S, c - 1) \cup InBucket(S, c)) =
                  before + Cardinality(InBucket(S, c)) - Cardinality(InFirst(S, c - 1) \cap InBucket(S, c))
            BY <3>2, FS_Union
        <3>6. lat[c] = Cardinality(InBucket(S, c))
            BY <1>9 DEF LatTold, lat
        <3>7. upto = Cardinality(InFirst(S, c - 1) \cup InBucket(S, c))
            BY <3>1
        <3>8. Cardinality(InFirst(S, c - 1) \cap InBucket(S, c)) = 0
            BY <3>3
        <3> HIDE DEF upto, before
        <3> DEFINE both == Cardinality(InFirst(S, c - 1) \cup InBucket(S, c))
                   shared == Cardinality(InFirst(S, c - 1) \cap InBucket(S, c))
                   here == Cardinality(InBucket(S, c))
        <3> HIDE DEF both, shared, here
        <3>9. upto = both /\ shared = 0 /\ both = before + here - shared /\ lat[c] = here /\ here \in Nat
            BY <3>4, <3>5, <3>6, <3>7, <3>8 DEF both, shared, here
        <3> QED
            BY <2>2, <3>9
    <2>4. Lands(lat, p, c) <=> /\ lat[c] > 0
                               /\ p[2] * upto >= p[1] * n
                               /\ p[2] * before < p[1] * n
        BY <2>2 DEF Lands, last
    <2> HIDE DEF upto, before
    <2>5. /\ p[2] * upto >= p[1] * n <=> upto >= k
          /\ p[2] * before >= p[1] * n <=> before >= k
        BY <1>2, <2>2 DEF Reaches
    <2>6. p[2] * before < p[1] * n <=> ~(p[2] * before >= p[1] * n)
        <3>1. p[2] * before \in Int /\ p[1] * n \in Int
            BY <1>1, <1>8, <2>2
        <3> QED
            BY <3>1
    <2>7. Lands(lat, p, c) <=> before < k /\ k <= upto
        BY <1>3, <2>2, <2>3, <2>4, <2>5, <2>6
    <2>8. Lands(lat, p, c) <=> Holds(S, k, c)
        BY <1>5, <1>9, <2>7 DEF Holds, upto, before, last
    <2> QED
        BY <1>3, <1>4, <2>8, OneHolds
<1>10. b \in Buckets
    BY <1>4, <1>5 DEF Holds, last
<1> QED
    BY <1>9, <1>10 DEF b, lat

-----------------------------------------------------------------------------
(* the estimate *)

NearOf(estimate, b) ==
    /\ estimate >= LatLower(b)
    /\ b <= Len(LatUpper) => estimate <= LatUpper[b]

\* The buckets hold every row.
LEMMA LatTotal ==
    ASSUME NEW S, Timed(S)
    PROVE  SumFunction(LatTold(S)) = Cardinality(S)
<1>1. Len(LatUpper) \in Nat /\ Buckets = 1..(Len(LatUpper) + 1)
    BY EdgesAscend DEF Buckets
<1>2. InFirst(S, Len(LatUpper) + 1) = S
    <2>1. \A r \in S : BucketOf(r.duration) \in 1..(Len(LatUpper) + 1)
        BY BucketIs DEF Timed
    <2> QED
        BY <1>1, <2>1 DEF InFirst
<1>3. SumFunctionOnSet(LatTold(S), 1..(Len(LatUpper) + 1)) = Cardinality(InFirst(S, Len(LatUpper) + 1))
    BY <1>1, LatCumulates
<1>4. SumFunction(LatTold(S)) = SumFunctionOnSet(LatTold(S), DOMAIN LatTold(S))
    BY DEF SumFunction, SumFunctionOnSet
<1>5. DOMAIN LatTold(S) = 1..(Len(LatUpper) + 1)
    BY <1>1 DEF LatTold
<1> QED
    BY <1>2, <1>3, <1>4, <1>5

\* The estimate stays in its bucket.
LEMMA EstimateNear ==
    ASSUME NEW S, Timed(S), S # {}, NEW p \in Percentages
    PROVE  NearOf(InterpolatePercentile(LatTold(S), p), RankBucket(S, p))
<1> DEFINE lat == LatTold(S)
           b == RankBucket(S, p)
           n == Cardinality(S)
           last == Len(LatUpper)
           before == SumFunctionOnSet(lat, 1..(b - 1))
           upto == SumFunctionOnSet(lat, 1..b)
           all == SumFunctionOnSet(lat, 1..(last + 1))
           x == p[1] * n - p[2] * before
           y == p[2] * lat[b]
           width == LatUpper[b] - LatLower(b)
           estimate == InterpolatePercentile(lat, p)
<1>1. n \in Nat \ {0}
    BY FS_CardinalityType, FS_EmptySet DEF Timed
<1>2. SumFunction(lat) = n
    BY LatTotal
<1>3. last \in Nat /\ Buckets = 1..(last + 1)
    BY EdgesAscend DEF Buckets
<1>4. b \in Buckets /\ \A c \in Buckets : Lands(lat, p, c) <=> c = b
    BY LandsWhereRankIs
<1>5. p[1] \in Nat /\ p[2] \in Nat /\ p[2] > 0
    BY DEF Percentages
<1>6. all = n
    <2>1. SumFunction(lat) = SumFunctionOnSet(lat, DOMAIN lat)
        BY DEF SumFunction, SumFunctionOnSet
    <2>2. DOMAIN lat = 1..(last + 1)
        BY <1>3 DEF LatTold
    <2> QED
        BY <1>2, <2>1, <2>2
<1>7. before \in Nat /\ upto \in Nat /\ upto = before + lat[b] /\ lat[b] \in Nat
    <2>1. b - 1 \in 0..(last + 1) /\ b \in 0..(last + 1) /\ b \in Int
        BY <1>3, <1>4
    <2>2. /\ before = Cardinality(InFirst(S, b - 1)) /\ Cardinality(InFirst(S, b - 1)) \in Nat
          /\ upto = Cardinality(InFirst(S, b)) /\ Cardinality(InFirst(S, b)) \in Nat
        <3> HIDE DEF b
        <3> QED
            BY <2>1, LatCumulates
    <2>3. \A c \in 1..(last + 1) : lat[c] \in Nat
        <3>1. \A c : IsFiniteSet(InBucket(S, c))
            BY FS_Subset DEF Timed, InBucket
        <3>2. \A c : Cardinality(InBucket(S, c)) \in Nat
            BY <3>1, FS_CardinalityType
        <3> QED
            BY <1>3, <3>2 DEF LatTold
    <2> HIDE DEF b, lat, last
    <2>4. Summed(lat, 1..b)
        <3>1. IsFiniteSet(1..b)
            BY <2>1, FS_Interval
        <3>2. \A c \in 1..b : lat[c] \in Nat
            BY <1>3, <1>4, <2>1, <2>3
        <3> QED
            BY <3>1, <3>2, SumNat
    <2>5. b \in 1..b /\ (1..b) \ {b} = 1..(b - 1)
        BY <1>3, <1>4, <2>1
    <2>6. SumTakes(lat, 1..b, b)
        BY <2>4, <2>5, SumTake
    <2>7. upto = lat[b] + before
        BY <2>5, <2>6 DEF SumTakes
    <2>8. lat[b] \in Nat
        BY <1>3, <1>4, <2>3
    <2>9. before \in Nat /\ upto \in Nat
        BY <2>2
    <2> HIDE DEF before, upto
    <2> QED
        BY <2>7, <2>8, <2>9
<1>8. Lands(lat, p, b)
    BY <1>4
<1>9. lat[b] > 0 /\ p[2] * upto >= p[1] * n /\ p[2] * before < p[1] * n
    <2>1. lat[b] > 0 /\ p[2] * upto >= p[1] * all /\ p[2] * before < p[1] * all
        BY <1>8 DEF Lands
    <2> HIDE DEF upto, before, all
    <2> QED
        BY <1>6, <2>1
<1>10. b = CHOOSE c \in Buckets : Lands(lat, p, c)
    <2> HIDE DEF lat, b
    <2> QED
        BY <1>4
<1>11. estimate = IF n = 0 THEN NULL
                  ELSE IF b = last + 1 THEN LatLower(b)
                  ELSE LatLower(b) + (x * width) \div y
    <2> HIDE DEF lat, b
    <2> QED
        BY <1>2, <1>10 DEF InterpolatePercentile
<1>12. x \in Nat /\ y \in Nat /\ y > 0 /\ x <= y
    <2> HIDE DEF before, upto, lat, n, b
    <2>1. p[1] * n \in Nat /\ p[2] * before \in Nat /\ p[2] * upto \in Nat
        BY <1>1, <1>5, <1>7
    <2>2. p[2] * upto = p[2] * before + p[2] * lat[b]
        BY <1>5, <1>7
    <2>3. p[2] * lat[b] \in Nat /\ p[2] * lat[b] > 0
        BY <1>5, <1>7, <1>9
    <2> QED
        BY <1>9, <2>1, <2>2, <2>3
<1>13. LatLower(b) \in Nat /\ (b <= last => LatUpper[b] \in Nat /\ LatLower(b) <= LatUpper[b])
    <2> DEFINE k == Rank(p, n)
    <2>1. k \in 1..n
        BY <1>1, RankReaches DEF Reaches
    <2>2. RankTaken(S, k, AtRank(S, k))
        BY <2>1, RankIsTaken DEF Timed
    <2>3. AtRank(S, k) \in Nat
        BY <2>2 DEF RankTaken
    <2>4. b = BucketOf(AtRank(S, k))
        BY DEF RankBucket
    <2> HIDE DEF k, b
    <2>5. /\ LatLower(b) \in Nat /\ LatLower(b) <= AtRank(S, k)
          /\ b <= last => LatUpper[b] \in Nat /\ AtRank(S, k) < LatUpper[b]
        BY <2>3, <2>4, BucketAround
    <2> QED
        BY <2>3, <2>5
<1> HIDE DEF x, y, b, n, lat, last, estimate
<1>14. ASSUME b = last + 1
       PROVE  NearOf(estimate, b)
    <2>1. estimate = LatLower(b) /\ estimate \in Nat
        BY <1>1, <1>11, <1>13, <1>14
    <2>2. ~(b <= last)
        BY <1>3, <1>14
    <2>3. estimate >= LatLower(b)
        BY <2>1
    <2> QED
        BY <2>2, <2>3 DEF NearOf, last
<1>15. ASSUME b # last + 1
       PROVE  NearOf(estimate, b)
    <2>1. b <= last
        BY <1>3, <1>4, <1>15
    <2>2. width \in Nat
        BY <1>13, <2>1
    <2>3. (x * width) \div y \in 0..width
        BY <1>12, <2>2, ShareOfWidth
    <2>4. estimate = LatLower(b) + (x * width) \div y
        BY <1>1, <1>11, <1>15
    <2> DEFINE more == (x * width) \div y
    <2> HIDE DEF more
    <2>5. estimate = LatLower(b) + more /\ more \in 0..width
        BY <2>3, <2>4 DEF more
    <2>6. estimate >= LatLower(b) /\ estimate <= LatUpper[b]
        BY <1>13, <2>1, <2>5
    <2> QED
        BY <2>1, <2>6 DEF NearOf, last
<1>16. NearOf(estimate, b)
    BY <1>14, <1>15
<1> QED
    BY <1>16 DEF b, lat, estimate

-----------------------------------------------------------------------------
(* the percentiles *)

\* The counted buckets are those of the rows.
LEMMA CountsAreTold ==
    ASSUME NEW H, RowsOK(H), NEW S \in SUBSET H
    PROVE  [b \in Buckets |-> Counts(H, b, S)] = LatTold(S)
<1>1. ASSUME NEW b \in Buckets
      PROVE  Counts(H, b, S) = Cardinality(InBucket(S, b))
    <2>1. /\ IsFiniteSet(S) /\ InBucket(S, b) \in SUBSET S
          /\ \A r \in S : Lats(H, b)[r] = Bit(b = BucketOf(r.duration))
        BY LatsSummed DEF RowsOK, InBucket
    <2>2. \A r \in S : Lats(H, b)[r] = Bit(r \in InBucket(S, b))
        BY <2>1 DEF Bit, InBucket
    <2> QED
        BY <2>1, <2>2, SumOfBits DEF Counts
<1> QED
    BY <1>1 DEF LatTold

\* The buckets of the query of rows are those of the rows it reads.
LEMMA RowsHistogram ==
    ASSUME NEW H, RowsOK(H), NEW S \in SUBSET H
    PROVE  Histogram([r \in S |-> LatOf(r)]) = LatTold(S)
<1> DEFINE lat == [r \in S |-> LatOf(r)]
<1>1. ASSUME NEW b \in Buckets
      PROVE  Histogram(lat)[b] = Counts(H, b, S)
    <2> DEFINE v == [x \in DOMAIN lat |-> lat[x][b]]
    <2>1. Histogram(lat)[b] = SumFunctionOnSet(v, S)
        BY DEF Histogram, SumFunction
    <2>2. IsFiniteSet(H)
        BY DEF RowsOK
    <2>3. Summed(Lats(H, b), S) /\ \A r \in S : Lats(H, b)[r] = LatOf(r)[b]
        BY <2>2, LatsSummed
    <2>4. \A r \in S : v[r] = Lats(H, b)[r]
        BY <2>3
    <2> HIDE DEF v
    <2> QED
        BY <2>1, <2>3, <2>4, SumSame DEF Counts
<1>2. Histogram(lat) = [b \in Buckets |-> Histogram(lat)[b]]
    BY DEF Histogram
<1> HIDE DEF lat
<1>3. Histogram(lat) = [b \in Buckets |-> Counts(H, b, S)]
    BY <1>1, <1>2
<1> QED
    BY <1>3, CountsAreTold DEF lat

CellsRead(tables, scope, range) == CellsIn(tables, scope, range, FALSE, FALSE)
CellLats(tables, scope, range) ==
    Histogram([c \in CellsRead(tables, scope, range) |-> tables.cube[c].lat])

\* The buckets of the query of cells are those of the rows of its hours.
LEMMA CellsHistogram ==
    ASSUME NEW tables, NEW H, NEW low, NEW scope, NEW range, Facts(tables, H, low, scope, range)
    PROVE  CellLats(tables, scope, range) = LatTold(InHours(H, scope, range))
<1> DEFINE S == Grained(H, scope, range, FALSE, FALSE)
           C == CellsIn(tables, scope, range, FALSE, FALSE)
           h == GrainMap(S, scope, FALSE, FALSE)
<1>1. Onto(h, S, C, H, tables.cube)
    BY GrainOnto
<1>2. S = InHours(H, scope, range)
    BY DEF Grained, HasGrain
<1> HIDE DEF S, C, h
<1>3. RowsOK(H) /\ S \in SUBSET H
    BY <1>1 DEF Facts, Onto
<1>4. Histogram([c \in C |-> tables.cube[c].lat]) = [b \in Buckets |-> Counts(H, b, S)]
    BY <1>1, <1>3, HistogramIsCounts
<1>5. Histogram([c \in C |-> tables.cube[c].lat]) = LatTold(S)
    BY <1>3, <1>4, CountsAreTold
<1> QED
    BY <1>2, <1>5 DEF C, CellLats, CellsRead

\* What is shown of the latencies: of the rows themselves, or of the buckets.
Exactly(S) == [count |-> Cardinality(S), lat |-> LatTold(S),
               p50 |-> ExactPercentile(S, <<1, 2>>), p95 |-> ExactPercentile(S, <<19, 20>>)]
Estimated(S) == [count |-> Cardinality(S), lat |-> LatTold(S),
                 p50 |-> InterpolatePercentile(LatTold(S), <<1, 2>>),
                 p95 |-> InterpolatePercentile(LatTold(S), <<19, 20>>)]

\* The latencies are those of the rows the report covers, exact or estimated.
LEMMA LatencySeen ==
    ASSUME NEW tables, NEW H, NEW scope, NEW range, NEW S, Sees(tables, H, scope, range, S)
    PROVE  LatencySummary(tables, scope, range) = IF ReadsRows(range) THEN Exactly(S) ELSE Estimated(S)
<1>1. RowsOK(H) /\ S \in SUBSET H
    BY DEF Sees
<1>2. CASE ReadsRows(range)
    <2>1. RowsIn(tables, scope, range) = S
        BY <1>2 DEF Sees
    <2>2. Histogram([r \in S |-> LatOf(r)]) = LatTold(S)
        BY <1>1, RowsHistogram
    <2> QED
        BY <1>2, <2>1, <2>2 DEF LatencySummary, Exactly
<1>3. CASE ~ReadsRows(range)
    <2>1. PICK low \in Int : Facts(tables, H, low, scope, range)
        BY <1>3 DEF Sees
    <2>2. S = InHours(H, scope, range)
        BY <1>3 DEF Sees
    <2> DEFINE C == CellsRead(tables, scope, range)
               lat == CellLats(tables, scope, range)
    <2>3. lat = LatTold(S)
        BY <2>1, <2>2, CellsHistogram
    <2>4. OfCells(tables, C).requests = Cardinality(S)
        <3>1. UsageTotals(tables, scope, range) = Ledger(S)
            BY TotalsSeen
        <3>2. UsageTotals(tables, scope, range) = OfCells(tables, C)
            BY <1>3 DEF UsageTotals, CellsRead
        <3> HIDE DEF C
        <3>3. OfCells(tables, C) = Ledger(S)
            BY <3>1, <3>2
        <3>4. Ledger(S).requests = Cardinality(S)
            BY DEF Ledger
        <3> QED
            BY <3>3, <3>4
    <2>5. LatencySummary(tables, scope, range) =
              [count |-> OfCells(tables, C).requests, lat |-> lat,
               p50 |-> InterpolatePercentile(lat, <<1, 2>>),
               p95 |-> InterpolatePercentile(lat, <<19, 20>>)]
        BY <1>3 DEF LatencySummary, CellLats, CellsRead
    <2> HIDE DEF C, lat
    <2> QED
        BY <1>3, <2>3, <2>4, <2>5 DEF Estimated
<1> QED
    BY <1>2, <1>3

\* The exact percentile is in its own bucket.
LEMMA ExactNear ==
    ASSUME NEW S, Timed(S), S # {}, NEW p \in Percentages
    PROVE  /\ RankBucket(S, p) = BucketOf(ExactPercentile(S, p))
           /\ NearOf(ExactPercentile(S, p), RankBucket(S, p))
<1> DEFINE n == Cardinality(S)
           k == Rank(p, n)
           d == AtRank(S, k)
<1>1. n \in Nat \ {0}
    BY FS_CardinalityType, FS_EmptySet DEF Timed
<1>2. k \in 1..n
    BY <1>1, RankReaches DEF Reaches
<1>3. d \in Nat
    <2>1. RankTaken(S, k, d)
        BY <1>2, RankIsTaken DEF Timed
    <2> QED
        BY <2>1 DEF RankTaken
<1>4. ExactPercentile(S, p) = d /\ RankBucket(S, p) = BucketOf(d)
    BY DEF ExactPercentile, RankBucket
<1> HIDE DEF d
<1>5. NearOf(d, BucketOf(d))
    <2> DEFINE b == BucketOf(d)
    <2>1. /\ LatLower(b) \in Nat /\ LatLower(b) <= d
          /\ b <= Len(LatUpper) => LatUpper[b] \in Nat /\ d < LatUpper[b]
        BY <1>3, BucketAround
    <2> HIDE DEF b
    <2>2. NearOf(d, b)
        BY <1>3, <2>1 DEF NearOf
    <2> QED
        BY <2>2 DEF b
<1> QED
    BY <1>4, <1>5

\* PercentilesAgree follows from what is kept of the books.
LEMMA PercentilesFollow ==
    ASSUME HistoryOK, BooksOK
    PROVE  PercentilesAgree
<1> SUFFICES ASSUME Settled, NEW scope \in Scopes, NEW range \in Ranges, Retained(range)
             PROVE  LET S == Told(scope, range)
                        latency == LatencySummary(db, scope, range)
                        Near(estimate, p) ==
                            LET b == BucketOf(ExactPercentile(S, p))
                            IN  /\ estimate >= LatLower(b)
                                /\ b <= Len(LatUpper) => estimate <= LatUpper[b]
                    IN  /\ latency.count = Cardinality(S)
                        /\ latency.lat = [b \in Buckets |-> Cardinality({r \in S : BucketOf(r.duration) = b})]
                        /\ S = {} => latency.p50 = NULL /\ latency.p95 = NULL
                        /\ S # {} => Near(latency.p50, <<1, 2>>) /\ Near(latency.p95, <<19, 20>>)
    BY DEF PercentilesAgree
<1> DEFINE S == Told(scope, range)
           latency == LatencySummary(db, scope, range)
<1>1. view = NoPage /\ ScopeOK(scope) /\ RangeOK(range)
    BY ReportAssumption DEF Settled, ScopeOK, RangeOK
<1>2. Sees(db, history, scope, range, S)
    BY <1>1, StoreIsSeen
<1>3. Timed(S)
    <2>1. RowsOK(history) /\ S \in SUBSET history
        BY DEF BooksOK, Told
    <2> QED
        BY <2>1, FS_Subset DEF RowsOK, RowOK, Timed
<1> HIDE DEF S
<1>4. latency = IF ReadsRows(range) THEN Exactly(S) ELSE Estimated(S)
    BY <1>2, LatencySeen
<1> HIDE DEF latency
<1>5. latency.count = Cardinality(S) /\ latency.lat = LatTold(S)
    BY <1>4 DEF Exactly, Estimated
<1>6. ASSUME S = {}
      PROVE  latency.p50 = NULL /\ latency.p95 = NULL
    <2>1. SumFunction(LatTold(S)) = 0
        BY <1>3, <1>6, LatTotal, FS_EmptySet
    <2>2. \A p : InterpolatePercentile(LatTold(S), p) = NULL
        BY <2>1 DEF InterpolatePercentile
    <2>3. \A p : ExactPercentile(S, p) = NULL
        BY <1>6 DEF ExactPercentile
    <2> QED
        BY <1>4, <2>2, <2>3 DEF Exactly, Estimated
<1>7. ASSUME S # {}
      PROVE  /\ NearOf(latency.p50, BucketOf(ExactPercentile(S, <<1, 2>>)))
             /\ NearOf(latency.p95, BucketOf(ExactPercentile(S, <<19, 20>>)))
    <2>1. \A p \in Percentages : /\ NearOf(ExactPercentile(S, p), BucketOf(ExactPercentile(S, p)))
                                 /\ NearOf(InterpolatePercentile(LatTold(S), p), BucketOf(ExactPercentile(S, p)))
        BY <1>3, <1>7, ExactNear, EstimateNear
    <2>2. <<1, 2>> \in Percentages /\ <<19, 20>> \in Percentages
        BY DEF Percentages
    <2>3. /\ latency.p50 \in {ExactPercentile(S, <<1, 2>>), InterpolatePercentile(LatTold(S), <<1, 2>>)}
          /\ latency.p95 \in {ExactPercentile(S, <<19, 20>>), InterpolatePercentile(LatTold(S), <<19, 20>>)}
        BY <1>4 DEF Exactly, Estimated
    <2> QED
        BY <2>1, <2>2, <2>3
<1>8. latency.lat = [b \in Buckets |-> Cardinality({r \in S : BucketOf(r.duration) = b})]
    BY <1>5 DEF LatTold, InBucket
<1> QED
    BY <1>5, <1>6, <1>7, <1>8 DEF S, latency, NearOf

\* What the dashboard's reports say (queries.ts: usageTotals, usageBy*, tagValues,
\* errorBreakdown, usageSeries, latestQuotaByUser, latencySummary), whenever they
\* are asked while batches are stored and retention deletes: each figure, from the
\* rows or from the cube, is that of the records it covers; an estimated
\* percentile is in the exact one's bucket; a sweep leaves no row behind its cut-off.
THEOREM ReportsAgreeAlways == StoreSpec => []ReportsAgree
<1>1. HistoryOK /\ BooksOK => FiguresAgree /\ PercentilesAgree
    BY FiguresFollow, PercentilesFollow
<1>2. SweepOK => SweepComplete
    BY DEF SweepOK
<1>3. HistoryOK /\ BooksOK /\ SweepOK => ReportsAgree
    BY <1>1, <1>2 DEF ReportsAgree
<1> QED
    BY <1>3, History, BooksAlways, SweepAlways, PTL
=============================================================================
