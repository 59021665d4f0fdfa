--------------------------- MODULE BillingProofs ---------------------------
(***************************************************************************)
(* Proofs about Billing: about what a price table charges, about what is   *)
(* read in a stream however it is cut, and about what a substitute is      *)
(* asked.                                                                  *)
(***************************************************************************)
EXTENDS Billing, SequenceTheorems, FiniteSetTheorems, TLAPS

-----------------------------------------------------------------------------
(* lemmas on finite orders *)

\* What a strict order puts before something.
BeforeIn(order, things, x) == {y \in things : <<y, x>> \in order}

StrictOrder(order, things) ==
    /\ IsFiniteSet(things)
    /\ \A x \in things : <<x, x>> \notin order
    /\ \A x, y, z \in things : <<x, y>> \in order /\ <<y, z>> \in order => <<x, z>> \in order
    /\ \A x, y \in things : x = y \/ <<x, y>> \in order \/ <<y, x>> \in order

LEMMA RankGrows ==
    ASSUME NEW things, NEW order, StrictOrder(order, things)
    PROVE  /\ \A x \in things : /\ Cardinality(BeforeIn(order, things, x)) \in Nat
                                /\ Cardinality(BeforeIn(order, things, x)) < Cardinality(things)
           /\ \A x, y \in things : <<x, y>> \in order =>
                 Cardinality(BeforeIn(order, things, x)) < Cardinality(BeforeIn(order, things, y))
<1>1. \A x \in things : BeforeIn(order, things, x) \subseteq things \ {x}
    BY DEF BeforeIn, StrictOrder
<1>2. \A part : part \subseteq things => IsFiniteSet(part) /\ Cardinality(part) \in Nat
    BY FS_Subset, FS_CardinalityType DEF StrictOrder
<1>3. ASSUME NEW large, NEW small, large \subseteq things, small \subseteq large,
             NEW x \in large, x \notin small
      PROVE  Cardinality(small) < Cardinality(large)
    <2>1. IsFiniteSet(large) /\ small \in SUBSET large /\ small # large
        BY <1>2, <1>3
    <2>2. Cardinality(small) <= Cardinality(large) /\ Cardinality(small) # Cardinality(large)
        BY <2>1, FS_Subset
    <2> QED
        BY <1>2, <1>3, <2>2
<1>4. ASSUME NEW x \in things
      PROVE  /\ Cardinality(BeforeIn(order, things, x)) \in Nat
             /\ Cardinality(BeforeIn(order, things, x)) < Cardinality(things)
    BY <1>1, <1>2, <1>3
<1>5. ASSUME NEW x \in things, NEW y \in things, <<x, y>> \in order
      PROVE  Cardinality(BeforeIn(order, things, x)) < Cardinality(BeforeIn(order, things, y))
    <2>1. /\ BeforeIn(order, things, x) \subseteq BeforeIn(order, things, y)
          /\ x \in BeforeIn(order, things, y) /\ x \notin BeforeIn(order, things, x)
          /\ BeforeIn(order, things, y) \subseteq things
        BY <1>5 DEF BeforeIn, StrictOrder
    <2> QED
        BY <1>3, <2>1
<1> QED
    BY <1>4, <1>5

\* Every rank is somebody's.
LEMMA RanksAreTaken ==
    ASSUME NEW things, NEW order, StrictOrder(order, things), NEW n \in 1..Cardinality(things)
    PROVE  \E x \in things : Cardinality(BeforeIn(order, things, x)) + 1 = n
<1> DEFINE rank == [x \in things |-> Cardinality(BeforeIn(order, things, x)) + 1]
           size == Cardinality(things)
<1>1. size \in Nat /\ IsFiniteSet(things)
    BY FS_CardinalityType DEF StrictOrder
<1>2. \A x \in things : rank[x] \in 1..size
    BY <1>1, RankGrows
<1>3. \A x, y \in things : x # y => rank[x] # rank[y]
    <2> SUFFICES ASSUME NEW x \in things, NEW y \in things, x # y PROVE rank[x] # rank[y]
        OBVIOUS
    <2>1. <<x, y>> \in order \/ <<y, x>> \in order
        BY DEF StrictOrder
    <2>2. \A z \in things : Cardinality(BeforeIn(order, things, z)) \in Nat
        BY RankGrows
    <2> QED
        BY <2>1, <2>2, RankGrows
<1>4. rank \in Injection(things, 1..size)
    BY <1>2, <1>3 DEF Injection, IsInjective
<1>5. IsFiniteSet(1..size) /\ Cardinality(1..size) = size
    BY <1>1, FS_Interval
<1>6. rank \in Surjection(things, 1..size)
    BY <1>4, <1>5, FS_Injection
<1> QED
    BY <1>6 DEF Surjection

\* Whatever is not empty has a first.
LEMMA FirstOfAll ==
    ASSUME NEW things, NEW order, StrictOrder(order, things), things # {}
    PROVE  \E x \in things : \A y \in things \ {x} : <<x, y>> \in order
<1>1. Cardinality(things) \in Nat /\ Cardinality(things) # 0
    BY FS_CardinalityType, FS_EmptySet DEF StrictOrder
<1>2. PICK x \in things : Cardinality(BeforeIn(order, things, x)) + 1 = 1
    BY <1>1, RanksAreTaken
<1>3. BeforeIn(order, things, x) = {}
    <2>1. IsFiniteSet(BeforeIn(order, things, x))
        BY FS_Subset DEF StrictOrder, BeforeIn
    <2>2. Cardinality(BeforeIn(order, things, x)) \in Nat
        BY RankGrows
    <2> QED
        BY <1>2, <2>1, <2>2, FS_EmptySet
<1> QED
    BY <1>3 DEF BeforeIn, StrictOrder

-----------------------------------------------------------------------------
(* induction, on sets of numbers *)

LEMMA CountingUp ==
    ASSUME NEW N \in Nat, NEW good, 0 \in good, \A n \in 0..N : n + 1 \in 0..N /\ n \in good => n + 1 \in good
    PROVE  0..N \subseteq good
<1> DEFINE left == (0..N) \ good
           order == {p \in (0..N) \X (0..N) : p[1] < p[2]}
<1> SUFFICES ASSUME left # {} PROVE FALSE
    OBVIOUS
<1>1. StrictOrder(order, left)
    <2>1. IsFiniteSet(left)
        <3>1. IsFiniteSet(0..N) /\ left \subseteq 0..N
            BY FS_Interval
        <3> QED
            BY <3>1, FS_Subset
    <2>2. \A x, y \in 0..N : <<x, y>> \in order <=> x < y
        OBVIOUS
    <2> QED
        BY <2>1, <2>2 DEF StrictOrder
<1> HIDE DEF order
<1>2. PICK n \in left : \A m \in left \ {n} : <<n, m>> \in order
    BY <1>1, FirstOfAll
<1>3. n \in Nat /\ n # 0 /\ n - 1 \in 0..N /\ n <= N
    OBVIOUS
<1>4. n - 1 \in good
    <2>1. <<n, n - 1>> \notin order
        BY <1>3 DEF order
    <2> QED
        BY <1>2, <1>3, <2>1
<1> QED
    BY <1>3, <1>4

Follows(f, N, start, step) == f[0] = start /\ \A n \in 1..N : f[n] = step[<<f[n - 1], n>>]

\* A definition by recursion on the length defines something.
LEMMA Recursion ==
    ASSUME NEW N \in Nat, NEW States, NEW start \in States, NEW step \in [States \X (1..N) -> States]
    PROVE  \E f \in [0..N -> States] : Follows(f, N, start, step)
<1> DEFINE Right(f, k) == f = [n \in 0..k |-> IF n = 0 THEN start ELSE step[<<f[n - 1], n>>]]
           good == {k \in 0..N : \E f \in [0..k -> States] : Right(f, k)}
<1>1. 0 \in good
    <2>1. [n \in 0..0 |-> start] \in [0..0 -> States]
        OBVIOUS
    <2>2. Right([n \in 0..0 |-> start], 0)
        OBVIOUS
    <2>3. \E f \in [0..0 -> States] : Right(f, 0)
        BY <2>1, <2>2
    <2> QED
        BY <2>3
<1>2. ASSUME NEW k \in 0..N, k + 1 \in 0..N, k \in good
      PROVE  k + 1 \in good
    <2>1. PICK f \in [0..k -> States] : Right(f, k)
        BY <1>2
    <2> DEFINE g == [n \in 0..k + 1 |-> IF n <= k THEN f[n] ELSE step[<<f[k], k + 1>>]]
    <2>2. g \in [0..k + 1 -> States]
        <3>1. <<f[k], k + 1>> \in States \X (1..N)
            BY <1>2
        <3> QED
            BY <3>1
    <2>3. \A n \in 0..k + 1 : g[n] = IF n = 0 THEN start ELSE step[<<g[n - 1], n>>]
        <3>1. \A n \in 0..k : f[n] = IF n = 0 THEN start ELSE step[<<f[n - 1], n>>]
            BY <2>1
        <3>2. \A n \in 0..k : g[n] = f[n] /\ (n # 0 => n - 1 \in 0..k /\ g[n - 1] = f[n - 1])
            OBVIOUS
        <3>3. g[k + 1] = step[<<g[k], k + 1>>] /\ k + 1 # 0 /\ (k + 1) - 1 = k
            <4>1. k + 1 \in 0..k + 1 /\ ~(k + 1 <= k) /\ k \in 0..k
                OBVIOUS
            <4>2. g[k + 1] = step[<<f[k], k + 1>>] /\ g[k] = f[k]
                BY <4>1, <3>2
            <4>3. k + 1 # 0 /\ (k + 1) - 1 = k
                BY <4>1
            <4> HIDE DEF g
            <4> QED
                BY <4>2, <4>3
        <3>4. \A n \in 0..k : g[n] = IF n = 0 THEN start ELSE step[<<g[n - 1], n>>]
            BY <3>1, <3>2
        <3>5. \A n \in 0..k + 1 : n \in 0..k \/ n = k + 1
            OBVIOUS
        <3> HIDE DEF g
        <3> QED
            BY <3>3, <3>4, <3>5
    <2>4. Right(g, k + 1)
        BY <2>2, <2>3
    <2> QED
        BY <1>2, <2>2, <2>4
<1> HIDE DEF good
<1>3. N \in good
    BY <1>1, <1>2, CountingUp
<1>4. PICK f \in [0..N -> States] : Right(f, N)
    BY <1>3 DEF good
<1>5. f[0] = start
    BY <1>4
<1>6. \A n \in 1..N : f[n] = step[<<f[n - 1], n>>]
    BY <1>4
<1> QED
    BY <1>4, <1>5, <1>6 DEF Follows

-----------------------------------------------------------------------------
(* the price table *)

PricesTyped ==
    /\ now \in Nat /\ snapshot \in Nat
    /\ cache \in Nat \cup {NULL}
    /\ DOMAIN table = Workers

PricesInv == PricesTyped /\ PricesCurrent

\* A cache as old as the snapshot says the same.
LEMMA LoadsNewest == PricesTyped => LoadPrices = Newest
BY DEF PricesTyped, LoadPrices, Newest

LEMMA PricesInvInit == PricesInit => PricesInv
BY DEF PricesInit, PricesInv, PricesTyped, PricesCurrent

LEMMA PricesInvNext == PricesInv /\ (PricesNext \/ UNCHANGED pricesVars) => PricesInv'
<1> SUFFICES ASSUME PricesInv, PricesNext \/ UNCHANGED pricesVars PROVE PricesInv'
    OBVIOUS
<1>1. PricesTyped /\ PricesCurrent /\ LoadPrices = Newest
    BY LoadsNewest DEF PricesInv
<1>2. CASE Refresh
    BY <1>1, <1>2 DEF Refresh, PricesInv, PricesTyped, PricesCurrent
<1>3. CASE Restart
    <2>1. snapshot' \in Nat /\ cache' \in Nat \cup {NULL}
        BY <1>1, <1>3 DEF Restart, PricesTyped
    <2> QED
        BY <1>1, <1>3, <2>1 DEF Restart, PricesInv, PricesTyped, PricesCurrent
<1>4. ASSUME NEW w \in Workers, WorkerBoots(w) \/ WorkerIsTold(w) PROVE PricesInv'
    <2>1. Newest' = Newest
        BY <1>4 DEF WorkerBoots, WorkerIsTold, Newest
    <2>2. table'[w] = Newest' /\ \A v \in Workers \ {w} : table'[v] = table[v]
        BY <1>1, <1>4, <2>1 DEF WorkerBoots, WorkerIsTold, PricesTyped
    <2>3. \A v \in Workers \ {w} : v \in told' <=> v \in told
        BY <1>4 DEF WorkerBoots, WorkerIsTold
    <2>4. PricesTyped'
        BY <1>1, <1>4 DEF WorkerBoots, WorkerIsTold, PricesTyped
    <2> QED
        BY <1>1, <2>1, <2>2, <2>3, <2>4 DEF PricesInv, PricesCurrent
<1>5. ASSUME NEW w \in Workers, WorkerDies(w) PROVE PricesInv'
    BY <1>1, <1>5 DEF WorkerDies, PricesInv, PricesTyped, PricesCurrent, Newest
<1>6. CASE UNCHANGED pricesVars
    BY <1>1, <1>6 DEF pricesVars, PricesInv, PricesTyped, PricesCurrent, Newest
<1> QED
    BY <1>2, <1>3, <1>4, <1>5, <1>6 DEF PricesNext

-----------------------------------------------------------------------------
(* Prices: what a call costs *)

LEMMA ExtremesAreTaken ==
    ASSUME NEW numbers, numbers \subseteq Int, IsFiniteSet(numbers), numbers # {}
    PROVE  /\ Max(numbers) \in numbers /\ \A n \in numbers : n <= Max(numbers)
           /\ Min(numbers) \in numbers /\ \A n \in numbers : Min(numbers) <= n
<1> DEFINE up == {p \in numbers \X numbers : p[1] < p[2]}
           down == {p \in numbers \X numbers : p[2] < p[1]}
<1>1. /\ \A x, y \in numbers : <<x, y>> \in up <=> x < y
      /\ \A x, y \in numbers : <<x, y>> \in down <=> y < x
    OBVIOUS
<1>2. StrictOrder(up, numbers) /\ StrictOrder(down, numbers)
    <2> HIDE DEF up, down
    <2> QED
        BY <1>1 DEF StrictOrder
<1> HIDE DEF up, down
<1>3. \E least \in numbers : \A n \in numbers \ {least} : <<least, n>> \in up
    <2>1. StrictOrder(up, numbers)
        BY <1>2
    <2> QED
        BY <2>1, FirstOfAll, Zenon
<1>4. \E most \in numbers : \A n \in numbers \ {most} : <<most, n>> \in down
    <2>1. StrictOrder(down, numbers)
        BY <1>2
    <2> QED
        BY <2>1, FirstOfAll, Zenon
<1> PICK least \in numbers : \A n \in numbers \ {least} : <<least, n>> \in up
    BY <1>3
<1> PICK most \in numbers : \A n \in numbers \ {most} : <<most, n>> \in down
    BY <1>4
<1>5. \A n \in numbers : least <= n /\ n <= most
    <2> SUFFICES ASSUME NEW n \in numbers PROVE least <= n /\ n <= most
        OBVIOUS
    <2>1. n \in Int /\ least \in Int /\ most \in Int
        OBVIOUS
    <2>2. (n = least \/ least < n) /\ (n = most \/ n < most)
        BY <1>1
    <2> QED
        BY <2>1, <2>2
<1>6. /\ Max(numbers) \in numbers /\ \A n \in numbers : Max(numbers) >= n
      /\ Min(numbers) \in numbers /\ \A n \in numbers : Min(numbers) <= n
    BY <1>5 DEF Max, Min
<1> QED
    BY <1>6

LEMMA InOrderLists ==
    ASSUME NEW numbers, numbers \subseteq Int, IsFiniteSet(numbers)
    PROVE  LET list == InOrder(numbers)
               places == 1..Cardinality(numbers)
           IN  /\ Cardinality(numbers) \in Nat /\ DOMAIN list = places
               /\ \A i \in places : list[i] \in numbers
               /\ \A n \in numbers : \E i \in places : list[i] = n
               /\ \A i, j \in places : i < j => list[i] < list[j]
<1> DEFINE list == InOrder(numbers)
           places == 1..Cardinality(numbers)
           up == {p \in numbers \X numbers : p[1] < p[2]}
           place(n) == Cardinality({m \in numbers : m < n}) + 1
<1>1. \A x, y \in numbers : <<x, y>> \in up <=> x < y
    OBVIOUS
<1>2. StrictOrder(up, numbers)
    <2> HIDE DEF up
    <2> QED
        BY <1>1 DEF StrictOrder
<1>3. \A n \in numbers : place(n) = Cardinality(BeforeIn(up, numbers, n)) + 1
    <2> SUFFICES ASSUME NEW n \in numbers
                 PROVE  place(n) = Cardinality(BeforeIn(up, numbers, n)) + 1
        OBVIOUS
    <2> HIDE DEF up
    <2>1. BeforeIn(up, numbers, n) = {m \in numbers : m < n}
        BY <1>1 DEF BeforeIn
    <2> QED
        BY <2>1
<1>4. Cardinality(numbers) \in Nat
    BY FS_CardinalityType
<1>5. list = [i \in places |-> CHOOSE n \in numbers : place(n) = i]
    BY DEF InOrder
<1> HIDE DEF up, list, place
<1>6. \A i \in places : \E n \in numbers : place(n) = i
    <2> DEFINE before(n) == Cardinality(BeforeIn(up, numbers, n))
    <2>1. \A i \in 1..Cardinality(numbers) : \E n \in numbers : before(n) + 1 = i
        <3> SUFFICES ASSUME NEW i \in 1..Cardinality(numbers)
                     PROVE  \E n \in numbers : Cardinality(BeforeIn(up, numbers, n)) + 1 = i
            OBVIOUS
        <3>1. i \in 1..Cardinality(numbers)
            OBVIOUS
        <3> HIDE DEF places, before
        <3> QED
            BY <1>2, <3>1, RanksAreTaken
    <2> HIDE DEF before
    <2>2. \A n \in numbers : place(n) = before(n) + 1
        BY <1>3 DEF before
    <2> QED
        BY <2>1, <2>2
<1>7. /\ DOMAIN list = places
      /\ \A i \in places : list[i] \in numbers /\ place(list[i]) = i
    BY <1>5, <1>6
<1>8. \A n \in numbers : place(n) \in places
    BY <1>2, <1>3, <1>4, RankGrows
<1>9. \A m, n \in numbers : m < n => place(m) < place(n)
    <2> SUFFICES ASSUME NEW m \in numbers, NEW n \in numbers, m < n PROVE place(m) < place(n)
        OBVIOUS
    <2> DEFINE before(x) == Cardinality(BeforeIn(up, numbers, x))
    <2>1. before(m) \in Nat /\ before(n) \in Nat /\ before(m) < before(n)
        BY <1>1, <1>2, RankGrows
    <2>2. place(m) = before(m) + 1 /\ place(n) = before(n) + 1
        BY <1>3
    <2> HIDE DEF before
    <2> QED
        BY <2>1, <2>2
<1>10. \A m, n \in numbers : place(m) = place(n) => m = n
    BY <1>4, <1>8, <1>9
<1>11. \A n \in numbers : \E i \in places : list[i] = n
    BY <1>7, <1>8, <1>10
<1>12. \A i, j \in places : i < j => list[i] < list[j]
    <2> SUFFICES ASSUME NEW i \in places, NEW j \in places, i < j, ~(list[i] < list[j]) PROVE FALSE
        OBVIOUS
    <2>0. list[i] \in numbers /\ list[j] \in numbers
        BY <1>7
    <2>1. list[j] < list[i] \/ list[i] = list[j]
        <3>1. list[i] \in Int /\ list[j] \in Int
            BY <2>0
        <3> QED
            BY <3>1
    <2>2. place(list[j]) < place(list[i]) \/ place(list[i]) = place(list[j])
        BY <1>9, <2>0, <2>1
    <2> QED
        BY <1>7, <2>2
<1> QED
    BY <1>4, <1>7, <1>11, <1>12 DEF list

\* The first that is said of a few.
LEMMA FirstSaid ==
    /\ \A x, y : First(<<x, y>>) = IF x # NULL THEN x ELSE y
    /\ \A x, y, z : First(<<x, y, z>>) = IF x # NULL THEN x ELSE IF y # NULL THEN y ELSE z
    /\ \A w, x, y, z : First(<<w, x, y, z>>) =
          IF w # NULL THEN w ELSE IF x # NULL THEN x ELSE IF y # NULL THEN y ELSE z
<1>1. ASSUME NEW seq, NEW n \in Nat, DOMAIN seq = 1..n
      PROVE  /\ (\A i \in 1..n : seq[i] = NULL) => First(seq) = NULL
             /\ \A k \in 1..n : seq[k] # NULL /\ (\A i \in 1..k - 1 : seq[i] = NULL) => First(seq) = seq[k]
    <2> DEFINE said == {i \in DOMAIN seq : seq[i] # NULL}
    <2>1. First(seq) = IF said = {} THEN NULL ELSE seq[Min(said)]
        BY DEF First
    <2>2. (\A i \in 1..n : seq[i] = NULL) => said = {}
        BY <1>1
    <2>3. ASSUME NEW k \in 1..n, seq[k] # NULL, \A i \in 1..k - 1 : seq[i] = NULL
          PROVE  First(seq) = seq[k]
        <3>1. k \in said /\ said # {} /\ said \subseteq 1..n
            BY <1>1, <2>3
        <3>2. \A i \in said : k <= i
            <4> SUFFICES ASSUME NEW i \in said, i < k PROVE FALSE
                BY <1>1
            <4>1. i \in 1..k - 1
                BY <1>1
            <4> QED
                BY <2>3, <4>1
        <3> HIDE DEF said
        <3>3. Min(said) \in said /\ \A i \in said : Min(said) <= i
            BY <3>1, <3>2 DEF Min
        <3>4. Min(said) = k
            <4> DEFINE min == Min(said)
            <4>1. min \in 1..n /\ min <= k /\ k <= min
                BY <3>1, <3>2, <3>3
            <4> HIDE DEF min
            <4>2. min = k
                BY <4>1
            <4> QED
                BY <4>2 DEF min
        <3> QED
            BY <2>1, <3>1, <3>4
    <2> QED
        BY <2>1, <2>2, <2>3
<1> DEFINE Found(seq, n) ==
               /\ n >= 1 /\ seq[1] # NULL => First(seq) = seq[1]
               /\ n >= 2 /\ seq[1] = NULL /\ seq[2] # NULL => First(seq) = seq[2]
               /\ n >= 3 /\ seq[1] = NULL /\ seq[2] = NULL /\ seq[3] # NULL => First(seq) = seq[3]
               /\ n >= 4 /\ seq[1] = NULL /\ seq[2] = NULL /\ seq[3] = NULL /\ seq[4] # NULL =>
                     First(seq) = seq[4]
               /\ (\A i \in 1..n : seq[i] = NULL) => First(seq) = NULL
<1>2. ASSUME NEW seq, NEW n \in Nat, DOMAIN seq = 1..n
      PROVE  Found(seq, n)
    <2>1. \A k \in 1..n : seq[k] # NULL /\ (\A i \in 1..k - 1 : seq[i] = NULL) => First(seq) = seq[k]
        BY <1>1, <1>2
    <2>2. (\A i \in 1..n : seq[i] = NULL) => First(seq) = NULL
        BY <1>1, <1>2
    <2>3. /\ 1..1 - 1 = {} /\ 1..2 - 1 = {1} /\ 1..3 - 1 = {1, 2} /\ 1..4 - 1 = {1, 2, 3}
          /\ n >= 1 => 1 \in 1..n
          /\ n >= 2 => 2 \in 1..n
          /\ n >= 3 => 3 \in 1..n
          /\ n >= 4 => 4 \in 1..n
        BY <1>2
    <2>4. n >= 1 /\ seq[1] # NULL => First(seq) = seq[1]
        BY <2>1, <2>3
    <2>5. n >= 2 /\ seq[1] = NULL /\ seq[2] # NULL => First(seq) = seq[2]
        BY <2>1, <2>3
    <2>6. n >= 3 /\ seq[1] = NULL /\ seq[2] = NULL /\ seq[3] # NULL => First(seq) = seq[3]
        BY <2>1, <2>3
    <2>7. n >= 4 /\ seq[1] = NULL /\ seq[2] = NULL /\ seq[3] = NULL /\ seq[4] # NULL => First(seq) = seq[4]
        BY <2>1, <2>3
    <2> QED
        BY <2>2, <2>4, <2>5, <2>6, <2>7
<1> HIDE DEF Found
<1>3. ASSUME NEW x, NEW y PROVE First(<<x, y>>) = IF x # NULL THEN x ELSE y
    <2> DEFINE seq == <<x, y>>
    <2>1. DOMAIN seq = 1..2 /\ seq[1] = x /\ seq[2] = y
        OBVIOUS
    <2> HIDE DEF seq
    <2>2. 2 \in Nat
        OBVIOUS
    <2>3. Found(seq, 2)
        BY <1>2, <2>1, <2>2, Zenon
    <2>4. \A i \in 1..2 : i = 1 \/ i = 2
        OBVIOUS
    <2>5. First(seq) = IF x # NULL THEN x ELSE y
        BY <2>1, <2>3, <2>4 DEF Found
    <2> QED
        BY <2>5 DEF seq
<1>4. ASSUME NEW x, NEW y, NEW z
      PROVE  First(<<x, y, z>>) = IF x # NULL THEN x ELSE IF y # NULL THEN y ELSE z
    <2> DEFINE seq == <<x, y, z>>
    <2>1. DOMAIN seq = 1..3 /\ seq[1] = x /\ seq[2] = y /\ seq[3] = z
        OBVIOUS
    <2> HIDE DEF seq
    <2>2. 3 \in Nat
        OBVIOUS
    <2>3. Found(seq, 3)
        BY <1>2, <2>1, <2>2, Zenon
    <2>4. \A i \in 1..3 : i = 1 \/ i = 2 \/ i = 3
        OBVIOUS
    <2>5. First(seq) = IF x # NULL THEN x ELSE IF y # NULL THEN y ELSE z
        BY <2>1, <2>3, <2>4 DEF Found
    <2> QED
        BY <2>5 DEF seq
<1>5. ASSUME NEW w, NEW x, NEW y, NEW z
      PROVE  First(<<w, x, y, z>>) = IF w # NULL THEN w ELSE IF x # NULL THEN x ELSE IF y # NULL THEN y ELSE z
    <2> DEFINE seq == <<w, x, y, z>>
    <2>1. DOMAIN seq = 1..4 /\ seq[1] = w /\ seq[2] = x /\ seq[3] = y /\ seq[4] = z
        OBVIOUS
    <2> HIDE DEF seq
    <2>2. 4 \in Nat
        OBVIOUS
    <2>3. Found(seq, 4)
        BY <1>2, <2>1, <2>2, Zenon
    <2>4. \A i \in 1..4 : i = 1 \/ i = 2 \/ i = 3 \/ i = 4
        OBVIOUS
    <2>5. First(seq) = IF w # NULL THEN w ELSE IF x # NULL THEN x ELSE IF y # NULL THEN y ELSE z
        BY <2>1, <2>3, <2>4 DEF Found
    <2> QED
        BY <2>5 DEF seq
<1> QED
    BY <1>3, <1>4, <1>5

\* What a vendor may publish of a model.
Publishes(entry) ==
    /\ entry.rates \in [Buckets \X Tiers -> Nat \cup {NULL}]
    /\ entry.search \in Seq(Nat \cup {NULL})

\* The rate of a bucket at a tier, with what stands in for one that is not published.
ChargedAt(entry, tier, b) ==
    LET rate(c) == entry.rates[<<c, tier>>]
        cached == IF rate("write5m") # NULL THEN rate("write5m") ELSE rate("input")
        hour == entry.rates[<<"write1h", BaseTier>>]
    IN  CASE b = "write1h" -> IF rate(b) # NULL THEN rate(b) ELSE IF hour # NULL THEN hour ELSE cached
          [] OTHER -> IF rate(b) # NULL THEN rate(b) ELSE rate("input")

LEMMA WholeTier ==
    ASSUME NEW entry, Publishes(entry), NEW tier \in Tiers
    PROVE  /\ Half(entry, tier) <=> TierFrom(entry, tier) = NULL
           /\ ~Half(entry, tier) =>
                 /\ TierFrom(entry, tier) \in TierRates
                 /\ \A b \in Buckets : /\ TierFrom(entry, tier)[b] = ChargedAt(entry, tier, b)
                                       /\ ChargedAt(entry, tier, b) \in Nat
<1> DEFINE rate(b) == entry.rates[<<b, tier>>]
           hour == entry.rates[<<"write1h", BaseTier>>]
           Charged(b) == CASE b \in {"input", "output"} -> rate(b)
                         [] b \in {"read", "write5m"} -> First(<<rate(b), rate("input")>>)
                         [] b = "write1h" -> First(<<rate(b), hour, rate("write5m"), rate("input")>>)
<1>1. TierFrom(entry, tier) = IF Half(entry, tier) THEN NULL ELSE [b \in Buckets |-> Charged(b)]
    BY DEF TierFrom
<1>2. /\ \A b \in Buckets : rate(b) \in Nat \cup {NULL}
      /\ hour \in Nat \cup {NULL}
      /\ Half(entry, tier) <=> rate("input") = NULL \/ rate("output") = NULL
    <2>1. \A b \in Buckets, t \in Tiers : entry.rates[<<b, t>>] \in Nat \cup {NULL}
        BY DEF Publishes
    <2> QED
        BY <2>1 DEF Half, Tiers, Buckets
<1>3. \A b \in Buckets : ChargedAt(entry, tier, b) =
          IF b = "write1h"
          THEN IF rate(b) # NULL THEN rate(b) ELSE IF hour # NULL THEN hour
               ELSE IF rate("write5m") # NULL THEN rate("write5m") ELSE rate("input")
          ELSE IF rate(b) # NULL THEN rate(b) ELSE rate("input")
    BY DEF ChargedAt
<1> HIDE DEF rate, hour
<1>4. ASSUME ~Half(entry, tier), NEW b \in Buckets
      PROVE  Charged(b) = ChargedAt(entry, tier, b) /\ ChargedAt(entry, tier, b) \in Nat
    <2>1. rate("input") \in Nat /\ rate("output") \in Nat
        BY <1>2, <1>4 DEF Buckets
    <2>2. CASE b \in {"input", "output"}
        BY <1>2, <1>3, <1>4, <2>1, <2>2
    <2>3. CASE b \in {"read", "write5m"}
        <3>1. First(<<rate(b), rate("input")>>) = IF rate(b) # NULL THEN rate(b) ELSE rate("input")
            BY FirstSaid
        <3>2. Charged(b) = First(<<rate(b), rate("input")>>)
            BY <2>3
        <3>3. rate(b) \in Nat \cup {NULL}
            BY <1>2
        <3> QED
            BY <1>3, <2>1, <2>3, <3>1, <3>2, <3>3
    <2>4. CASE b = "write1h"
        <3>1. First(<<rate(b), hour, rate("write5m"), rate("input")>>) =
                  IF rate(b) # NULL THEN rate(b) ELSE IF hour # NULL THEN hour
                  ELSE IF rate("write5m") # NULL THEN rate("write5m") ELSE rate("input")
            BY FirstSaid
        <3>2. Charged(b) = First(<<rate(b), hour, rate("write5m"), rate("input")>>)
            BY <2>4
        <3>3. rate(b) \in Nat \cup {NULL} /\ rate("write5m") \in Nat \cup {NULL}
            BY <1>2 DEF Buckets
        <3> QED
            BY <1>2, <1>3, <2>1, <2>4, <3>1, <3>2, <3>3
    <2> QED
        BY <2>2, <2>3, <2>4 DEF Buckets
<1> HIDE DEF Charged
<1>5. ASSUME ~Half(entry, tier)
      PROVE  /\ TierFrom(entry, tier) \in TierRates
             /\ \A b \in Buckets : /\ TierFrom(entry, tier)[b] = ChargedAt(entry, tier, b)
                                   /\ ChargedAt(entry, tier, b) \in Nat
    BY <1>1, <1>4, <1>5 DEF TierRates
<1>6. ~Half(entry, tier) => TierFrom(entry, tier) # NULL
    BY <1>5, PricesAssumption
<1> QED
    BY <1>1, <1>5, <1>6

\* What is kept of a model's tiers: those that are whole, in order.
LEMMA TiersKept ==
    ASSUME NEW entry, Publishes(entry)
    PROVE  LET whole == {t \in Thresholds : ~Half(entry, t)}
               tiers == Rate(entry).tiers
               places == 1..Cardinality(whole)
           IN  /\ DOMAIN tiers = places /\ Cardinality(whole) \in Nat
               /\ \A i \in places : /\ tiers[i].above \in whole
                                    /\ tiers[i].rates = TierFrom(entry, tiers[i].above)
               /\ \A t \in whole : \E i \in places : tiers[i].above = t
               /\ \A i, j \in places : i < j => tiers[i].above < tiers[j].above
<1> DEFINE whole == {t \in Thresholds : ~Half(entry, t)}
           tiers == Rate(entry).tiers
           places == 1..Cardinality(whole)
           list == InOrder(whole)
<1>1. {t \in TierSuffixes(entry) : ~Half(entry, t)} = whole
    BY DEF TierSuffixes, Half
<1>2. tiers = [i \in DOMAIN list |-> [above |-> list[i], rates |-> TierFrom(entry, list[i])]]
    BY <1>1 DEF Rate
<1>3. whole \subseteq Int /\ IsFiniteSet(whole)
    <2>1. whole \in SUBSET Thresholds /\ IsFiniteSet(Thresholds) /\ Thresholds \subseteq Nat
        BY PricesAssumption
    <2> HIDE DEF whole
    <2>2. IsFiniteSet(whole)
        BY <2>1, FS_Subset, Zenon
    <2> QED
        BY <2>1, <2>2
<1> HIDE DEF whole, list, tiers
<1>4. /\ Cardinality(whole) \in Nat /\ DOMAIN list = places
      /\ \A i \in places : list[i] \in whole
      /\ \A n \in whole : \E i \in places : list[i] = n
      /\ \A i, j \in places : i < j => list[i] < list[j]
    BY <1>3, InOrderLists DEF list
<1> HIDE DEF places
<1>5. DOMAIN tiers = places /\ \A i \in places : tiers[i].above = list[i] /\ tiers[i].rates = TierFrom(entry, list[i])
    BY <1>2, <1>4
<1>6. /\ DOMAIN tiers = places /\ Cardinality(whole) \in Nat
      /\ \A i \in places : tiers[i].above \in whole /\ tiers[i].rates = TierFrom(entry, tiers[i].above)
      /\ \A t \in whole : \E i \in places : tiers[i].above = t
      /\ \A i, j \in places : i < j => tiers[i].above < tiers[j].above
    BY <1>4, <1>5
<1> QED
    BY <1>6 DEF whole, tiers, places

LEMMA BilledAtHighest ==
    ASSUME NEW entry, Publishes(entry), ~Half(entry, BaseTier), NEW usage, Context(usage) \in Nat
    PROVE  /\ Billed(entry, usage) \in Tiers /\ ~Half(entry, Billed(entry, usage))
           /\ TierFor(Rate(entry), Context(usage), usage.service) = TierFrom(entry, Billed(entry, usage))
<1> DEFINE context == Context(usage)
           whole == {t \in Thresholds : ~Half(entry, t)}
           reached == {t \in Thresholds : ~Half(entry, t) /\ t < context}
           rate == Rate(entry)
           tiers == rate.tiers
           crossed == Crossed(rate, context)
           places == 1..Cardinality(whole)
<1>1. /\ DOMAIN tiers = places /\ Cardinality(whole) \in Nat
      /\ \A i \in places : tiers[i].above \in whole /\ tiers[i].rates = TierFrom(entry, tiers[i].above)
      /\ \A t \in whole : \E i \in places : tiers[i].above = t
      /\ \A i, j \in places : i < j => tiers[i].above < tiers[j].above
    BY TiersKept
<1>2. /\ rate.base = TierFrom(entry, BaseTier)
      /\ rate.priority = TierFrom(entry, PriorityTier)
    BY DEF Rate
<1>3. TierFor(rate, context, usage.service) =
          CASE crossed # {} -> tiers[Max(crossed)].rates
            [] crossed = {} /\ usage.service = "priority" /\ rate.priority # NULL -> rate.priority
            [] OTHER -> rate.base
    BY DEF TierFor
<1>4. Billed(entry, usage) =
          CASE reached # {} -> Max(reached)
            [] reached = {} /\ usage.service = "priority" /\ ~Half(entry, PriorityTier) -> PriorityTier
            [] OTHER -> BaseTier
    BY DEF Billed
<1>5. /\ reached \subseteq whole /\ whole \subseteq Thresholds /\ Thresholds \subseteq Nat
      /\ \A t \in whole : t \in reached <=> t < context /\ ~Half(entry, t)
      /\ \A t \in whole : ~Half(entry, t)
    BY PricesAssumption
<1>6. crossed = {i \in places : context > tiers[i].above}
    BY <1>1 DEF Crossed
<1>7. IsFiniteSet(reached) /\ reached \subseteq Int
    <2>1. reached \in SUBSET Thresholds /\ IsFiniteSet(Thresholds) /\ Thresholds \subseteq Nat
        BY PricesAssumption
    <2> HIDE DEF reached
    <2>2. IsFiniteSet(reached)
        BY <2>1, FS_Subset, Zenon
    <2> QED
        BY <2>1, <2>2
<1>8. IsFiniteSet(crossed) /\ crossed \subseteq Int
    <2>1. IsFiniteSet(places) /\ crossed \in SUBSET places /\ places \subseteq Int
        BY <1>1, <1>6, FS_Interval
    <2> HIDE DEF crossed, places
    <2> QED
        BY <2>1, FS_Subset
<1>9. {BaseTier, PriorityTier} \subseteq Tiers /\ Thresholds \subseteq Tiers
    BY DEF Tiers
<1> HIDE DEF context, whole, reached, rate, tiers, crossed
<1>10. context \in Nat
    BY DEF context
<1>11. /\ \A i \in crossed : tiers[i].above \in reached
       /\ \A t \in reached : \E i \in crossed : tiers[i].above = t
    <2>1. \A i \in places : tiers[i].above \in whole /\ tiers[i].above \in Nat
        BY <1>1, <1>5
    <2> QED
        BY <1>1, <1>5, <1>6, <1>10, <2>1
<1>12. CASE reached # {}
    <2>1. crossed # {}
        BY <1>11, <1>12
    <2> DEFINE last == Max(crossed)
               most == Max(reached)
    <2>2. last \in crossed /\ \A i \in crossed : i <= last
        BY <1>8, <2>1, ExtremesAreTaken
    <2>3. most \in reached /\ \A t \in reached : t <= most
        BY <1>7, <1>12, ExtremesAreTaken
    <2> HIDE DEF last, most
    <2>4. tiers[last].above = most
        <3>1. tiers[last].above \in reached /\ tiers[last].above <= most
            BY <1>11, <2>2, <2>3
        <3>2. PICK i \in crossed : tiers[i].above = most
            BY <1>11, <2>3
        <3>3. i \in places /\ last \in places /\ i <= last
            BY <1>6, <2>2
        <3>4. i = last \/ tiers[i].above < tiers[last].above
            BY <1>1, <3>3
        <3>5. most \in Nat /\ tiers[last].above \in Nat
            BY <1>5, <2>3, <3>1
        <3> QED
            BY <3>1, <3>2, <3>4, <3>5
    <2>5. tiers[last].rates = TierFrom(entry, most) /\ last \in places
        BY <1>1, <1>6, <2>2, <2>4
    <2>6. Billed(entry, usage) = most /\ TierFor(rate, context, usage.service) = tiers[last].rates
        BY <1>3, <1>4, <1>12, <2>1 DEF last, most
    <2>7. most \in Tiers /\ ~Half(entry, most)
        BY <1>5, <1>9, <2>3
    <2> QED
        BY <2>5, <2>6, <2>7 DEF rate, context
<1>13. CASE reached = {}
    <2>1. crossed = {}
        BY <1>11, <1>13
    <2>2. rate.priority # NULL <=> ~Half(entry, PriorityTier)
        BY <1>2, <1>9, WholeTier
    <2> QED
        BY <1>2, <1>3, <1>4, <1>9, <1>13, <2>1, <2>2 DEF rate, context
<1> QED
    BY <1>12, <1>13

\* A call costs what the vendor asks for it, whole at one tier (PricedAsTheVendorSays).
THEOREM PricedWhole ==
    ASSUME NEW entry, Publishes(entry), ~Half(entry, BaseTier), NEW usage, Context(usage) \in Nat
    PROVE  ListPrice(Rate(entry), usage) = Owed(entry, Billed(entry, usage), usage)
<1> DEFINE tier == Billed(entry, usage)
           rates == TierFor(Rate(entry), Context(usage), usage.service)
           search == First(entry.search)
           Asks(b) == First(<<entry.rates[<<b, tier>>], entry.rates[<<"input", tier>>]>>)
           hour == First(<<entry.rates[<<"write1h", tier>>], entry.rates[<<"write1h", BaseTier>>],
                           Asks("write5m")>>)
<1>1. tier \in Tiers /\ ~Half(entry, tier) /\ rates = TierFrom(entry, tier)
    BY BilledAtHighest
<1>2. Rate(entry).search = search
    BY DEF Rate
<1>3. ListPrice(Rate(entry), usage) =
          usage.input * rates["input"] + usage.read * rates["read"] + usage.write5m * rates["write5m"]
          + usage.write1h * rates["write1h"] + usage.output * rates["output"]
          + usage.searches * (IF Rate(entry).search = NULL THEN 0 ELSE Rate(entry).search)
    BY DEF ListPrice
<1>4. Owed(entry, tier, usage) =
          usage.input * Asks("input") + usage.read * Asks("read") + usage.write5m * Asks("write5m")
          + usage.write1h * hour + usage.output * Asks("output")
          + usage.searches * (IF search = NULL THEN 0 ELSE search)
    BY DEF Owed
<1> HIDE DEF tier, rates, search
<1>5. \A b \in Buckets : rates[b] = ChargedAt(entry, tier, b)
    BY <1>1, WholeTier
<1>6. \A b \in Buckets \ {"write1h"} : Asks(b) = ChargedAt(entry, tier, b)
    BY FirstSaid DEF ChargedAt
<1>7. hour = ChargedAt(entry, tier, "write1h")
    <2>1. Asks("write5m") = IF entry.rates[<<"write5m", tier>>] # NULL THEN entry.rates[<<"write5m", tier>>]
                            ELSE entry.rates[<<"input", tier>>]
        BY FirstSaid
    <2> HIDE DEF Asks
    <2>2. hour = IF entry.rates[<<"write1h", tier>>] # NULL THEN entry.rates[<<"write1h", tier>>]
                 ELSE IF entry.rates[<<"write1h", BaseTier>>] # NULL THEN entry.rates[<<"write1h", BaseTier>>]
                 ELSE Asks("write5m")
        BY FirstSaid
    <2> QED
        BY <2>1, <2>2 DEF ChargedAt
<1> HIDE DEF hour, Asks
<1>8. /\ rates["input"] = Asks("input") /\ rates["read"] = Asks("read")
      /\ rates["write5m"] = Asks("write5m") /\ rates["write1h"] = hour
      /\ rates["output"] = Asks("output")
    BY <1>5, <1>6, <1>7 DEF Buckets
<1>9. ListPrice(Rate(entry), usage) = Owed(entry, tier, usage)
    BY <1>2, <1>3, <1>4, <1>8
<1> QED
    BY <1>9 DEF tier


\* The keys a model is looked up under, as a set: its id, and as its provider files it.
Named(id, provider) ==
    {id} \cup (IF provider = NULL THEN {}
               ELSE {<<provider>> \o id} \cup
                    (IF Len(id) > 1 THEN {<<provider, Last(id)>>} ELSE {}))
Plain(id) == [id EXCEPT ![Len(id)] = PlainName[@]]

LEMMA RangeJoins ==
    ASSUME NEW Parts, NEW s \in Seq(Parts), NEW t \in Seq(Parts)
    PROVE  s \o t \in Seq(Parts) /\ Range(s \o t) = Range(s) \cup Range(t)
<1> DEFINE joined == s \o t
           m == Len(s)
           n == Len(t)
<1>1. /\ joined \in Seq(Parts) /\ Len(joined) = m + n /\ m \in Nat /\ n \in Nat
      /\ \A i \in 1..m + n : joined[i] = IF i <= m THEN s[i] ELSE t[i - m]
    BY ConcatProperties
<1>2. DOMAIN joined = 1..m + n /\ DOMAIN s = 1..m /\ DOMAIN t = 1..n
    BY <1>1
<1> HIDE DEF joined, m, n
<1>3. Range(joined) \subseteq Range(s) \cup Range(t)
    <2> SUFFICES ASSUME NEW i \in 1..m + n PROVE joined[i] \in Range(s) \cup Range(t)
        BY <1>2 DEF Range
    <2>1. CASE i <= m
        BY <1>1, <1>2, <2>1 DEF Range
    <2>2. CASE ~(i <= m)
        <3>1. i - m \in 1..n
            BY <1>1, <2>2
        <3> QED
            BY <1>1, <1>2, <2>2, <3>1 DEF Range
    <2> QED
        BY <2>1, <2>2
<1>4. Range(s) \subseteq Range(joined)
    <2> SUFFICES ASSUME NEW i \in 1..m PROVE s[i] \in Range(joined)
        BY <1>2 DEF Range
    <2>1. i \in 1..m + n /\ i <= m
        BY <1>1
    <2> QED
        BY <1>1, <1>2, <2>1 DEF Range
<1>5. Range(t) \subseteq Range(joined)
    <2> SUFFICES ASSUME NEW i \in 1..n PROVE t[i] \in Range(joined)
        BY <1>2 DEF Range
    <2>1. m + i \in 1..m + n /\ ~(m + i <= m) /\ (m + i) - m = i
        BY <1>1
    <2> QED
        BY <1>1, <1>2, <2>1 DEF Range
<1> QED
    BY <1>1, <1>3, <1>4, <1>5 DEF joined

LEMMA RangeOfOne == \A x : Range(<<x>>) = {x} /\ Range(<<>>) = {}
<1> TAKE x
<1> DEFINE one == <<x>>
<1>1. DOMAIN one = 1..1 /\ one[1] = x
    OBVIOUS
<1>2. DOMAIN <<>> = 1..0
    OBVIOUS
<1> HIDE DEF one
<1>3. 1..1 = {1} /\ 1..0 = {}
    OBVIOUS
<1>4. Range(one) = {x}
    BY <1>1, <1>3 DEF Range
<1> QED
    BY <1>2, <1>3, <1>4 DEF Range, one

LEMMA CandidatesAreNamed ==
    ASSUME NEW Parts, NEW id \in Seq(Parts), NEW provider \in Parts \cup {NULL}
    PROVE  /\ Candidates(id, provider) \in Seq(Seq(Parts))
           /\ Range(Candidates(id, provider)) = Named(id, provider)
<1> DEFINE Keys == Seq(Parts)
           own == <<id>>
           filed == <<<<provider>> \o id>>
           leaf == IF Len(id) > 1 THEN <<<<provider, Last(id)>>>> ELSE <<>>
           others == filed \o leaf
<1>1. own \in Seq(Keys) /\ Range(own) = {id} /\ <<>> \in Seq(Keys)
    BY RangeOfOne
<1>2. CASE provider = NULL
    <2>1. Candidates(id, provider) = own \o <<>>
        BY <1>2 DEF Candidates
    <2> HIDE DEF own, Keys
    <2>2. own \o <<>> = own
        BY <1>1, ConcatEmptySeq
    <2> QED
        BY <1>1, <1>2, <2>1, <2>2 DEF Named, Keys
<1>3. CASE provider # NULL
    <2>1. Candidates(id, provider) = own \o others
        BY <1>3 DEF Candidates
    <2>2. <<provider>> \o id \in Keys
        <3>1. <<provider>> \in Seq(Parts)
            BY <1>3
        <3> QED
            BY <3>1, RangeJoins
    <2>3. Len(id) > 1 => <<provider, Last(id)>> \in Keys
        <3>1. Len(id) > 1 => id[Len(id)] \in Parts
            OBVIOUS
        <3> QED
            BY <1>3, <3>1 DEF Last
    <2> DEFINE key == <<provider>> \o id
               short == <<provider, Last(id)>>
    <2>4. filed = <<key>> /\ leaf = IF Len(id) > 1 THEN <<short>> ELSE <<>>
        OBVIOUS
    <2>5. key \in Keys /\ (Len(id) > 1 => short \in Keys)
        BY <2>2, <2>3
    <2> HIDE DEF key, short, Keys, filed, leaf
    <2>6. filed \in Seq(Keys) /\ leaf \in Seq(Keys)
        BY <2>4, <2>5
    <2>7. Range(filed) = {key} /\ Range(leaf) = IF Len(id) > 1 THEN {short} ELSE {}
        BY <2>4, RangeOfOne
    <2>8. others \in Seq(Keys) /\ Range(others) = Range(filed) \cup Range(leaf)
        BY <2>6, RangeJoins
    <2> HIDE DEF own, others
    <2>9. own \o others \in Seq(Keys) /\ Range(own \o others) = Range(own) \cup Range(others)
        BY <1>1, <2>8, RangeJoins
    <2>10. Named(id, provider) = {id} \cup {key} \cup (IF Len(id) > 1 THEN {short} ELSE {})
        BY <1>3 DEF Named, key, short
    <2> QED
        BY <1>1, <2>1, <2>7, <2>8, <2>9, <2>10 DEF Keys
<1> QED
    BY <1>2, <1>3

\* A model is looked up under the keys it is named by, and under no other.
LEMMA LookedUpByName ==
    ASSUME NEW Parts, NEW id \in Seq(Parts), Plain(id) \in Seq(Parts), id # NULL,
           NEW provider \in Parts \cup {NULL}, NEW models
    PROVE  LET named == (Named(id, provider) \cup Named(Plain(id), provider)) \cap DOMAIN models
           IN  IF named = {} THEN LookupRate(models, id, provider) = NULL
               ELSE \E k \in named : LookupRate(models, id, provider) = models[k]
<1> DEFINE keys == Candidates(id, provider) \o Candidates(Plain(id), provider)
           hits == {i \in DOMAIN keys : keys[i] \in DOMAIN models}
           named == (Named(id, provider) \cup Named(Plain(id), provider)) \cap DOMAIN models
<1>1. LookupRate(models, id, provider) = IF hits = {} THEN NULL ELSE models[keys[Min(hits)]]
    BY DEF LookupRate, Plain
<1>2. /\ keys \in Seq(Seq(Parts))
      /\ Range(keys) = Named(id, provider) \cup Named(Plain(id), provider)
    <2> DEFINE Keys == Seq(Parts)
               one == Candidates(id, provider)
               two == Candidates(Plain(id), provider)
    <2>1. /\ one \in Seq(Keys) /\ Range(one) = Named(id, provider)
          /\ two \in Seq(Keys) /\ Range(two) = Named(Plain(id), provider)
        BY CandidatesAreNamed
    <2> HIDE DEF Keys, one, two
    <2>2. one \o two \in Seq(Keys) /\ Range(one \o two) = Range(one) \cup Range(two)
        BY <2>1, RangeJoins
    <2> QED
        BY <2>1, <2>2 DEF Keys, one, two
<1> HIDE DEF keys
<1>3. /\ \A i \in hits : keys[i] \in named
      /\ named # {} => hits # {}
    BY <1>2 DEF Range
<1>4. hits \subseteq Int /\ IsFiniteSet(hits)
    <2>1. PICK n \in Nat : DOMAIN keys = 1..n
        BY <1>2
    <2>2. hits \in SUBSET (1..n) /\ IsFiniteSet(1..n) /\ 1..n \subseteq Int
        BY <2>1, FS_Interval
    <2> HIDE DEF hits
    <2>3. IsFiniteSet(hits)
        BY <2>2, FS_Subset, Zenon
    <2> QED
        BY <2>2, <2>3
<1> HIDE DEF hits
<1>5. CASE hits = {}
    BY <1>1, <1>3, <1>5
<1>6. CASE hits # {}
    <2>1. Min(hits) \in hits
        BY <1>4, <1>6, ExtremesAreTaken
    <2>2. keys[Min(hits)] \in named
        BY <1>3, <2>1
    <2> QED
        BY <1>1, <1>6, <2>2
<1> QED
    BY <1>5, <1>6


\* What a call may report.
Counts(usage) ==
    /\ usage.input \in Nat /\ usage.read \in Nat /\ usage.write5m \in Nat /\ usage.write1h \in Nat
    /\ usage.output \in Nat /\ usage.searches \in Nat

LEMMA SearchSaid ==
    ASSUME NEW entry, Publishes(entry)
    PROVE  First(entry.search) \in Nat \cup {NULL}
<1> DEFINE s == entry.search
           said == {i \in DOMAIN s : s[i] # NULL}
<1>1. First(s) = IF said = {} THEN NULL ELSE s[Min(said)]
    BY DEF First
<1>2. s \in Seq(Nat \cup {NULL})
    BY DEF Publishes
<1> HIDE DEF s
<1>3. PICK n \in Nat : DOMAIN s = 1..n /\ \A i \in 1..n : s[i] \in Nat \cup {NULL}
    BY <1>2
<1>4. said \subseteq Int /\ IsFiniteSet(said) /\ said \subseteq 1..n
    <2>1. said \in SUBSET (1..n) /\ IsFiniteSet(1..n) /\ 1..n \subseteq Int
        BY <1>3, FS_Interval
    <2> HIDE DEF said
    <2>2. IsFiniteSet(said)
        BY <2>1, FS_Subset, Zenon
    <2> QED
        BY <2>1, <2>2
<1> HIDE DEF said
<1>5. said # {} => Min(said) \in 1..n
    BY <1>4, ExtremesAreTaken
<1> QED
    BY <1>1, <1>3, <1>5 DEF s

LEMMA KeptOfAModel ==
    ASSUME NEW entry, Publishes(entry), ~Half(entry, BaseTier)
    PROVE  Rate(entry) \in ModelRates
<1> DEFINE whole == {t \in Thresholds : ~Half(entry, t)}
           n == Cardinality(whole)
           tiers == Rate(entry).tiers
           list == InOrder({t \in TierSuffixes(entry) : ~Half(entry, t)})
           Tier == [above : Nat, rates : TierRates]
<1>1. {BaseTier, PriorityTier} \subseteq Tiers /\ Thresholds \subseteq Tiers /\ Thresholds \subseteq Nat
    BY PricesAssumption DEF Tiers
<1>2. /\ DOMAIN tiers = 1..n /\ n \in Nat
      /\ \A i \in 1..n : tiers[i].above \in whole
    BY TiersKept
<1>3. tiers = [i \in DOMAIN list |-> [above |-> list[i], rates |-> TierFrom(entry, list[i])]]
    BY DEF Rate
<1>4. \A t \in whole : t \in Nat /\ TierFrom(entry, t) \in TierRates
    BY <1>1, WholeTier
<1> HIDE DEF list, tiers, whole, n
<1>5. tiers \in Seq(Tier)
    <2>1. \A i \in 1..n : tiers[i] = [above |-> list[i], rates |-> TierFrom(entry, list[i])]
        BY <1>2, <1>3
    <2>2. \A i \in 1..n : list[i] \in whole
        BY <1>2, <2>1
    <2>3. \A i \in 1..n : tiers[i] \in Tier
        <3> SUFFICES ASSUME NEW i \in 1..n PROVE tiers[i] \in Tier
            OBVIOUS
        <3> DEFINE above == list[i]
                   rates == TierFrom(entry, above)
        <3>1. above \in Nat /\ rates \in TierRates /\ tiers[i] = [above |-> above, rates |-> rates]
            BY <1>4, <2>1, <2>2
        <3> HIDE DEF above, rates
        <3> QED
            BY <3>1
    <2>4. tiers = [i \in 1..n |-> tiers[i]]
        BY <1>2, <1>3
    <2> HIDE DEF Tier
    <2>5. [i \in 1..n |-> tiers[i]] \in [1..n -> Tier]
        BY <2>3
    <2> QED
        BY <1>2, <2>4, <2>5, SeqDef
<1>6. TierFrom(entry, BaseTier) \in TierRates /\ TierFrom(entry, PriorityTier) \in TierRates \cup {NULL}
    BY <1>1, WholeTier
<1>7. First(entry.search) \in Nat \cup {NULL}
    BY SearchSaid
<1>8. Rate(entry) = [base |-> TierFrom(entry, BaseTier), tiers |-> tiers,
                     priority |-> TierFrom(entry, PriorityTier), search |-> First(entry.search)]
    BY DEF Rate, tiers
<1> QED
    BY <1>5, <1>6, <1>7, <1>8 DEF ModelRates

LEMMA OwedIsANumber ==
    ASSUME NEW entry, Publishes(entry), NEW tier \in Tiers, ~Half(entry, tier), NEW usage, Counts(usage)
    PROVE  Owed(entry, tier, usage) \in Nat
<1> DEFINE Asks(b) == First(<<entry.rates[<<b, tier>>], entry.rates[<<"input", tier>>]>>)
           hour == First(<<entry.rates[<<"write1h", tier>>], entry.rates[<<"write1h", BaseTier>>],
                           Asks("write5m")>>)
           search == First(entry.search)
           charge == IF search = NULL THEN 0 ELSE search
<1>1. Owed(entry, tier, usage) =
          usage.input * Asks("input") + usage.read * Asks("read") + usage.write5m * Asks("write5m")
          + usage.write1h * hour + usage.output * Asks("output") + usage.searches * charge
    BY DEF Owed
<1>2. charge \in Nat
    BY SearchSaid
<1>3. \A b \in Buckets, t \in Tiers : entry.rates[<<b, t>>] \in Nat \cup {NULL}
    BY DEF Publishes
<1>4. entry.rates[<<"input", tier>>] \in Nat
    BY <1>3 DEF Half, Buckets
<1>5. \A b \in Buckets : Asks(b) \in Nat
    <2> SUFFICES ASSUME NEW b \in Buckets PROVE Asks(b) \in Nat
        OBVIOUS
    <2>1. Asks(b) = IF entry.rates[<<b, tier>>] # NULL THEN entry.rates[<<b, tier>>]
                    ELSE entry.rates[<<"input", tier>>]
        BY FirstSaid
    <2> QED
        BY <1>3, <1>4, <2>1
<1> HIDE DEF Asks, charge
<1>6. hour \in Nat
    <2>1. hour = IF entry.rates[<<"write1h", tier>>] # NULL THEN entry.rates[<<"write1h", tier>>]
                 ELSE IF entry.rates[<<"write1h", BaseTier>>] # NULL THEN entry.rates[<<"write1h", BaseTier>>]
                 ELSE Asks("write5m")
        BY FirstSaid
    <2> QED
        BY <1>3, <1>5, <2>1 DEF Buckets, Tiers
<1> HIDE DEF hour
<1>7. \A x, y \in Nat : x * y \in Nat
    OBVIOUS
<1>8. /\ usage.input * Asks("input") \in Nat /\ usage.read * Asks("read") \in Nat
      /\ usage.write5m * Asks("write5m") \in Nat /\ usage.write1h * hour \in Nat
      /\ usage.output * Asks("output") \in Nat /\ usage.searches * charge \in Nat
    <2>1. /\ Asks("input") \in Nat /\ Asks("read") \in Nat /\ Asks("write5m") \in Nat
          /\ Asks("output") \in Nat
        BY <1>5 DEF Buckets
    <2> QED
        BY <1>2, <1>6, <1>7, <2>1 DEF Counts
<1>9. \A p, q, r, s, u, v \in Nat : p + q + r + s + u + v \in Nat
    OBVIOUS
<1> QED
    BY <1>1, <1>8, <1>9

LEMMA NamedByTheEnd ==
    ASSUME NEW Parts, NEW id \in Seq(Parts), Len(id) > 0, NEW provider \in Parts \cup {NULL}
    PROVE  /\ \A k \in Named(id, provider) : Last(k) = Last(id)
           /\ Plain(id) \in Seq(Parts) => Len(Plain(id)) = Len(id) /\ Last(Plain(id)) = PlainName[Last(id)]
<1>1. ASSUME provider # NULL PROVE Last(<<provider>> \o id) = Last(id)
    <2> DEFINE one == <<provider>>
    <2>1. one \in Seq(Parts) /\ Len(one) = 1
        BY <1>1
    <2> HIDE DEF one
    <2>2. /\ Len(one \o id) = 1 + Len(id)
          /\ \A i \in 1..1 + Len(id) : (one \o id)[i] = IF i <= 1 THEN one[i] ELSE id[i - 1]
        <3>1. /\ Len(one \o id) = Len(one) + Len(id)
              /\ \A i \in 1..Len(one) + Len(id) :
                    (one \o id)[i] = IF i <= Len(one) THEN one[i] ELSE id[i - Len(one)]
            BY <2>1, ConcatProperties, Zenon
        <3> QED
            BY <2>1, <3>1
    <2>3. Len(id) \in Nat
        OBVIOUS
    <2>4. (one \o id)[1 + Len(id)] = id[Len(id)]
        BY <2>2, <2>3
    <2> QED
        BY <2>2, <2>4 DEF Last, one
<1>2. ASSUME NEW x PROVE Last(<<provider, x>>) = x
    <2> DEFINE two == <<provider, x>>
    <2>1. Len(two) = 2 /\ two[2] = x
        OBVIOUS
    <2> HIDE DEF two
    <2> QED
        BY <2>1 DEF Last, two
<1>3. \A k \in Named(id, provider) : Last(k) = Last(id)
    BY <1>1, <1>2 DEF Named
<1>4. Plain(id) \in Seq(Parts) => Len(Plain(id)) = Len(id) /\ Last(Plain(id)) = PlainName[Last(id)]
    <2> DEFINE n == Len(id)
               plain == Plain(id)
    <2>1. n \in Nat /\ n \in 1..n /\ DOMAIN id = 1..n
        OBVIOUS
    <2>2. plain = [id EXCEPT ![n] = PlainName[id[n]]]
        BY DEF Plain
    <2> HIDE DEF n, plain
    <2>3. DOMAIN plain = 1..n /\ plain[n] = PlainName[id[n]]
        BY <2>1, <2>2
    <2>4. plain \in Seq(Parts) => Len(plain) = n
        <3> SUFFICES ASSUME plain \in Seq(Parts) PROVE Len(plain) = n
            OBVIOUS
        <3>1. Len(plain) \in Nat /\ DOMAIN plain = 1..Len(plain)
            OBVIOUS
        <3> DEFINE m == Len(plain)
        <3>2. m \in Nat /\ 1..m = 1..n
            BY <2>3, <3>1
        <3> HIDE DEF m
        <3>3. m = n
            BY <2>1, <3>2
        <3> QED
            BY <3>3 DEF m
    <2> QED
        BY <2>3, <2>4 DEF Last, n, plain
<1> QED
    BY <1>3, <1>4

\* What a model is sold for, and by which of its vendor's entries: PricedAsTheVendorSays of
\* every file, id and call, where only one entry of the file goes by the last segment of the id.
THEOREM PricedByTheVendor ==
    ASSUME NEW Parts, NEW id \in Seq(Parts), Plain(id) \in Seq(Parts), id # NULL, Len(id) > 0,
           NEW provider \in Parts \cup {NULL}, NEW subscription \in BOOLEAN,
           NEW usage, Counts(usage),
           NEW raw, \A k \in DOMAIN raw : Publishes(raw[k]),
           \E k \in DOMAIN raw : raw[k].mode \in {"chat", "responses"} /\ ~Half(raw[k], BaseTier),
           \E key \in Named(id, provider) \cup Named(Plain(id), provider) :
              \A k \in DOMAIN raw : Last(k) \in {Last(id), PlainName[Last(id)]} => k = key
    PROVE  PricedAsPublished(raw, id, usage, subscription, provider)
<1> DEFINE ends == {Last(id), PlainName[Last(id)]}
           named == Named(id, provider) \cup Named(Plain(id), provider)
           models == NormaliseCatalog(raw)
           priceable == {k \in DOMAIN raw :
                            raw[k].mode \in {"chat", "responses"} /\ ~Half(raw[k], BaseTier)}
           p == PriceUsage(models, id, usage, subscription, provider)
           rate == LookupRate(models, id, provider)
           mine == CHOOSE k \in DOMAIN raw : Last(k) \in ends
<1>1. models = [k \in priceable |-> Rate(raw[k])] /\ DOMAIN models = priceable
    BY DEF NormaliseCatalog
<1>2. \A k \in named : Last(k) \in ends
    <2>1. Len(Plain(id)) = Len(id) /\ Last(Plain(id)) = PlainName[Last(id)]
        BY NamedByTheEnd
    <2>2. \A k \in Named(id, provider) : Last(k) = Last(id)
        BY NamedByTheEnd
    <2>3. \A k \in Named(Plain(id), provider) : Last(k) = Last(Plain(id))
        BY <2>1, NamedByTheEnd
    <2> QED
        BY <2>1, <2>2, <2>3
<1>3. \A k \in DOMAIN raw : Last(k) \in ends => k \in named /\ k = mine
    BY <1>2
<1>4. p = [cost |-> IF subscription THEN NULL ELSE p.notional,
           basis |-> CASE subscription -> "subscription"
                       [] ~subscription /\ p.notional # NULL -> "list"
                       [] OTHER -> "none",
           notional |-> IF rate = NULL THEN NULL ELSE ListPrice(rate, usage)]
    BY DEF PriceUsage
<1>5. /\ p.notional = IF rate = NULL THEN NULL ELSE ListPrice(rate, usage)
      /\ subscription => p.cost = NULL /\ p.basis = "subscription"
      /\ ~subscription => p.cost = p.notional
    BY DEF PriceUsage
<1> HIDE DEF models, named, p, rate, mine, priceable
<1>6. IF named \cap priceable = {} THEN rate = NULL
      ELSE \E k \in named \cap priceable : rate = models[k]
    <2>1. IF (Named(id, provider) \cup Named(Plain(id), provider)) \cap DOMAIN models = {}
          THEN LookupRate(models, id, provider) = NULL
          ELSE \E k \in (Named(id, provider) \cup Named(Plain(id), provider)) \cap DOMAIN models :
                  LookupRate(models, id, provider) = models[k]
        BY LookedUpByName
    <2> QED
        BY <1>1, <2>1, Zenon DEF named, rate
<1>7. CASE named \cap priceable = {}
    <2>1. p.notional = NULL
        BY <1>5, <1>6, <1>7
    <2>2. ~\E k \in DOMAIN models : Last(k) \in ends
        BY <1>1, <1>3, <1>7 DEF priceable
    <2> QED
        BY <1>5, <2>1, <2>2 DEF PricedAsPublished, p, models
<1>8. CASE named \cap priceable # {}
    <2>1. PICK k \in named \cap priceable : rate = models[k]
        BY <1>6, <1>8
    <2>2. k \in DOMAIN raw /\ ~Half(raw[k], BaseTier) /\ Last(k) \in ends /\ k = mine /\ Publishes(raw[k])
        BY <1>2, <1>3 DEF priceable
    <2>3. rate = Rate(raw[k]) /\ rate # NULL
        <3>1. rate = Rate(raw[k])
            BY <1>1, <2>1
        <3> QED
            BY <2>2, <3>1, KeptOfAModel, PricesAssumption
    <2>4. Context(usage) \in Nat
        <3>1. \A q, r, s, u \in Nat : q + r + s + u \in Nat
            OBVIOUS
        <3>2. /\ usage.input \in Nat /\ usage.read \in Nat /\ usage.write5m \in Nat
              /\ usage.write1h \in Nat
            BY DEF Counts
        <3> QED
            BY <3>1, <3>2 DEF Context
    <2>5. p.notional = Owed(raw[k], Billed(raw[k], usage), usage)
        BY <1>5, <2>2, <2>3, <2>4, PricedWhole
    <2>6. p.notional \in Nat
        <3>1. Billed(raw[k], usage) \in Tiers /\ ~Half(raw[k], Billed(raw[k], usage))
            BY <2>2, <2>4, BilledAtHighest
        <3> QED
            BY <2>2, <2>5, <3>1, OwedIsANumber
    <2>7. p.notional # NULL
        BY <2>6, PricesAssumption
    <2>8. \E j \in DOMAIN models : Last(j) \in ends
        BY <1>1, <2>1, <2>2
    <2>9. p.notional = Owed(raw[mine], Billed(raw[mine], usage), usage)
        BY <2>2, <2>5
    <2> QED
        BY <1>5, <2>7, <2>8, <2>9 DEF PricedAsPublished, p, models, mine
<1> QED
    BY <1>7, <1>8

LEMMA PlainOfOne ==
    ASSUME NEW x
    PROVE  /\ Plain(<<x>>) = <<PlainName[x]>> /\ Last(<<x>>) = x /\ Len(<<x>>) = 1
           /\ \A y : Plain(<<y, x>>) = <<y, PlainName[x]>> /\ Last(<<y, x>>) = x /\ Len(<<y, x>>) = 2
<1>1. Len(<<x>>) = 1 /\ <<x>>[1] = x
    OBVIOUS
<1>2. [<<x>> EXCEPT ![1] = PlainName[x]] = <<PlainName[x]>>
    OBVIOUS
<1>3. ASSUME NEW y
      PROVE  /\ Len(<<y, x>>) = 2 /\ <<y, x>>[2] = x
             /\ [<<y, x>> EXCEPT ![2] = PlainName[x]] = <<y, PlainName[x]>>
    OBVIOUS
<1> QED
    BY <1>1, <1>2, <1>3 DEF Plain, Last


LEMMA PairJoined ==
    ASSUME NEW x, NEW y
    PROVE  <<x>> \o <<y>> = <<x, y>>
<1> DEFINE one == <<x>>
           two == <<y>>
           both == <<x, y>>
           joined == one \o two
<1>1. /\ one \in Seq({x, y}) /\ two \in Seq({x, y}) /\ both \in Seq({x, y})
      /\ Len(one) = 1 /\ Len(two) = 1 /\ Len(both) = 2
      /\ one[1] = x /\ two[1] = y /\ both[1] = x /\ both[2] = y
    OBVIOUS
<1> HIDE DEF one, two, both
<1>2. /\ joined \in Seq({x, y})
      /\ Len(joined) = Len(one) + Len(two)
      /\ \A i \in 1..Len(one) + Len(two) :
            joined[i] = IF i <= Len(one) THEN one[i] ELSE two[i - Len(one)]
    BY <1>1, ConcatProperties, Zenon
<1> HIDE DEF joined
<1>3. Len(joined) = 2 /\ joined[1] = x /\ joined[2] = y
    BY <1>1, <1>2
<1>4. \A i \in 1..2 : joined[i] = both[i]
    BY <1>1, <1>3
<1>5. joined = both
    BY <1>1, <1>2, <1>3, <1>4, SeqEqual
<1> QED
    BY <1>5 DEF joined, one, two, both

-----------------------------------------------------------------------------
(* the stream *)

-----------------------------------------------------------------------------
(* positions in order *)

UpTo(D, i) == {j \in D : j <= i}

\* Each of a finite set of numbers has a place in it.
LEMMA PlacesTaken ==
    ASSUME NEW D \in SUBSET Nat, IsFiniteSet(D)
    PROVE  /\ Cardinality(D) \in Nat
           /\ \A i \in D : Cardinality(UpTo(D, i)) \in 1..Cardinality(D)
           /\ \A i, k \in D : i < k => Cardinality(UpTo(D, i)) < Cardinality(UpTo(D, k))
           /\ \A n \in 1..Cardinality(D) : \E i \in D : Cardinality(UpTo(D, i)) = n
<1> DEFINE order == {p \in D \X D : p[1] < p[2]}
<1>1. \A i, k \in D : <<i, k>> \in order <=> i < k
    OBVIOUS
<1>2. StrictOrder(order, D)
    BY <1>1 DEF StrictOrder
<1> HIDE DEF order
<1>3. \A i \in D : UpTo(D, i) = BeforeIn(order, D, i) \cup {i} /\ i \notin BeforeIn(order, D, i)
    <2>1. \A i, j \in D : j <= i <=> j < i \/ j = i
        OBVIOUS
    <2> SUFFICES ASSUME NEW i \in D
                 PROVE  UpTo(D, i) = BeforeIn(order, D, i) \cup {i} /\ i \notin BeforeIn(order, D, i)
        OBVIOUS
    <2>2. BeforeIn(order, D, i) = {j \in D : j < i}
        BY <1>1 DEF BeforeIn
    <2>3. ~(i < i)
        OBVIOUS
    <2> QED
        BY <2>1, <2>2, <2>3 DEF UpTo
<1>4. Cardinality(D) \in Nat
    BY FS_CardinalityType
<1>5. \A i \in D : Cardinality(BeforeIn(order, D, i)) \in Nat
                   /\ Cardinality(BeforeIn(order, D, i)) < Cardinality(D)
    BY <1>2, RankGrows
<1>6. \A i \in D : Cardinality(UpTo(D, i)) = Cardinality(BeforeIn(order, D, i)) + 1
    <2> SUFFICES ASSUME NEW i \in D
                 PROVE  Cardinality(UpTo(D, i)) = Cardinality(BeforeIn(order, D, i)) + 1
        OBVIOUS
    <2>1. IsFiniteSet(BeforeIn(order, D, i))
        BY FS_Subset DEF BeforeIn
    <2> QED
        BY <1>3, <2>1, FS_AddElement
<1>7. \A i, k \in D : i < k => Cardinality(BeforeIn(order, D, i)) < Cardinality(BeforeIn(order, D, k))
    BY <1>1, <1>2, RankGrows
<1>8. \A n \in 1..Cardinality(D) : \E i \in D : Cardinality(BeforeIn(order, D, i)) + 1 = n
    BY <1>2, RanksAreTaken
<1> QED
    BY <1>4, <1>5, <1>6, <1>7, <1>8

LEMMA SizeIsSize == \A D : S!Cardinality(D) = Cardinality(D)
BY DEF S!Cardinality, Cardinality

LEMMA InOrderIs ==
    ASSUME NEW D \in SUBSET Nat, IsFiniteSet(D)
    PROVE  /\ Cardinality(D) \in Nat
           /\ S!InOrder(D) \in Seq(D) /\ Len(S!InOrder(D)) = Cardinality(D)
           /\ \A n \in 1..Cardinality(D) : /\ S!InOrder(D)[n] \in D
                                           /\ Cardinality(UpTo(D, S!InOrder(D)[n])) = n
           /\ \A i \in D : /\ Cardinality(UpTo(D, i)) \in 1..Cardinality(D)
                           /\ S!InOrder(D)[Cardinality(UpTo(D, i))] = i
           /\ \A m, n \in 1..Cardinality(D) : m < n => S!InOrder(D)[m] < S!InOrder(D)[n]
<1> DEFINE N == Cardinality(D)
           place == [i \in D |-> Cardinality(UpTo(D, i))]
           listed == [n \in 1..S!Cardinality(D) |-> CHOOSE i \in D : S!Cardinality(UpTo(D, i)) = n]
<1>1. /\ N \in Nat
      /\ \A i \in D : place[i] \in 1..N
      /\ \A i, k \in D : i < k => place[i] < place[k]
      /\ \A n \in 1..N : \E i \in D : place[i] = n
    BY PlacesTaken
<1>2. S!InOrder(D) = listed
    BY DEF S!InOrder, UpTo
<1>9. S!Cardinality(D) = N /\ \A i \in D : S!Cardinality(UpTo(D, i)) = Cardinality(UpTo(D, i))
    BY SizeIsSize
<1>3. \A i \in D : Cardinality(UpTo(D, i)) = place[i]
    OBVIOUS
<1> HIDE DEF N, place
<1>4. \A n \in 1..N : listed[n] \in D /\ place[listed[n]] = n
    <2> SUFFICES ASSUME NEW n \in 1..N PROVE listed[n] \in D /\ place[listed[n]] = n
        OBVIOUS
    <2>1. \E i \in D : S!Cardinality(UpTo(D, i)) = n
        BY <1>1, <1>3, <1>9
    <2>3. listed[n] \in D /\ S!Cardinality(UpTo(D, listed[n])) = n
        BY <2>1, <1>9
    <2>2. listed[n] \in D /\ Cardinality(UpTo(D, listed[n])) = n
        BY <2>3, <1>9
    <2> HIDE DEF listed
    <2> QED
        BY <1>3, <2>2
<1>5. listed \in [1..N -> D]
    BY <1>4, <1>9
<1> HIDE DEF listed
<1>6. \A i \in D : listed[place[i]] = i
    <2> SUFFICES ASSUME NEW i \in D PROVE listed[place[i]] = i
        OBVIOUS
    <2>1. listed[place[i]] \in D /\ place[listed[place[i]]] = place[i]
        BY <1>1, <1>4
    <2> HIDE DEF listed
    <2> DEFINE l == listed[place[i]]
    <2>2. (i < l => place[i] < place[l]) /\ (l < i => place[l] < place[i])
        <3>1. l \in D
            BY <2>1
        <3> HIDE DEF l
        <3> QED
            BY <3>1, <1>1
    <2>5. place[i] \in Nat
        BY <1>1
    <2>3. i \in Nat /\ l \in Nat /\ place[l] = place[i]
        BY <2>1
    <2> HIDE DEF l
    <2>4. l = i
        BY <2>2, <2>3, <2>5
    <2> QED
        BY <2>4 DEF l
<1>7. \A m, n \in 1..N : m < n => listed[m] < listed[n]
    <2> SUFFICES ASSUME NEW m \in 1..N, NEW n \in 1..N, m < n PROVE listed[m] < listed[n]
        OBVIOUS
    <2>1. listed[m] \in D /\ listed[n] \in D /\ place[listed[m]] = m /\ place[listed[n]] = n
        BY <1>4
    <2>2. (listed[n] < listed[m] => place[listed[n]] < place[listed[m]]) /\ ~(n < m) /\ m # n
        <3>1. \A i, k \in D : i < k => place[i] < place[k]
            BY <1>1
        <3>2. listed[n] < listed[m] => place[listed[n]] < place[listed[m]]
            BY <2>1, <3>1
        <3>3. ~(n < m) /\ m # n
            BY <1>1
        <3> QED
            BY <3>2, <3>3
    <2>3. listed[m] \in Nat /\ listed[n] \in Nat /\ listed[m] # listed[n]
        BY <2>1, <2>2
    <2> QED
        BY <2>1, <2>2, <2>3
<1>8. listed \in Seq(D) /\ Len(listed) = N
    BY <1>1, <1>5
<1> QED
    BY <1>1, <1>2, <1>3, <1>4, <1>6, <1>7, <1>8 DEF N

LEMMA InOrderOfNone == S!InOrder({}) = <<>>
<1>1. Cardinality({}) = 0
    BY FS_EmptySet
<1> QED
    BY <1>1, SizeIsSize DEF S!InOrder

\* One more position comes last.
LEMMA InOrderGrows ==
    ASSUME NEW D \in SUBSET Nat, IsFiniteSet(D), NEW m \in Nat, \A i \in D : i < m
    PROVE  S!InOrder(D \cup {m}) = Append(S!InOrder(D), m)
<1> DEFINE W == D \cup {m}
<1>1. W \in SUBSET Nat /\ IsFiniteSet(W) /\ m \notin D /\ Cardinality(W) = Cardinality(D) + 1
    BY FS_AddElement
<1>2. \A i \in D : UpTo(W, i) = UpTo(D, i)
    <2>1. \A i \in D : i \in Nat /\ i < m /\ ~(m <= i)
        OBVIOUS
    <2> QED
        BY <2>1 DEF UpTo
<1>3. UpTo(W, m) = W
    <2>1. \A i \in D : i \in Nat /\ i <= m
        OBVIOUS
    <2>2. m \in Nat /\ m <= m
        OBVIOUS
    <2> QED
        BY <2>1, <2>2 DEF UpTo
<1> HIDE DEF W
<1>4. S!InOrder(W)[Cardinality(W)] = m
    <2>1. m \in W
        BY DEF W
    <2> QED
        BY <1>1, <1>3, <2>1, InOrderIs
<1>5. \A n \in 1..Cardinality(D) : S!InOrder(W)[n] = S!InOrder(D)[n]
    <2> SUFFICES ASSUME NEW n \in 1..Cardinality(D) PROVE S!InOrder(W)[n] = S!InOrder(D)[n]
        OBVIOUS
    <2>1. S!InOrder(D)[n] \in D /\ Cardinality(UpTo(D, S!InOrder(D)[n])) = n
        BY InOrderIs
    <2>2. S!InOrder(D)[n] \in W
        BY <2>1 DEF W
    <2>3. S!InOrder(W)[Cardinality(UpTo(W, S!InOrder(D)[n]))] = S!InOrder(D)[n]
        BY <1>1, <2>2, InOrderIs
    <2> QED
        BY <1>2, <2>1, <2>3
<1>6. S!InOrder(W) \in Seq(W) /\ Len(S!InOrder(W)) = Cardinality(W)
    BY <1>1, InOrderIs
<1>7. S!InOrder(D) \in Seq(D) /\ Len(S!InOrder(D)) = Cardinality(D) /\ Cardinality(D) \in Nat
    BY InOrderIs
<1>8. S!InOrder(D) \in Seq(W) /\ m \in W
    BY <1>7, SeqMonotonic DEF W
<1>9. Append(S!InOrder(D), m) \in Seq(W) /\ Len(Append(S!InOrder(D), m)) = Cardinality(D) + 1
      /\ (\A i \in 1..Cardinality(D) : Append(S!InOrder(D), m)[i] = S!InOrder(D)[i])
      /\ Append(S!InOrder(D), m)[Cardinality(D) + 1] = m
    BY <1>7, <1>8, AppendProperties
<1>10. \A i \in 1..Len(S!InOrder(W)) : S!InOrder(W)[i] = Append(S!InOrder(D), m)[i]
    BY <1>1, <1>4, <1>5, <1>6, <1>7, <1>9
<1>11. S!InOrder(W) = Append(S!InOrder(D), m)
    BY <1>1, <1>6, <1>9, <1>10, SeqEqual
<1> QED
    BY <1>11 DEF W

-----------------------------------------------------------------------------
(* the position before one *)

LEMMA BeforeIs ==
    ASSUME NEW N \in Nat, NEW D \in SUBSET (1..N), NEW n \in Nat, n # 0
    PROVE  /\ S!Before(D, n) \in {0} \cup D /\ S!Before(D, n) < n
           /\ \A k \in D : k < n => k <= S!Before(D, n)
           /\ S!Before(D, n) \in Nat
<1> DEFINE W == {i \in {0} \cup D : i < n}
           order == {p \in (0..N) \X (0..N) : p[2] < p[1]}
<1>1. W \in SUBSET (0..N) /\ W # {} /\ IsFiniteSet(W)
    <2>1. \A i \in {0} \cup D : i \in 0..N
        OBVIOUS
    <2>2. W \in SUBSET (0..N) /\ 0 \in W
        <3>1. 0 < n
            OBVIOUS
        <3> QED
            BY <2>1, <3>1
    <2>3. IsFiniteSet(0..N)
        BY FS_Interval
    <2> QED
        BY <2>2, <2>3, FS_Subset
<1>2. \A x, y \in 0..N : <<x, y>> \in order <=> y < x
    OBVIOUS
<1>3. StrictOrder(order, W)
    BY <1>1, <1>2 DEF StrictOrder
<1> HIDE DEF order
<1>4. PICK i \in W : \A y \in W \ {i} : <<i, y>> \in order
    <2> HIDE DEF W
    <2> QED
        BY <1>1, <1>3, FirstOfAll
<1>5. i < n /\ i \in {0} \cup D /\ i \in Nat
    BY <1>1, <1>4
<1>6. ASSUME NEW k \in D, k < n
      PROVE  k <= i
    <2>1. k \in W /\ k \in 0..N /\ i \in 0..N
        BY <1>1, <1>6
    <2>2. k = i \/ <<i, k>> \in order
        BY <1>4, <2>1
    <2> QED
        BY <1>2, <2>1, <2>2
<1> DEFINE LastOf(j) == j < n /\ \A k \in D : k < n => k <= j
<1>7. LastOf(i)
    BY <1>5, <1>6
<1>8. S!Before(D, n) = CHOOSE j \in {0} \cup D : LastOf(j)
    BY DEF S!Before
<1>9. S!Before(D, n) \in {0} \cup D /\ LastOf(S!Before(D, n))
    BY <1>5, <1>7, <1>8
<1>10. \A j \in {0} \cup D : j \in Nat
    OBVIOUS
<1> QED
    BY <1>9, <1>10

LEMMA BeforeNext ==
    ASSUME NEW N \in Nat, NEW D \in SUBSET (1..N)
    PROVE  /\ S!Before(D, 1) = 0
           /\ \A n \in Nat \ {0} : S!Before(D, n + 1) = IF n \in D THEN n ELSE S!Before(D, n)
<1>1. S!Before(D, 1) = 0
    <2>1. S!Before(D, 1) < 1 /\ S!Before(D, 1) \in Nat
        <3>1. 1 \in Nat /\ 1 # 0
            OBVIOUS
        <3> QED
            BY <3>1, BeforeIs
    <2> QED
        BY <2>1
<1>2. ASSUME NEW n \in Nat \ {0}
      PROVE  S!Before(D, n + 1) = IF n \in D THEN n ELSE S!Before(D, n)
    <2>1. /\ S!Before(D, n) \in {0} \cup D /\ S!Before(D, n) < n
          /\ \A k \in D : k < n => k <= S!Before(D, n)
          /\ S!Before(D, n) \in Nat
        BY BeforeIs
    <2>2. /\ S!Before(D, n + 1) \in {0} \cup D /\ S!Before(D, n + 1) < n + 1
          /\ \A k \in D : k < n + 1 => k <= S!Before(D, n + 1)
          /\ S!Before(D, n + 1) \in Nat
        <3>1. n + 1 \in Nat /\ n + 1 # 0
            OBVIOUS
        <3> QED
            BY <3>1, BeforeIs
    <2>3. \A k \in D : k \in Nat
        OBVIOUS
    <2>4. CASE n \in D
        BY <2>2, <2>4
    <2>5. CASE n \notin D
        <3>1. S!Before(D, n + 1) # n
            BY <2>2, <2>5
        <3>2. S!Before(D, n + 1) = 0 \/ S!Before(D, n + 1) <= S!Before(D, n)
            BY <2>1, <2>2, <3>1
        <3>3. S!Before(D, n) = 0 \/ S!Before(D, n) <= S!Before(D, n + 1)
            BY <2>1, <2>2
        <3> QED
            BY <2>1, <2>2, <2>5, <3>2, <3>3
    <2> QED
        BY <2>4, <2>5
<1> QED
    BY <1>1, <1>2

\* One more at the end of the second of two sequences.
LEMMA AppendJoins ==
    ASSUME NEW D, NEW s \in Seq(D), NEW t \in Seq(D), NEW e \in D
    PROVE  s \o Append(t, e) = Append(s \o t, e)
<1>1. <<e>> \in Seq(D) /\ s \o t \in Seq(D)
    BY ConcatProperties
<1>2. (s \o t) \o <<e>> = s \o (t \o <<e>>)
    BY <1>1, ConcatAssociative
<1>3. Append(t, e) = t \o <<e>> /\ Append(s \o t, e) = (s \o t) \o <<e>>
    BY <1>1, AppendIsConcat
<1> QED
    BY <1>2, <1>3

\* The elements between a position and the one before it, one more at a time.
PiecesOf(D, seq, ends) ==
    /\ S!Piece(seq, ends, 1) = <<>>
    /\ \A n \in 1..Len(seq) + 1 : S!Piece(seq, ends, n) \in Seq(D)
    /\ \A n \in 1..Len(seq) : S!Piece(seq, ends, n + 1) =
           IF n \in ends THEN <<>> ELSE Append(S!Piece(seq, ends, n), seq[n])

LEMMA PieceNext ==
    ASSUME NEW D, NEW seq \in Seq(D), NEW ends \in SUBSET (1..Len(seq))
    PROVE  PiecesOf(D, seq, ends)
<1>1. Len(seq) \in Nat /\ \A i \in 1..Len(seq) : seq[i] \in D
    BY LenProperties, ElementOfSeq
<1>2. ASSUME NEW n \in 1..Len(seq) + 1
      PROVE  /\ S!Before(ends, n) \in Nat /\ S!Before(ends, n) < n
             /\ S!Piece(seq, ends, n) \in Seq(D)
    <2>1. n \in Nat /\ n # 0
        BY <1>1
    <2>2. S!Before(ends, n) \in Nat /\ S!Before(ends, n) < n
        BY <1>1, <2>1, BeforeIs
    <2> DEFINE from == 1 + S!Before(ends, n)
               to == n - 1
    <2>3. from \in Int /\ to \in Int /\ \A i \in from..to : i \in 1..Len(seq)
        BY <1>1, <2>1, <2>2
    <2>4. S!Piece(seq, ends, n) = SubSeq(seq, from, to)
        BY DEF S!Piece
    <2> HIDE DEF from, to
    <2>5. SubSeq(seq, from, to) \in Seq(D)
        BY <1>1, <2>3, SubSeqProperties
    <2> QED
        BY <2>2, <2>4, <2>5
<1>3. S!Piece(seq, ends, 1) = <<>>
    <2>1. S!Before(ends, 1) = 0
        BY <1>1, BeforeNext
    <2>2. S!Piece(seq, ends, 1) = SubSeq(seq, 1, 0)
        BY <2>1 DEF S!Piece
    <2> QED
        BY <2>2, SubSeqEmpty
<1>4. ASSUME NEW n \in 1..Len(seq)
      PROVE  S!Piece(seq, ends, n + 1) =
                 IF n \in ends THEN <<>> ELSE Append(S!Piece(seq, ends, n), seq[n])
    <2>1. n \in Nat \ {0} /\ n \in 1..Len(seq) + 1 /\ n + 1 \in 1..Len(seq) + 1
        BY <1>1
    <2>2. S!Before(ends, n + 1) = IF n \in ends THEN n ELSE S!Before(ends, n)
        BY <1>1, <2>1, BeforeNext
    <2>3. S!Piece(seq, ends, n + 1) = SubSeq(seq, 1 + S!Before(ends, n + 1), n)
        <3>1. (n + 1) - 1 = n
            BY <2>1
        <3> QED
            BY <3>1 DEF S!Piece
    <2>4. CASE n \in ends
        <3>1. n < n + 1 /\ n + 1 \in Int /\ n \in Int
            BY <2>1
        <3>2. SubSeq(seq, 1 + n, n) = <<>>
            BY <3>1, SubSeqEmpty
        <3> QED
            BY <2>2, <2>3, <2>4, <3>2
    <2>5. CASE n \notin ends
        <3> DEFINE m == 1 + S!Before(ends, n)
        <3>1. m \in 1..Len(seq) /\ n \in m..Len(seq)
            BY <1>1, <1>2, <2>1
        <3>2. S!Piece(seq, ends, n + 1) = SubSeq(seq, m, n) /\ S!Piece(seq, ends, n) = SubSeq(seq, m, n - 1)
            BY <2>2, <2>3, <2>5 DEF S!Piece
        <3> HIDE DEF m
        <3>3. SubSeq(seq, m, n) = SubSeq(seq, m, n - 1) \o <<seq[n]>>
            BY <3>1, SubSeqRecursiveSecond
        <3>4. Append(S!Piece(seq, ends, n), seq[n]) = S!Piece(seq, ends, n) \o <<seq[n]>>
            BY <1>1, <1>2, <2>1, AppendIsConcat
        <3> QED
            BY <2>5, <3>2, <3>3, <3>4
    <2> QED
        BY <2>4, <2>5
<1> QED
    BY <1>2, <1>3, <1>4 DEF PiecesOf

-----------------------------------------------------------------------------
(* the parser's states *)

EventStates(Sym) ==
    [type : Sym \cup {NULL}, parts : Seq(Seq(Sym)), chars : Nat, saw : BOOLEAN, drop : BOOLEAN]
Emitted(Sym) == [type : Sym \cup {"message"}, data : Seq(Seq(Sym))]
Parsers(Sym) ==
    [held : Seq(Sym), pending : Seq(Sym), event : EventStates(Sym), out : Seq(Emitted(Sym))]

LEMMA WithoutCrTyped == ASSUME NEW Sym, NEW line \in Seq(Sym) PROVE S!WithoutCr(line) \in Seq(Sym)
<1>1. CASE line # <<>>
    <2>1. Len(line) \in Nat /\ \A i \in 1..Len(line) - 1 : line[i] \in Sym
        BY LenProperties, ElementOfSeq
    <2>2. SubSeq(line, 1, Len(line) - 1) \in Seq(Sym)
        BY <2>1, SubSeqProperties
    <2> QED
        BY <2>2 DEF S!WithoutCr, S!Front
<1>2. CASE line = <<>>
    BY <1>2 DEF S!WithoutCr
<1> QED
    BY <1>1, <1>2

ChangesNothingElse(Sym, p, line) ==
    \A x \in Seq(Sym) :
        /\ S!HandleLine([p EXCEPT !.pending = x], line) = [S!HandleLine(p, line) EXCEPT !.pending = x]
        /\ S!HandleLine([p EXCEPT !.held = x], line) = [S!HandleLine(p, line) EXCEPT !.held = x]

\* What a line changes is the event and what has been emitted.
LEMMA HandleTyped ==
    ASSUME NEW Sym, NEW p \in Parsers(Sym), NEW line \in Seq(Sym)
    PROVE  S!HandleLine(p, line) \in Parsers(Sym) /\ ChangesNothingElse(Sym, p, line)
<1>1. CASE line = <<>>
    <2>1. S!NoEvent \in EventStates(Sym)
        BY DEF S!NoEvent, EventStates
    <2>2. S!Dispatch(p) \in Parsers(Sym)
        <3> DEFINE type == IF p.event.type = NULL THEN "message" ELSE p.event.type
                   placed == [type |-> type, data |-> p.event.parts]
        <3>1. placed \in Emitted(Sym)
            BY DEF Parsers, EventStates, Emitted
        <3> HIDE DEF placed
        <3>2. Append(p.out, placed) \in Seq(Emitted(Sym)) /\ p.out \in Seq(Emitted(Sym))
            BY <3>1 DEF Parsers
        <3> QED
            BY <2>1, <3>2 DEF S!Dispatch, placed, Parsers
    <2>3. S!HandleLine(p, line) = S!Dispatch(p)
        BY <1>1 DEF S!HandleLine
    <2>4. ASSUME NEW x \in Seq(Sym)
          PROVE  /\ S!HandleLine([p EXCEPT !.pending = x], line) = [S!Dispatch(p) EXCEPT !.pending = x]
                 /\ S!HandleLine([p EXCEPT !.held = x], line) = [S!Dispatch(p) EXCEPT !.held = x]
        <3>1. /\ S!HandleLine([p EXCEPT !.pending = x], line) = S!Dispatch([p EXCEPT !.pending = x])
              /\ S!HandleLine([p EXCEPT !.held = x], line) = S!Dispatch([p EXCEPT !.held = x])
            BY <1>1 DEF S!HandleLine
        <3>2. /\ S!Dispatch([p EXCEPT !.pending = x]) = [S!Dispatch(p) EXCEPT !.pending = x]
              /\ S!Dispatch([p EXCEPT !.held = x]) = [S!Dispatch(p) EXCEPT !.held = x]
            BY DEF S!Dispatch, Parsers
        <3> QED
            BY <3>1, <3>2
    <2> QED
        BY <2>2, <2>3, <2>4 DEF ChangesNothingElse
<1>2. CASE line # <<>>
    <2>1. Len(line) \in Nat \ {0} /\ S!Last(line) \in Sym /\ Head(line) \in Sym /\ Tail(line) \in Seq(Sym)
        <3>1. Len(line) \in Nat \ {0}
            BY <1>2, EmptySeq
        <3>2. line[Len(line)] \in Sym
            BY <3>1, ElementOfSeq
        <3> QED
            BY <1>2, <3>1, <3>2, HeadTailProperties DEF S!Last
    <2> DEFINE e == p.event
    <2>10. e \in EventStates(Sym) /\ <<>> \in Seq(Seq(Sym))
        BY DEF Parsers
    <2>2. S!EventField(p.event, S!Last(line)) \in EventStates(Sym)
        <3> DEFINE type == S!Last(line)
                   parts == IF type \in Interesting THEN e.parts ELSE <<>>
        <3>1. parts \in Seq(Seq(Sym)) /\ type \in Sym
            BY <2>1, <2>10 DEF EventStates
        <3>2. S!EventField(e, type) = [e EXCEPT !.saw = TRUE, !.type = type,
                                              !.drop = @ \/ type \notin Interesting, !.parts = parts]
            BY <2>10 DEF S!EventField, EventStates
        <3> HIDE DEF parts, type, e
        <3>3. S!EventField(e, type) \in EventStates(Sym)
            BY <2>10, <3>1, <3>2 DEF EventStates
        <3> QED
            BY <3>3 DEF type, e
    <2>3. S!DataField(p.event, Tail(line)) \in EventStates(Sym)
        <3> DEFINE value == Tail(line)
        <3>1. Len(value) \in Nat /\ value \in Seq(Sym)
            BY <2>1, LenProperties
        <3>2. Append(e.parts, value) \in Seq(Seq(Sym)) /\ e.chars + Len(value) \in Nat
            BY <2>10, <3>1 DEF EventStates
        <3> HIDE DEF value, e
        <3>3. S!DataField(e, value) \in EventStates(Sym)
            BY <2>10, <3>1, <3>2 DEF S!DataField, EventStates
        <3> QED
            BY <3>3 DEF value, e
    <2>4. [p.event EXCEPT !.saw = TRUE] \in EventStates(Sym)
        BY DEF EventStates, Parsers
    <2> DEFINE After(q) == CASE Head(line) = "event" -> S!EventField(q.event, S!Last(line))
                             [] Head(line) = "data" -> S!DataField(q.event, Tail(line))
                             [] Head(line) = "id" -> [q.event EXCEPT !.saw = TRUE]
                             [] OTHER -> q.event
    <2>5. \A q \in Parsers(Sym) : S!HandleLine(q, line) = [q EXCEPT !.event = After(q)]
        BY <1>2 DEF S!HandleLine, Parsers
    <2>6. After(p) \in EventStates(Sym)
        BY <2>2, <2>3, <2>4 DEF Parsers
    <2>7. \A x \in Seq(Sym) : /\ [p EXCEPT !.pending = x] \in Parsers(Sym)
                              /\ [p EXCEPT !.held = x] \in Parsers(Sym)
                              /\ After([p EXCEPT !.pending = x]) = After(p)
                              /\ After([p EXCEPT !.held = x]) = After(p)
        BY DEF Parsers
    <2> HIDE DEF After, e
    <2>8. S!HandleLine(p, line) = [p EXCEPT !.event = After(p)]
        BY <2>5
    <2>9. ASSUME NEW x \in Seq(Sym)
          PROVE  /\ S!HandleLine([p EXCEPT !.pending = x], line) = [S!HandleLine(p, line) EXCEPT !.pending = x]
                 /\ S!HandleLine([p EXCEPT !.held = x], line) = [S!HandleLine(p, line) EXCEPT !.held = x]
        <3>1. /\ S!HandleLine([p EXCEPT !.pending = x], line) =
                    [[p EXCEPT !.pending = x] EXCEPT !.event = After(p)]
              /\ S!HandleLine([p EXCEPT !.held = x], line) = [[p EXCEPT !.held = x] EXCEPT !.event = After(p)]
            BY <2>5, <2>7
        <3> QED
            BY <2>8, <3>1 DEF Parsers
    <2>11. S!HandleLine(p, line) \in Parsers(Sym)
        BY <2>6, <2>8 DEF Parsers
    <2> QED
        BY <2>9, <2>11 DEF ChangesNothingElse
<1> QED
    BY <1>1, <1>2

\* One symbol of the text.
Char(p, c) ==
    IF c = "lf" THEN [S!HandleLine(p, S!WithoutCr(p.pending)) EXCEPT !.pending = <<>>]
    ELSE [p EXCEPT !.pending = Append(@, c)]

HeldAside(Sym, p, c) == \A x \in Seq(Sym) : Char([p EXCEPT !.held = x], c) = [Char(p, c) EXCEPT !.held = x]

LEMMA CharTyped ==
    ASSUME NEW Sym, NEW p \in Parsers(Sym), NEW c \in Sym
    PROVE  Char(p, c) \in Parsers(Sym) /\ HeldAside(Sym, p, c)
<1>1. CASE c = "lf"
    <2> DEFINE line == S!WithoutCr(p.pending)
    <2>1. line \in Seq(Sym)
        BY WithoutCrTyped DEF Parsers
    <2> HIDE DEF line
    <2>7. S!HandleLine(p, line) \in Parsers(Sym) /\ ChangesNothingElse(Sym, p, line)
        BY <2>1, HandleTyped
    <2>2. S!HandleLine(p, line) \in Parsers(Sym)
          /\ \A x \in Seq(Sym) : S!HandleLine([p EXCEPT !.held = x], line) =
                                    [S!HandleLine(p, line) EXCEPT !.held = x]
        BY <2>7 DEF ChangesNothingElse
    <2>3. Char(p, c) = [S!HandleLine(p, line) EXCEPT !.pending = <<>>]
        BY <1>1 DEF Char, line
    <2>4. \A x \in Seq(Sym) : Char([p EXCEPT !.held = x], c) =
                [S!HandleLine([p EXCEPT !.held = x], line) EXCEPT !.pending = <<>>]
        BY <1>1 DEF Char, line, Parsers
    <2>5. ASSUME NEW x \in Seq(Sym)
          PROVE  Char([p EXCEPT !.held = x], c) = [Char(p, c) EXCEPT !.held = x]
        <3>1. Char([p EXCEPT !.held = x], c) = [[S!HandleLine(p, line) EXCEPT !.held = x] EXCEPT !.pending = <<>>]
            BY <2>2, <2>4
        <3> QED
            BY <2>2, <2>3, <3>1 DEF Parsers
    <2>6. Char(p, c) \in Parsers(Sym)
        <3>1. \A q \in Parsers(Sym), x \in Seq(Sym) : [q EXCEPT !.pending = x] \in Parsers(Sym)
            BY DEF Parsers
        <3>2. <<>> \in Seq(Sym)
            OBVIOUS
        <3>3. S!HandleLine(p, line) \in Parsers(Sym)
            BY <2>7
        <3>4. [S!HandleLine(p, line) EXCEPT !.pending = <<>>] \in Parsers(Sym)
            BY <3>1, <3>2, <3>3
        <3> QED
            BY <2>3, <3>4, Zenon
    <2> QED
        BY <2>5, <2>6 DEF HeldAside
<1>2. CASE c # "lf"
    <2>1. Append(p.pending, c) \in Seq(Sym)
        BY AppendProperties DEF Parsers
    <2> QED
        BY <1>2, <2>1 DEF Char, Parsers, HeldAside
<1> QED
    BY <1>1, <1>2

-----------------------------------------------------------------------------
(* a text, symbol by symbol *)

ReadsBy(Sym, p, text, f) ==
    /\ f \in [0..Len(text) -> Parsers(Sym)]
    /\ f[0] = p
    /\ \A n \in 1..Len(text) : f[n] = Char(f[n - 1], text[n])
Reads(Sym, p, text, q) == \E f : ReadsBy(Sym, p, text, f) /\ f[Len(text)] = q

LEMMA CompleteTyped ==
    ASSUME NEW Sym, NEW p \in Parsers(Sym), NEW line \in Seq(Sym)
    PROVE  S!Complete(p, line) \in Parsers(Sym)
<1>1. p.pending \o line \in Seq(Sym)
    BY ConcatProperties DEF Parsers
<1>2. S!WithoutCr(p.pending \o line) \in Seq(Sym)
    BY <1>1, WithoutCrTyped
<1>3. S!HandleLine(p, S!WithoutCr(p.pending \o line)) \in Parsers(Sym)
    BY <1>2, HandleTyped
<1>4. \A q \in Parsers(Sym), x \in Seq(Sym) : [q EXCEPT !.pending = x] \in Parsers(Sym)
    BY DEF Parsers
<1>5. <<>> \in Seq(Sym)
    OBVIOUS
<1>6. [S!HandleLine(p, S!WithoutCr(p.pending \o line)) EXCEPT !.pending = <<>>] \in Parsers(Sym)
    BY <1>3, <1>4, <1>5
<1> QED
    BY <1>6, Zenon DEF S!Complete

\* A line is completed by the symbol that ends it.
LEMMA CompleteIsChar ==
    ASSUME NEW Sym, NEW p \in Parsers(Sym), NEW line \in Seq(Sym)
    PROVE  S!Complete(p, line) = Char([p EXCEPT !.pending = @ \o line], "lf")
<1> DEFINE whole == p.pending \o line
           l == S!WithoutCr(whole)
           q == [p EXCEPT !.pending = whole]
<1>1. whole \in Seq(Sym)
    BY ConcatProperties DEF Parsers
<1>2. q.pending = whole
    BY DEF Parsers
<1> HIDE DEF whole
<1>3. l \in Seq(Sym)
    BY <1>1, WithoutCrTyped
<1>4. Char(q, "lf") = [S!HandleLine(q, l) EXCEPT !.pending = <<>>]
    BY <1>2 DEF Char
<1> HIDE DEF l
<1>5. S!HandleLine(p, l) \in Parsers(Sym) /\ ChangesNothingElse(Sym, p, l)
    BY <1>3, HandleTyped
<1>6. S!HandleLine(q, l) = [S!HandleLine(p, l) EXCEPT !.pending = whole]
    BY <1>1, <1>5 DEF ChangesNothingElse
<1>7. [[S!HandleLine(p, l) EXCEPT !.pending = whole] EXCEPT !.pending = <<>>] =
        [S!HandleLine(p, l) EXCEPT !.pending = <<>>]
    BY <1>5 DEF Parsers
<1>8. Char(q, "lf") = [S!HandleLine(p, l) EXCEPT !.pending = <<>>]
    BY <1>4, <1>6, <1>7
<1>9. S!Complete(p, line) = [S!HandleLine(p, l) EXCEPT !.pending = <<>>]
    BY DEF S!Complete, l, whole
<1> QED
    BY <1>8, <1>9 DEF whole

\* consume() reads its text symbol by symbol, whatever was pending.
LEMMA ConsumeReads ==
    ASSUME NEW Sym, NEW p \in Parsers(Sym), NEW text \in Seq(Sym)
    PROVE  Reads(Sym, p, text, S!Consume(p, text))
<1> DEFINE N == Len(text)
           States == Parsers(Sym)
           Op(acc, n) == IF text[n] = "lf" THEN S!Complete(acc, S!Line(text, n)) ELSE acc
           step == [x \in States \X (1..N) |-> Op(x[1], x[2])]
           Meets(f) == f = [n \in 0..N |-> IF n = 0 THEN p ELSE IF text[n] = "lf" THEN S!Complete(f[n - 1], S!Line(text, n)) ELSE f[n - 1]]
           read == CHOOSE f : Meets(f)
<1>1. N \in Nat /\ p \in States
    BY LenProperties
<1>2. \A acc \in States, n \in 1..N : Op(acc, n) \in States
    <2>1. S!Ends(text) \in SUBSET (1..Len(text))
        BY LenProperties DEF S!Ends
    <2>2. \A n \in 1..Len(text) + 1 : S!Line(text, n) \in Seq(Sym)
        BY <2>1, PieceNext DEF S!Line, PiecesOf
    <2>3. N \in Nat
        BY LenProperties
    <2>4. \A n \in 1..N : S!Line(text, n) \in Seq(Sym)
        BY <2>2, <2>3
    <2> QED
        BY <2>4, CompleteTyped
<1>3. S!Consume(p, text) = [read[N] EXCEPT !.pending = @ \o S!Line(text, N + 1)]
    BY DEF S!Consume
<1>4. \A f : Meets(f) <=> f = [n \in 0..N |-> IF n = 0 THEN p ELSE Op(f[n - 1], n)]
    OBVIOUS
<1> HIDE DEF N, States, Op
<1>5. step \in [States \X (1..N) -> States]
    BY <1>2
<1> HIDE DEF step
<1>6. PICK f \in [0..N -> States] : Follows(f, N, p, step)
    BY <1>1, <1>5, Recursion, Zenon
<1> USE DEF step
<1>7. f[0] = p /\ \A n \in 1..N : f[n] = step[<<f[n - 1], n>>]
    BY <1>6 DEF Follows
<1> HIDE DEF Meets
<1>8. Meets(f)
    <2>1. \A n \in 1..N : f[n] = Op(f[n - 1], n)
        <3> SUFFICES ASSUME NEW n \in 1..N PROVE f[n] = Op(f[n - 1], n)
            OBVIOUS
        <3>1. n \in 0..N /\ n # 0 /\ n - 1 \in 0..N
            BY <1>1
        <3>2. <<f[n - 1], n>> \in States \X (1..N)
            BY <3>1
        <3>3. f[n] = step[<<f[n - 1], n>>]
            BY <1>7, <3>1
        <3> QED
            BY <3>2, <3>3
    <2>2. f[0] = p
        BY <1>1, <1>7
    <2>3. \A n \in 0..N : f[n] = IF n = 0 THEN p ELSE Op(f[n - 1], n)
        BY <1>1, <2>1, <2>2
    <2>4. f = [n \in 0..N |-> IF n = 0 THEN p ELSE Op(f[n - 1], n)]
        BY <2>3
    <2> QED
        BY <1>4, <2>4
<1>9. Meets(read)
    BY <1>8
<1> HIDE DEF read
<1>10. read[0] = p /\ \A n \in 1..N : read[n] = Op(read[n - 1], n)
    <2>1. read = [n \in 0..N |-> IF n = 0 THEN p ELSE Op(read[n - 1], n)]
        BY <1>4, <1>9
    <2>2. \A n \in 0..N : read[n] = IF n = 0 THEN p ELSE Op(read[n - 1], n)
        BY <2>1
    <2> QED
        BY <1>1, <2>2
<1>11. read \in [0..N -> States]
    <2> DEFINE typed == {n \in 0..N : read[n] \in States}
    <2>1. 0 \in typed
        BY <1>1, <1>10
    <2>2. ASSUME NEW n \in 0..N, n + 1 \in 0..N, n \in typed PROVE n + 1 \in typed
        <3>1. n + 1 \in 1..N /\ (n + 1) - 1 = n
            BY <2>2, <1>1
        <3>2. read[n + 1] = Op(read[n], n + 1)
            BY <1>10, <3>1
        <3> QED
            BY <1>2, <2>2, <3>1, <3>2
    <2> HIDE DEF typed
    <2>3. 0..N \subseteq typed
        BY <1>1, <2>1, <2>2, CountingUp
    <2>4. \A n \in 0..N : read[n] \in States
        BY <2>3 DEF typed
    <2>5. read = [n \in 0..N |-> read[n]]
        BY <1>4, <1>9
    <2> QED
        BY <2>4, <2>5

<1> DEFINE g == [n \in 0..N |-> [read[n] EXCEPT !.pending = @ \o S!Line(text, n + 1)]]
<1>12. /\ S!Ends(text) \in SUBSET (1..N) /\ (\A n \in 1..N : text[n] \in Sym)
       /\ \A n \in 1..N : n \in S!Ends(text) <=> text[n] = "lf"
    BY LenProperties, ElementOfSeq DEF S!Ends, N
<1>13. /\ S!Line(text, 1) = <<>>
       /\ \A n \in 1..N + 1 : S!Line(text, n) \in Seq(Sym)
       /\ \A n \in 1..N : S!Line(text, n + 1) =
              IF n \in S!Ends(text) THEN <<>> ELSE Append(S!Line(text, n), text[n])
    BY <1>12, PieceNext DEF S!Line, N, PiecesOf
<1>14. \A q \in Parsers(Sym) : /\ q.pending \in Seq(Sym)
                               /\ [q EXCEPT !.pending = @ \o <<>>] = q
    <2> SUFFICES ASSUME NEW q \in Parsers(Sym)
                 PROVE  q.pending \in Seq(Sym) /\ [q EXCEPT !.pending = @ \o <<>>] = q
        OBVIOUS
    <2>1. q.pending \in Seq(Sym)
        BY DEF Parsers
    <2>2. q.pending \o <<>> = q.pending
        BY <2>1, ConcatEmptySeq
    <2> QED
        BY <2>1, <2>2 DEF Parsers
<1>15. \A n \in 0..N : g[n] \in Parsers(Sym)
    <2> SUFFICES ASSUME NEW n \in 0..N PROVE g[n] \in Parsers(Sym)
        OBVIOUS
    <2>1. read[n] \in Parsers(Sym)
        BY <1>11 DEF States
    <2>2. n + 1 \in 1..N + 1
        BY <1>1
    <2>3. read[n].pending \o S!Line(text, n + 1) \in Seq(Sym)
        BY <1>13, <1>14, <2>1, <2>2, ConcatProperties
    <2>4. [read[n] EXCEPT !.pending = @ \o S!Line(text, n + 1)] \in Parsers(Sym)
        BY <2>1, <2>3 DEF Parsers
    <2> QED
        BY <2>4
<1>16. g[0] = p
    <2>1. 0 \in 0..N /\ g[0] = [read[0] EXCEPT !.pending = @ \o S!Line(text, 1)]
        BY <1>1
    <2> QED
        BY <2>1, <1>10, <1>13, <1>14
<1>17. ASSUME NEW n \in 1..N PROVE g[n] = Char(g[n - 1], text[n])
    <2>1. n - 1 \in 0..N /\ n \in 0..N /\ (n - 1) + 1 = n /\ n \in 1..N + 1
        BY <1>1
    <2> DEFINE q == read[n - 1]
    <2>2. q \in Parsers(Sym)
        BY <1>11, <2>1 DEF States
    <2>3. g[n - 1] = [q EXCEPT !.pending = @ \o S!Line(text, n)]
        BY <2>1
    <2>4. g[n] = [read[n] EXCEPT !.pending = @ \o S!Line(text, n + 1)]
        BY <2>1
    <2>5. read[n] = IF text[n] = "lf" THEN S!Complete(q, S!Line(text, n)) ELSE q
        BY <1>10 DEF Op
    <2>6. S!Line(text, n) \in Seq(Sym)
        BY <1>13, <2>1
    <2> HIDE DEF q, g
    <2>7. CASE text[n] = "lf"
        <3>1. S!Line(text, n + 1) = <<>> /\ read[n] = S!Complete(q, S!Line(text, n))
            BY <1>12, <1>13, <2>5, <2>7
        <3>2. S!Complete(q, S!Line(text, n)) \in Parsers(Sym)
            BY <2>2, <2>6, CompleteTyped
        <3>3. g[n] = S!Complete(q, S!Line(text, n))
            BY <2>4, <3>1, <3>2, <1>14
        <3>4. S!Complete(q, S!Line(text, n)) = Char([q EXCEPT !.pending = @ \o S!Line(text, n)], "lf")
            BY <2>2, <2>6, CompleteIsChar
        <3> QED
            BY <2>3, <2>7, <3>3, <3>4
    <2>8. CASE text[n] # "lf"
        <3>1. S!Line(text, n + 1) = Append(S!Line(text, n), text[n]) /\ read[n] = q
            BY <1>12, <1>13, <2>5, <2>8
        <3>2. q.pending \in Seq(Sym) /\ text[n] \in Sym
            BY <1>12, <1>14, <2>2
        <3>3. q.pending \o Append(S!Line(text, n), text[n]) = Append(q.pending \o S!Line(text, n), text[n])
            <4> DEFINE s == q.pending
                       t == S!Line(text, n)
                       e == text[n]
            <4>1. s \in Seq(Sym) /\ t \in Seq(Sym) /\ e \in Sym
                BY <2>6, <3>2
            <4> HIDE DEF s, t, e
            <4>2. s \o Append(t, e) = Append(s \o t, e)
                BY <4>1, AppendJoins
            <4> QED
                BY <4>2 DEF s, t, e
        <3>4. g[n] = [q EXCEPT !.pending = Append(q.pending \o S!Line(text, n), text[n])]
            BY <2>4, <3>1, <3>3
        <3>5. Char(g[n - 1], text[n]) = [g[n - 1] EXCEPT !.pending = Append(@, text[n])]
            BY <2>8 DEF Char
        <3>6. [[q EXCEPT !.pending = @ \o S!Line(text, n)] EXCEPT !.pending = Append(@, text[n])] =
                [q EXCEPT !.pending = Append(q.pending \o S!Line(text, n), text[n])]
            BY <2>2 DEF Parsers
        <3> QED
            BY <2>3, <3>4, <3>5, <3>6
    <2> QED
        BY <2>7, <2>8
<1>18. g \in [0..N -> Parsers(Sym)] /\ g[N] = S!Consume(p, text)
    <2>1. N \in 0..N
        BY <1>1
    <2>2. g[N] = [read[N] EXCEPT !.pending = @ \o S!Line(text, N + 1)]
        BY <2>1
    <2> QED
        BY <1>3, <1>15, <2>2
<1>19. ReadsBy(Sym, p, text, g)
    <2> HIDE DEF g
    <2> QED
        BY <1>16, <1>17, <1>18 DEF ReadsBy, N
<1> HIDE DEF g
<1> QED
    BY <1>18, <1>19 DEF Reads, N

\* One text after another.
LEMMA ReadsOn ==
    ASSUME NEW Sym, NEW p, NEW q, NEW r, NEW s \in Seq(Sym), NEW t \in Seq(Sym),
           Reads(Sym, p, s, q), Reads(Sym, q, t, r)
    PROVE  Reads(Sym, p, s \o t, r)
<1>1. PICK f : ReadsBy(Sym, p, s, f) /\ f[Len(s)] = q
    BY DEF Reads
<1>2. PICK g : ReadsBy(Sym, q, t, g) /\ g[Len(t)] = r
    BY DEF Reads
<1> DEFINE O == Len(s)
           N == Len(t)
           h == [n \in 0..O + N |-> IF n <= O THEN f[n] ELSE g[n - O]]
           u == s \o t
<1>3. /\ O \in Nat /\ N \in Nat /\ Len(u) = O + N
      /\ \A i \in 1..O + N : u[i] = IF i <= O THEN s[i] ELSE t[i - O]
    BY LenProperties, ConcatProperties
<1>4. /\ f \in [0..O -> Parsers(Sym)] /\ f[0] = p /\ f[O] = q
      /\ \A n \in 1..O : f[n] = Char(f[n - 1], s[n])
    BY <1>1 DEF ReadsBy
<1>5. /\ g \in [0..N -> Parsers(Sym)] /\ g[0] = q /\ g[N] = r
      /\ \A n \in 1..N : g[n] = Char(g[n - 1], t[n])
    BY <1>2 DEF ReadsBy
<1> HIDE DEF O, N, u
<1>6. h \in [0..O + N -> Parsers(Sym)]
    <2>1. \A n \in 0..O + N : n <= O => n \in 0..O
        BY <1>3
    <2>2. \A n \in 0..O + N : ~(n <= O) => n - O \in 0..N
        BY <1>3
    <2> QED
        BY <1>4, <1>5, <2>1, <2>2
<1>7. h[0] = p /\ h[O + N] = r
    <2>1. 0 \in 0..O + N /\ 0 <= O /\ O + N \in 0..O + N
        BY <1>3
    <2>2. h[0] = p
        BY <1>4, <2>1
    <2>3. h[O + N] = IF O + N <= O THEN f[O + N] ELSE g[(O + N) - O]
        BY <2>1
    <2>4. (O + N) - O = N /\ (O + N <= O => N = 0 /\ O + N = O)
        BY <1>3
    <2> HIDE DEF h
    <2>5. CASE O + N <= O
        <3>1. N = 0 /\ O + N = O
            BY <2>4, <2>5
        <3>2. h[O + N] = f[O + N]
            BY <2>3, <2>5
        <3>3. f[O] = q /\ g[0] = q /\ g[N] = r
            BY <1>4, <1>5
        <3> QED
            BY <2>2, <3>1, <3>2, <3>3
    <2>6. CASE ~(O + N <= O)
        <3>1. h[O + N] = g[N]
            BY <2>3, <2>4, <2>6
        <3>2. g[N] = r
            BY <1>5
        <3> QED
            BY <2>2, <3>1, <3>2
    <2> QED
        BY <2>5, <2>6
<1>8. ASSUME NEW n \in 1..O + N PROVE h[n] = Char(h[n - 1], u[n])
    <2>1. n \in 0..O + N /\ n - 1 \in 0..O + N /\ n \in Nat
        BY <1>3
    <2>2. CASE n <= O
        <3>1. n - 1 <= O /\ n \in 1..O
            BY <1>3, <2>1, <2>2
        <3>2. h[n] = f[n] /\ h[n - 1] = f[n - 1] /\ u[n] = s[n]
            BY <1>3, <2>1, <2>2, <3>1
        <3> QED
            BY <1>4, <3>1, <3>2
    <2>3. CASE ~(n <= O)
        <3>1. n - O \in 1..N /\ (n - 1) - O = (n - O) - 1
            BY <1>3, <2>1, <2>3
        <3>2. h[n] = g[n - O] /\ u[n] = t[n - O]
            BY <1>3, <2>1, <2>3
        <3>3. h[n - 1] = g[(n - O) - 1]
            <4>1. CASE n - 1 <= O
                <5>1. n - 1 = O /\ (n - O) - 1 = 0
                    BY <1>3, <2>1, <2>3, <4>1
                <5>2. h[n - 1] = f[n - 1]
                    BY <2>1, <4>1
                <5> HIDE DEF h
                <5> QED
                    BY <1>4, <1>5, <5>1, <5>2
            <4>2. CASE ~(n - 1 <= O)
                BY <2>1, <3>1, <4>2
            <4> QED
                BY <4>1, <4>2
        <3> HIDE DEF h
        <3> QED
            BY <1>5, <3>1, <3>2, <3>3
    <2> QED
        BY <2>2, <2>3
<1> HIDE DEF h
<1>9. ReadsBy(Sym, p, u, h) /\ h[Len(u)] = r
    BY <1>3, <1>6, <1>7, <1>8 DEF ReadsBy
<1> QED
    BY <1>9 DEF Reads, u

\* A text is read in one way.
LEMMA ReadsOnce ==
    ASSUME NEW Sym, NEW p, NEW q, NEW r, NEW t \in Seq(Sym),
           Reads(Sym, p, t, q), Reads(Sym, p, t, r)
    PROVE  q = r
<1>1. PICK f : ReadsBy(Sym, p, t, f) /\ f[Len(t)] = q
    BY DEF Reads
<1>2. PICK g : ReadsBy(Sym, p, t, g) /\ g[Len(t)] = r
    BY DEF Reads
<1> DEFINE N == Len(t)
           same == {n \in 0..N : f[n] = g[n]}
<1>3. N \in Nat
    BY LenProperties
<1>4. /\ f[0] = p /\ f[N] = q /\ \A n \in 1..N : f[n] = Char(f[n - 1], t[n])
      /\ g[0] = p /\ g[N] = r /\ \A n \in 1..N : g[n] = Char(g[n - 1], t[n])
    BY <1>1, <1>2 DEF ReadsBy
<1> HIDE DEF N
<1>5. 0 \in same
    BY <1>3, <1>4
<1>6. ASSUME NEW n \in 0..N, n + 1 \in 0..N, n \in same PROVE n + 1 \in same
    <2>1. n + 1 \in 1..N /\ (n + 1) - 1 = n /\ f[n] = g[n]
        BY <1>3, <1>6
    <2>2. f[n + 1] = Char(f[n], t[n + 1]) /\ g[n + 1] = Char(g[n], t[n + 1])
        BY <1>4, <2>1
    <2> QED
        BY <1>6, <2>1, <2>2
<1> HIDE DEF same
<1>7. 0..N \subseteq same
    BY <1>3, <1>5, <1>6, CountingUp
<1>8. N \in 0..N
    BY <1>3
<1> QED
    BY <1>4, <1>7, <1>8 DEF same

\* What the decoder holds makes no difference to what is read.
LEMMA ReadsHolding ==
    ASSUME NEW Sym, NEW p \in Parsers(Sym), NEW q, NEW t \in Seq(Sym), NEW x \in Seq(Sym),
           Reads(Sym, p, t, q)
    PROVE  Reads(Sym, [p EXCEPT !.held = x], t, [q EXCEPT !.held = x]) /\ q \in Parsers(Sym)
<1>1. PICK f : ReadsBy(Sym, p, t, f) /\ f[Len(t)] = q
    BY DEF Reads
<1> DEFINE N == Len(t)
           g == [n \in 0..N |-> [f[n] EXCEPT !.held = x]]
<1>2. N \in Nat /\ \A n \in 1..N : t[n] \in Sym
    BY LenProperties, ElementOfSeq
<1>3. /\ f \in [0..N -> Parsers(Sym)] /\ f[0] = p /\ f[N] = q
      /\ \A n \in 1..N : f[n] = Char(f[n - 1], t[n])
    BY <1>1 DEF ReadsBy
<1> HIDE DEF N
<1>4. \A r \in Parsers(Sym) : [r EXCEPT !.held = x] \in Parsers(Sym)
    BY DEF Parsers
<1>5. g \in [0..N -> Parsers(Sym)]
    BY <1>3, <1>4
<1>6. g[0] = [p EXCEPT !.held = x] /\ g[N] = [q EXCEPT !.held = x] /\ q \in Parsers(Sym)
    <2>1. 0 \in 0..N /\ N \in 0..N
        BY <1>2
    <2> QED
        BY <1>3, <2>1
<1>7. ASSUME NEW n \in 1..N PROVE g[n] = Char(g[n - 1], t[n])
    <2>1. n - 1 \in 0..N /\ n \in 0..N
        BY <1>2
    <2>2. g[n] = [f[n] EXCEPT !.held = x] /\ g[n - 1] = [f[n - 1] EXCEPT !.held = x]
        BY <2>1
    <2>3. f[n - 1] \in Parsers(Sym) /\ f[n] = Char(f[n - 1], t[n]) /\ t[n] \in Sym
        BY <1>2, <1>3, <2>1
    <2>4. Char([f[n - 1] EXCEPT !.held = x], t[n]) = [Char(f[n - 1], t[n]) EXCEPT !.held = x]
        <3> DEFINE y == f[n - 1]
                   c == t[n]
        <3>1. y \in Parsers(Sym) /\ c \in Sym
            BY <2>3
        <3> HIDE DEF y, c
        <3>2. HeldAside(Sym, y, c)
            BY <3>1, CharTyped
        <3>3. Char([y EXCEPT !.held = x], c) = [Char(y, c) EXCEPT !.held = x]
            BY <3>2 DEF HeldAside
        <3> QED
            BY <3>3 DEF y, c
    <2> HIDE DEF g
    <2> QED
        BY <2>2, <2>3, <2>4
<1> HIDE DEF g
<1>8. ReadsBy(Sym, [p EXCEPT !.held = x], t, g) /\ g[Len(t)] = [q EXCEPT !.held = x]
    BY <1>5, <1>6, <1>7 DEF ReadsBy, N
<1> QED
    BY <1>6, <1>8 DEF Reads

\* One symbol more.
LEMMA ConsumeNext ==
    ASSUME NEW Sym, NEW p \in Parsers(Sym), NEW text \in Seq(Sym), NEW c \in Sym
    PROVE  /\ S!Consume(p, text) \in Parsers(Sym)
           /\ S!Consume(p, Append(text, c)) = Char(S!Consume(p, text), c)
<1> DEFINE q == S!Consume(p, text)
           last == <<c>>
           f == [n \in 0..1 |-> IF n = 0 THEN q ELSE Char(q, c)]
<1>1. Reads(Sym, p, text, q)
    BY ConsumeReads
<1>2. q \in Parsers(Sym)
    <2>1. PICK g : ReadsBy(Sym, p, text, g) /\ g[Len(text)] = q
        BY <1>1 DEF Reads
    <2>2. Len(text) \in 0..Len(text)
        BY LenProperties
    <2> QED
        BY <2>1, <2>2 DEF ReadsBy
<1> HIDE DEF q
<1>3. Char(q, c) \in Parsers(Sym)
    BY <1>2, CharTyped
<1>4. last \in Seq(Sym) /\ Len(last) = 1 /\ last[1] = c
    OBVIOUS
<1>5. f \in [0..1 -> Parsers(Sym)] /\ f[0] = q /\ f[1] = Char(q, c)
    BY <1>2, <1>3
<1> HIDE DEF f, last
<1>6. ReadsBy(Sym, q, last, f)
    <2>1. \A n \in 1..1 : n = 1 /\ n - 1 = 0
        OBVIOUS
    <2>2. \A n \in 1..1 : f[n] = Char(f[n - 1], last[n])
        BY <1>4, <1>5, <2>1
    <2> QED
        BY <1>4, <1>5, <2>2 DEF ReadsBy
<1>7. Reads(Sym, q, last, Char(q, c))
    BY <1>4, <1>5, <1>6 DEF Reads
<1>8. Reads(Sym, p, text \o last, Char(q, c))
    BY <1>1, <1>4, <1>7, ReadsOn
<1>9. text \o last = Append(text, c) /\ Append(text, c) \in Seq(Sym)
    BY AppendIsConcat, AppendProperties DEF last
<1>10. Reads(Sym, p, Append(text, c), Char(q, c))
    BY <1>8, <1>9
<1>11. Reads(Sym, p, Append(text, c), S!Consume(p, Append(text, c)))
    BY <1>9, ConsumeReads
<1>12. S!Consume(p, Append(text, c)) = Char(q, c)
    BY <1>9, <1>10, <1>11, ReadsOnce
<1> QED
    BY <1>2, <1>12 DEF q

LEMMA ConsumeNone ==
    ASSUME NEW Sym, NEW p \in Parsers(Sym)
    PROVE  S!Consume(p, <<>>) = p
<1> DEFINE none == <<>>
           f == [n \in 0..0 |-> p]
<1>1. none \in Seq(Sym) /\ Len(none) = 0
    OBVIOUS
<1>2. f \in [0..0 -> Parsers(Sym)] /\ f[0] = p /\ \A n \in 1..0 : FALSE
    OBVIOUS
<1> HIDE DEF f, none
<1>3. Reads(Sym, p, none, p)
    BY <1>1, <1>2 DEF Reads, ReadsBy
<1>4. Reads(Sym, p, none, S!Consume(p, none))
    BY <1>1, ConsumeReads
<1>5. S!Consume(p, none) = p
    BY <1>1, <1>3, <1>4, ReadsOnce
<1> QED
    BY <1>5 DEF none

LEMMA ConsumeHolding ==
    ASSUME NEW Sym, NEW p \in Parsers(Sym), NEW text \in Seq(Sym), NEW x \in Seq(Sym)
    PROVE  S!Consume([p EXCEPT !.held = x], text) = [S!Consume(p, text) EXCEPT !.held = x]
<1> DEFINE r == [p EXCEPT !.held = x]
<1>1. r \in Parsers(Sym)
    BY DEF Parsers
<1>2. Reads(Sym, p, text, S!Consume(p, text))
    BY ConsumeReads
<1>3. Reads(Sym, r, text, [S!Consume(p, text) EXCEPT !.held = x])
    BY <1>2, ReadsHolding
<1> HIDE DEF r
<1>4. Reads(Sym, r, text, S!Consume(r, text))
    BY <1>1, ConsumeReads
<1>5. S!Consume(r, text) = [S!Consume(p, text) EXCEPT !.held = x]
    BY <1>1, <1>3, <1>4, ReadsOnce
<1> QED
    BY <1>5 DEF r

-----------------------------------------------------------------------------
(* the stream, byte by byte *)

Holding(p, x) == [p EXCEPT !.held = x]
Byte(p, b) ==
    LET shown == IF p.held # <<>> THEN Char(p, "?") ELSE p
    IN  CASE b = "c1" -> Holding(shown, <<"c1">>)
          [] b = "c2" -> Holding(Char(p, IF p.held # <<>> THEN "c" ELSE "?"), <<>>)
          [] OTHER -> Holding(Char(shown, b), <<>>)

Accs(Sym) == [held : Seq(Sym), text : Seq(Sym)]

LEMMA DecodeByteTyped ==
    ASSUME NEW Sym, {"c", "?"} \subseteq Sym, NEW acc \in Accs(Sym), NEW b \in Sym
    PROVE  S!DecodeByte(acc, b) \in Accs(Sym)
<1>1. acc.text \in Seq(Sym) /\ \A t \in Seq(Sym), c \in Sym : Append(t, c) \in Seq(Sym)
    BY AppendProperties DEF Accs
<1> DEFINE broken == IF acc.held # <<>> THEN Append(acc.text, "?") ELSE acc.text
<1>2. broken \in Seq(Sym) /\ "c" \in Sym /\ "?" \in Sym
    BY <1>1
<1> HIDE DEF broken
<1>3. CASE b = "c1"
    <2>1. <<b>> \in Seq(Sym)
        OBVIOUS
    <2>2. S!DecodeByte(acc, b) = [held |-> <<b>>, text |-> broken]
        BY <1>3 DEF S!DecodeByte, broken
    <2> QED
        BY <1>2, <2>1, <2>2 DEF Accs
<1>4. CASE b = "c2"
    <2>1. S!DecodeByte(acc, b) = [held |-> <<>>,
                                text |-> Append(acc.text, IF acc.held # <<>> THEN "c" ELSE "?")]
        BY <1>4 DEF S!DecodeByte
    <2>2. Append(acc.text, IF acc.held # <<>> THEN "c" ELSE "?") \in Seq(Sym) /\ <<>> \in Seq(Sym)
        BY <1>1, <1>2
    <2> QED
        BY <2>1, <2>2 DEF Accs
<1>5. CASE b # "c1" /\ b # "c2"
    <2>1. S!DecodeByte(acc, b) = [held |-> <<>>, text |-> Append(broken, b)]
        BY <1>5 DEF S!DecodeByte, broken
    <2>2. Append(broken, b) \in Seq(Sym) /\ <<>> \in Seq(Sym)
        BY <1>1, <1>2
    <2> QED
        BY <2>1, <2>2 DEF Accs
<1> QED
    BY <1>3, <1>4, <1>5

ReadOf(p, acc) == Holding(S!Consume(p, acc.text), acc.held)

\* What the decoder makes of a byte is what is read of it.
LEMMA ByteIsRead ==
    ASSUME NEW Sym, {"c", "?"} \subseteq Sym, NEW p \in Parsers(Sym), NEW acc \in Accs(Sym), NEW b \in Sym
    PROVE  ReadOf(p, S!DecodeByte(acc, b)) = Byte(ReadOf(p, acc), b)
<1> DEFINE t == acc.text
           h == acc.held
           q == S!Consume(p, t)
           broken == IF h # <<>> THEN Append(t, "?") ELSE t
           shown == IF h # <<>> THEN Char(q, "?") ELSE q
<1>1. t \in Seq(Sym) /\ h \in Seq(Sym) /\ "c" \in Sym /\ "?" \in Sym
    BY DEF Accs
<1> HIDE DEF t, h
<1>2. \A s \in Seq(Sym), c \in Sym :
        /\ Append(s, c) \in Seq(Sym) /\ S!Consume(p, s) \in Parsers(Sym)
        /\ S!Consume(p, Append(s, c)) = Char(S!Consume(p, s), c)
    BY ConsumeNext, AppendProperties
<1>3. broken \in Seq(Sym) /\ S!Consume(p, broken) = shown
    BY <1>1, <1>2
<1>4. q \in Parsers(Sym)
    BY <1>1, <1>2
<1>5. shown \in Parsers(Sym)
    BY <1>1, <1>4, CharTyped
<1> DEFINE r == Holding(q, h)
<1>6. ReadOf(p, acc) = r /\ r.held = h
    BY <1>4 DEF ReadOf, t, h, Holding, Parsers
<1>7. \A s \in Parsers(Sym), c \in Sym : Char(Holding(s, h), c) = Holding(Char(s, c), h)
    <2> SUFFICES ASSUME NEW s \in Parsers(Sym), NEW c \in Sym
                 PROVE  Char(Holding(s, h), c) = Holding(Char(s, c), h)
        OBVIOUS
    <2>1. HeldAside(Sym, s, c)
        BY CharTyped
    <2> QED
        BY <1>1, <2>1 DEF HeldAside, Holding
<1>8. \A s \in Parsers(Sym) : \A x, y : Holding(Holding(s, x), y) = Holding(s, y)
    BY DEF Holding, Parsers
<1> HIDE DEF q
<1>9. (IF h # <<>> THEN Char(r, "?") ELSE r) = Holding(shown, h)
    BY <1>1, <1>4, <1>7
<1>10. CASE b = "c1"
    <2>1. Byte(r, b) = Holding(Holding(shown, h), <<"c1">>)
        BY <1>6, <1>9, <1>10 DEF Byte
    <2>2. S!DecodeByte(acc, b) = [held |-> <<"c1">>, text |-> broken]
        BY <1>10 DEF S!DecodeByte, t, h
    <2>3. ReadOf(p, S!DecodeByte(acc, b)) = Holding(S!Consume(p, broken), <<"c1">>)
        BY <2>2 DEF ReadOf
    <2> HIDE DEF shown, broken, r
    <2>4. Holding(Holding(shown, h), <<"c1">>) = Holding(shown, <<"c1">>)
        BY <1>5, <1>8
    <2> QED
        BY <1>3, <1>6, <2>1, <2>3, <2>4
<1>11. CASE b = "c2"
    <2> DEFINE c == IF h # <<>> THEN "c" ELSE "?"
    <2>1. Byte(r, b) = Holding(Char(r, c), <<>>)
        BY <1>6, <1>11 DEF Byte
    <2>2. S!DecodeByte(acc, b) = [held |-> <<>>, text |-> Append(t, c)]
        BY <1>11 DEF S!DecodeByte, t, h
    <2>3. ReadOf(p, S!DecodeByte(acc, b)) = Holding(S!Consume(p, Append(t, c)), <<>>)
        BY <2>2 DEF ReadOf
    <2>4. c \in Sym
        BY <1>1
    <2> HIDE DEF c
    <2>5. S!Consume(p, Append(t, c)) = Char(q, c)
        BY <1>1, <1>2, <2>4 DEF q
    <2>6. Char(r, c) = Holding(Char(q, c), h)
        BY <1>4, <1>7, <2>4
    <2>7. Char(q, c) \in Parsers(Sym)
        BY <1>4, <2>4, CharTyped
    <2> HIDE DEF r
    <2>8. Holding(Holding(Char(q, c), h), <<>>) = Holding(Char(q, c), <<>>)
        BY <1>8, <2>7
    <2> QED
        BY <1>6, <2>1, <2>3, <2>5, <2>6, <2>8
<1>12. CASE b # "c1" /\ b # "c2"
    <2>1. Byte(r, b) = Holding(Char(Holding(shown, h), b), <<>>)
        BY <1>6, <1>9, <1>12 DEF Byte
    <2>2. S!DecodeByte(acc, b) = [held |-> <<>>, text |-> Append(broken, b)]
        BY <1>12 DEF S!DecodeByte, t, h
    <2>3. ReadOf(p, S!DecodeByte(acc, b)) = Holding(S!Consume(p, Append(broken, b)), <<>>)
        BY <2>2 DEF ReadOf
    <2> HIDE DEF shown, broken, r
    <2>5. S!Consume(p, Append(broken, b)) = Char(shown, b)
        BY <1>2, <1>3
    <2>6. Char(Holding(shown, h), b) = Holding(Char(shown, b), h)
        BY <1>5, <1>7
    <2>7. Char(shown, b) \in Parsers(Sym)
        BY <1>5, CharTyped
    <2>8. Holding(Holding(Char(shown, b), h), <<>>) = Holding(Char(shown, b), <<>>)
        BY <1>8, <2>7
    <2> QED
        BY <1>6, <2>1, <2>3, <2>5, <2>6, <2>8
<1> QED
    BY <1>10, <1>11, <1>12

BytesBy(Sym, p, bytes, f) ==
    /\ f \in [0..Len(bytes) -> Parsers(Sym)]
    /\ f[0] = p
    /\ \A n \in 1..Len(bytes) : f[n] = Byte(f[n - 1], bytes[n])

\* A chunk is pushed byte by byte.
LEMMA PushReads ==
    ASSUME NEW Sym, {"c", "?"} \subseteq Sym, NEW p \in Parsers(Sym), NEW bytes \in Seq(Sym)
    PROVE  /\ S!Decode(p.held, bytes) \in Accs(Sym)
           /\ \E f : BytesBy(Sym, p, bytes, f) /\ f[Len(bytes)] = S!Push(p, bytes)
<1> DEFINE held == p.held
           start == [held |-> held, text |-> <<>>]
<1>0. held \in Seq(Sym) /\ start \in Accs(Sym) /\ \A i \in 1..Len(bytes) : bytes[i] \in Sym
    BY ElementOfSeq DEF Parsers, Accs
<1> HIDE DEF held
<1> DEFINE N == Len(bytes)
           States == Accs(Sym)
           Op(acc, n) == S!DecodeByte(acc, bytes[n])
           step == [x \in States \X (1..N) |-> Op(x[1], x[2])]
           Meets(f) == f = [n \in 0..N |-> IF n = 0 THEN [held |-> held, text |-> <<>>] ELSE S!DecodeByte(f[n - 1], bytes[n])]
           read == CHOOSE f : Meets(f)
<1>1. N \in Nat /\ [held |-> held, text |-> <<>>] \in States
    BY LenProperties, <1>0
<1>2. \A acc \in States, n \in 1..N : Op(acc, n) \in States
    BY <1>0, DecodeByteTyped
<1>3. S!Decode(held, bytes) = read[N]
    BY DEF S!Decode
<1>4. \A f : Meets(f) <=> f = [n \in 0..N |-> IF n = 0 THEN [held |-> held, text |-> <<>>] ELSE Op(f[n - 1], n)]
    OBVIOUS
<1> HIDE DEF N, States, Op
<1>5. step \in [States \X (1..N) -> States]
    BY <1>2
<1> HIDE DEF step
<1>6. PICK f \in [0..N -> States] : Follows(f, N, [held |-> held, text |-> <<>>], step)
    BY <1>1, <1>5, Recursion, Zenon
<1> USE DEF step
<1>7. f[0] = [held |-> held, text |-> <<>>] /\ \A n \in 1..N : f[n] = step[<<f[n - 1], n>>]
    BY <1>6 DEF Follows
<1> HIDE DEF Meets
<1>8. Meets(f)
    <2>1. \A n \in 1..N : f[n] = Op(f[n - 1], n)
        <3> SUFFICES ASSUME NEW n \in 1..N PROVE f[n] = Op(f[n - 1], n)
            OBVIOUS
        <3>1. n \in 0..N /\ n # 0 /\ n - 1 \in 0..N
            BY <1>1
        <3>2. <<f[n - 1], n>> \in States \X (1..N)
            BY <3>1
        <3>3. f[n] = step[<<f[n - 1], n>>]
            BY <1>7, <3>1
        <3> QED
            BY <3>2, <3>3
    <2>2. f[0] = [held |-> held, text |-> <<>>]
        BY <1>1, <1>7
    <2>3. \A n \in 0..N : f[n] = IF n = 0 THEN [held |-> held, text |-> <<>>] ELSE Op(f[n - 1], n)
        BY <1>1, <2>1, <2>2
    <2>4. f = [n \in 0..N |-> IF n = 0 THEN [held |-> held, text |-> <<>>] ELSE Op(f[n - 1], n)]
        BY <2>3
    <2> QED
        BY <1>4, <2>4
<1>9. Meets(read)
    BY <1>8
<1> HIDE DEF read
<1>10. read[0] = [held |-> held, text |-> <<>>] /\ \A n \in 1..N : read[n] = Op(read[n - 1], n)
    <2>1. read = [n \in 0..N |-> IF n = 0 THEN [held |-> held, text |-> <<>>] ELSE Op(read[n - 1], n)]
        BY <1>4, <1>9
    <2>2. \A n \in 0..N : read[n] = IF n = 0 THEN [held |-> held, text |-> <<>>] ELSE Op(read[n - 1], n)
        BY <2>1
    <2> QED
        BY <1>1, <2>2
<1>11. read \in [0..N -> States]
    <2> DEFINE typed == {n \in 0..N : read[n] \in States}
    <2>1. 0 \in typed
        BY <1>1, <1>10
    <2>2. ASSUME NEW n \in 0..N, n + 1 \in 0..N, n \in typed PROVE n + 1 \in typed
        <3>1. n + 1 \in 1..N /\ (n + 1) - 1 = n
            BY <2>2, <1>1
        <3>2. read[n + 1] = Op(read[n], n + 1)
            BY <1>10, <3>1
        <3> QED
            BY <1>2, <2>2, <3>1, <3>2
    <2> HIDE DEF typed
    <2>3. 0..N \subseteq typed
        BY <1>1, <2>1, <2>2, CountingUp
    <2>4. \A n \in 0..N : read[n] \in States
        BY <2>3 DEF typed
    <2>5. read = [n \in 0..N |-> read[n]]
        BY <1>4, <1>9
    <2> QED
        BY <2>4, <2>5

<1> DEFINE g == [n \in 0..N |-> ReadOf(p, read[n])]
<1>12. N \in 0..N /\ 0 \in 0..N
    BY <1>1
<1>13. S!Decode(held, bytes) \in Accs(Sym)
    BY <1>3, <1>11, <1>12 DEF States
<1>14. \A acc \in Accs(Sym) : ReadOf(p, acc) \in Parsers(Sym)
    <2> SUFFICES ASSUME NEW acc \in Accs(Sym) PROVE ReadOf(p, acc) \in Parsers(Sym)
        OBVIOUS
    <2>1. acc.text \in Seq(Sym) /\ acc.held \in Seq(Sym)
        BY DEF Accs
    <2>2. "c" \in Sym
        OBVIOUS
    <2>3. S!Consume(p, acc.text) \in Parsers(Sym)
        BY <2>1, <2>2, ConsumeNext
    <2> QED
        BY <2>1, <2>3 DEF ReadOf, Holding, Parsers
<1>15. g \in [0..N -> Parsers(Sym)]
    BY <1>11, <1>14 DEF States
<1>16. g[0] = p
    <2>1. g[0] = ReadOf(p, read[0])
        BY <1>12
    <2>2. ReadOf(p, read[0]) = Holding(S!Consume(p, <<>>), held)
        BY <1>10 DEF ReadOf
    <2>3. S!Consume(p, <<>>) = p
        BY ConsumeNone
    <2>4. Holding(p, held) = p
        BY DEF held, Parsers, Holding
    <2> QED
        BY <2>1, <2>2, <2>3, <2>4
<1>17. ASSUME NEW n \in 1..N PROVE g[n] = Byte(g[n - 1], bytes[n])
    <2>1. n - 1 \in 0..N /\ n \in 0..N
        BY <1>1
    <2>2. read[n] = S!DecodeByte(read[n - 1], bytes[n])
        BY <1>10 DEF Op
    <2>3. read[n - 1] \in Accs(Sym) /\ bytes[n] \in Sym
        BY <1>0, <1>11, <2>1 DEF States, N
    <2>4. g[n] = ReadOf(p, read[n]) /\ g[n - 1] = ReadOf(p, read[n - 1])
        BY <2>1
    <2>5. ReadOf(p, S!DecodeByte(read[n - 1], bytes[n])) = Byte(ReadOf(p, read[n - 1]), bytes[n])
        BY <2>3, ByteIsRead
    <2> HIDE DEF g
    <2> QED
        BY <2>2, <2>4, <2>5
<1>18. g[N] = S!Push(p, bytes)
    <2> DEFINE d == S!Decode(held, bytes)
    <2>1. g[N] = ReadOf(p, d)
        BY <1>3, <1>12
    <2>2. S!Push(p, bytes) = S!Consume(Holding(p, d.held), d.text)
        BY DEF S!Push, held, Holding
    <2>3. d.held \in Seq(Sym) /\ d.text \in Seq(Sym)
        BY <1>13 DEF Accs
    <2> HIDE DEF d, g
    <2>4. S!Consume(Holding(p, d.held), d.text) = Holding(S!Consume(p, d.text), d.held)
        BY <2>3, ConsumeHolding DEF Holding
    <2> QED
        BY <2>1, <2>2, <2>4 DEF ReadOf
<1> HIDE DEF g
<1>19. BytesBy(Sym, p, bytes, g) /\ g[Len(bytes)] = S!Push(p, bytes)
    BY <1>15, <1>16, <1>17, <1>18 DEF BytesBy, N
<1> QED
    BY <1>13, <1>19 DEF held

LEMMA BlankTyped == ASSUME NEW Sym PROVE S!Blank \in Parsers(Sym)
<1>1. S!NoEvent \in EventStates(Sym)
    BY DEF S!NoEvent, EventStates
<1>2. <<>> \in Seq(Sym) /\ <<>> \in Seq(Emitted(Sym))
    OBVIOUS
<1> QED
    BY <1>1, <1>2 DEF S!Blank, Parsers

\* From wherever a chunk ended, the next one is read to its end.
LEMMA PushStops ==
    ASSUME NEW Sym, {"c", "?"} \subseteq Sym, NEW p, NEW bytes \in Seq(Sym),
           NEW f, BytesBy(Sym, p, bytes, f),
           NEW a \in 0..Len(bytes), NEW e \in a..Len(bytes)
    PROVE  S!Push(f[a], SubSeq(bytes, a + 1, e)) = f[e]
<1> DEFINE L == Len(bytes)
           chunk == SubSeq(bytes, 1 + a, e)
           m == e - a
<1>1. L \in Nat /\ a \in Nat /\ e \in Nat /\ a <= e /\ e <= L /\ \A i \in 1..L : bytes[i] \in Sym
    BY LenProperties, ElementOfSeq
<1>2. chunk \in Seq(Sym) /\ Len(chunk) = m /\ \A i \in 1..m : chunk[i] = bytes[a + i]
    <2> DEFINE from == 1 + a
    <2>1. from \in Int /\ e \in Int /\ \A i \in from..e : bytes[i] \in Sym
        BY <1>1
    <2>2. (e - from) + 1 = m /\ (from <= e => (e - from) + 1 = m) /\ (~(from <= e) => m = 0)
        BY <1>1
    <2>3. \A i \in 1..m : (from + i) - 1 = a + i
        BY <1>1
    <2> HIDE DEF from, m
    <2>4. /\ SubSeq(bytes, from, e) \in Seq(Sym)
          /\ Len(SubSeq(bytes, from, e)) = IF from <= e THEN e - from + 1 ELSE 0
          /\ \A i \in 1..e - from + 1 : SubSeq(bytes, from, e)[i] = bytes[from + i - 1]
        BY <2>1, SubSeqProperties
    <2> QED
        BY <2>2, <2>3, <2>4 DEF from
<1>3. m \in Nat /\ a + m = e
    BY <1>1
<1>4. f \in [0..L -> Parsers(Sym)] /\ \A n \in 1..L : f[n] = Byte(f[n - 1], bytes[n])
    BY DEF BytesBy
<1> HIDE DEF L, chunk, m
<1>5. f[a] \in Parsers(Sym)
    BY <1>1, <1>4
<1>6. PICK g : BytesBy(Sym, f[a], chunk, g) /\ g[Len(chunk)] = S!Push(f[a], chunk)
    BY <1>2, <1>5, PushReads
<1>7. g[0] = f[a] /\ g[m] = S!Push(f[a], chunk) /\ \A n \in 1..m : g[n] = Byte(g[n - 1], chunk[n])
    BY <1>2, <1>6 DEF BytesBy
<1> DEFINE same == {n \in 0..m : g[n] = f[a + n]}
<1>8. 0 \in same
    BY <1>1, <1>3, <1>7
<1>9. ASSUME NEW n \in 0..m, n + 1 \in 0..m, n \in same PROVE n + 1 \in same
    <2>4. g[n] = f[a + n]
        BY <1>9
    <2>5. n \in Nat /\ a \in Nat /\ L \in Nat /\ m \in Nat /\ n + 1 <= m /\ a + m <= L
        BY <1>1, <1>3, <1>9
    <2>1. /\ n + 1 \in 1..m /\ (n + 1) - 1 = n /\ g[n] = f[a + n]
          /\ a + (n + 1) \in 1..L /\ (a + (n + 1)) - 1 = a + n
        BY <2>4, <2>5
    <2>2. g[n + 1] = Byte(g[n], chunk[n + 1]) /\ chunk[n + 1] = bytes[a + (n + 1)]
        BY <1>2, <1>7, <2>1
    <2>3. f[a + (n + 1)] = Byte(f[a + n], bytes[a + (n + 1)])
        BY <1>4, <2>1
    <2> QED
        BY <1>9, <2>1, <2>2, <2>3
<1> HIDE DEF same
<1>10. 0..m \subseteq same
    BY <1>3, <1>8, <1>9, CountingUp
<1>11. g[m] = f[e]
    BY <1>3, <1>10 DEF same
<1>12. a + 1 = 1 + a
    BY <1>1
<1> QED
    BY <1>7, <1>11, <1>12 DEF chunk

PushedBy(Sym, chunks, f) ==
    /\ f \in [0..Len(chunks) -> Parsers(Sym)]
    /\ f[0] = S!Blank
    /\ \A n \in 1..Len(chunks) : f[n] = S!Push(f[n - 1], chunks[n])

LEMMA PushTyped ==
    ASSUME NEW Sym, {"c", "?"} \subseteq Sym, NEW p \in Parsers(Sym), NEW bytes \in Seq(Sym)
    PROVE  S!Push(p, bytes) \in Parsers(Sym)
<1>1. PICK f : BytesBy(Sym, p, bytes, f) /\ f[Len(bytes)] = S!Push(p, bytes)
    BY PushReads
<1>2. Len(bytes) \in 0..Len(bytes)
    BY LenProperties
<1> QED
    BY <1>1, <1>2 DEF BytesBy

LEMMA EventsPushed ==
    ASSUME NEW Sym, {"c", "?"} \subseteq Sym, NEW chunks \in Seq(Seq(Sym))
    PROVE  \E f : PushedBy(Sym, chunks, f) /\ S!EventsOf(chunks) = S!Flush(f[Len(chunks)]).out
<1>0. \A i \in 1..Len(chunks) : chunks[i] \in Seq(Sym)
    BY ElementOfSeq
<1> DEFINE N == Len(chunks)
           States == Parsers(Sym)
           Op(acc, n) == S!Push(acc, chunks[n])
           step == [x \in States \X (1..N) |-> Op(x[1], x[2])]
           Meets(f) == f = [n \in 0..N |-> IF n = 0 THEN S!Blank ELSE S!Push(f[n - 1], chunks[n])]
           read == CHOOSE f : Meets(f)
<1>1. N \in Nat /\ S!Blank \in States
    BY LenProperties, BlankTyped
<1>2. \A acc \in States, n \in 1..N : Op(acc, n) \in States
    BY <1>0, PushTyped
<1>3. S!EventsOf(chunks) = S!Flush(read[N]).out
    BY DEF S!EventsOf
<1>4. \A f : Meets(f) <=> f = [n \in 0..N |-> IF n = 0 THEN S!Blank ELSE Op(f[n - 1], n)]
    OBVIOUS
<1> HIDE DEF N, States, Op
<1>5. step \in [States \X (1..N) -> States]
    BY <1>2
<1> HIDE DEF step
<1>6. PICK f \in [0..N -> States] : Follows(f, N, S!Blank, step)
    BY <1>1, <1>5, Recursion, Zenon
<1> USE DEF step
<1>7. f[0] = S!Blank /\ \A n \in 1..N : f[n] = step[<<f[n - 1], n>>]
    BY <1>6 DEF Follows
<1> HIDE DEF Meets
<1>8. Meets(f)
    <2>1. \A n \in 1..N : f[n] = Op(f[n - 1], n)
        <3> SUFFICES ASSUME NEW n \in 1..N PROVE f[n] = Op(f[n - 1], n)
            OBVIOUS
        <3>1. n \in 0..N /\ n # 0 /\ n - 1 \in 0..N
            BY <1>1
        <3>2. <<f[n - 1], n>> \in States \X (1..N)
            BY <3>1
        <3>3. f[n] = step[<<f[n - 1], n>>]
            BY <1>7, <3>1
        <3> QED
            BY <3>2, <3>3
    <2>2. f[0] = S!Blank
        BY <1>1, <1>7
    <2>3. \A n \in 0..N : f[n] = IF n = 0 THEN S!Blank ELSE Op(f[n - 1], n)
        BY <1>1, <2>1, <2>2
    <2>4. f = [n \in 0..N |-> IF n = 0 THEN S!Blank ELSE Op(f[n - 1], n)]
        BY <2>3
    <2> QED
        BY <1>4, <2>4
<1>9. Meets(read)
    BY <1>8
<1> HIDE DEF read
<1>10. read[0] = S!Blank /\ \A n \in 1..N : read[n] = Op(read[n - 1], n)
    <2>1. read = [n \in 0..N |-> IF n = 0 THEN S!Blank ELSE Op(read[n - 1], n)]
        BY <1>4, <1>9
    <2>2. \A n \in 0..N : read[n] = IF n = 0 THEN S!Blank ELSE Op(read[n - 1], n)
        BY <2>1
    <2> QED
        BY <1>1, <2>2
<1>11. read \in [0..N -> States]
    <2> DEFINE typed == {n \in 0..N : read[n] \in States}
    <2>1. 0 \in typed
        BY <1>1, <1>10
    <2>2. ASSUME NEW n \in 0..N, n + 1 \in 0..N, n \in typed PROVE n + 1 \in typed
        <3>1. n + 1 \in 1..N /\ (n + 1) - 1 = n
            BY <2>2, <1>1
        <3>2. read[n + 1] = Op(read[n], n + 1)
            BY <1>10, <3>1
        <3> QED
            BY <1>2, <2>2, <3>1, <3>2
    <2> HIDE DEF typed
    <2>3. 0..N \subseteq typed
        BY <1>1, <2>1, <2>2, CountingUp
    <2>4. \A n \in 0..N : read[n] \in States
        BY <2>3 DEF typed
    <2>5. read = [n \in 0..N |-> read[n]]
        BY <1>4, <1>9
    <2> QED
        BY <2>4, <2>5

<1>12. PushedBy(Sym, chunks, read)
    BY <1>10, <1>11 DEF PushedBy, N, States, Op
<1> QED
    BY <1>3, <1>12 DEF N

\* However the bytes were cut, they are read as if they had come at once.
LEMMA CutsDisappear ==
    ASSUME NEW Sym, {"c", "?"} \subseteq Sym, NEW bytes \in Seq(Sym), NEW ends \in Seq(0..Len(bytes)),
           Len(ends) # 0, ends[Len(ends)] = Len(bytes),
           \A i, k \in 1..Len(ends) : i < k => ends[i] < ends[k]
    PROVE  S!EventsOf([i \in DOMAIN ends |->
                        SubSeq(bytes, 1 + (IF i = 1 THEN 0 ELSE ends[i - 1]), ends[i])]) =
               S!Flush(S!Push(S!Blank, bytes)).out
<1> DEFINE L == Len(bytes)
           K == Len(ends)
           from == [i \in 1..K |-> IF i = 1 THEN 0 ELSE ends[i - 1]]
           chunks == [i \in 1..K |-> SubSeq(bytes, 1 + from[i], ends[i])]
<1>1. /\ L \in Nat /\ K \in Nat /\ K # 0 /\ \A i \in 1..K : ends[i] \in 0..L
      /\ \A i \in 1..L : bytes[i] \in Sym
    <2>1. Len(bytes) \in Nat /\ Len(ends) \in Nat
        BY LenProperties
    <2>2. \A i \in 1..Len(ends) : ends[i] \in 0..Len(bytes)
        BY ElementOfSeq
    <2> QED
        BY <2>1, <2>2, ElementOfSeq
<1>2. DOMAIN ends = 1..K /\ ends[K] = L /\ \A i, k \in 1..K : i < k => ends[i] < ends[k]
    BY LenProperties
<1> HIDE DEF L, K
<1>3. \A i \in 1..K : /\ from[i] \in 0..L /\ ends[i] \in from[i]..L
    <2> SUFFICES ASSUME NEW i \in 1..K PROVE from[i] \in 0..L /\ ends[i] \in from[i]..L
        OBVIOUS
    <2>1. ends[i] \in 0..L /\ i \in Nat
        BY <1>1
    <2>2. CASE i = 1
        BY <1>1, <2>1, <2>2
    <2>3. CASE i # 1
        <3>1. i - 1 \in 1..K /\ i - 1 < i
            BY <1>1, <2>1, <2>3
        <3>2. ends[i - 1] \in 0..L /\ ends[i - 1] < ends[i]
            BY <1>1, <1>2, <3>1
        <3> QED
            BY <1>1, <2>1, <2>3, <3>2
    <2> QED
        BY <2>2, <2>3
<1>4. [i \in DOMAIN ends |-> SubSeq(bytes, 1 + (IF i = 1 THEN 0 ELSE ends[i - 1]), ends[i])] = chunks
    BY <1>2
<1>5. \A i \in 1..K : chunks[i] = SubSeq(bytes, from[i] + 1, ends[i])
    <2> SUFFICES ASSUME NEW i \in 1..K PROVE chunks[i] = SubSeq(bytes, from[i] + 1, ends[i])
        OBVIOUS
    <2>1. from[i] + 1 = 1 + from[i]
        BY <1>1, <1>3
    <2> HIDE DEF from
    <2> QED
        BY <2>1
<1>6. from[1] = 0 /\ \A i \in 1..K : i # 1 => from[i] = ends[i - 1]
    BY <1>1
<1> HIDE DEF from
<1>7. \A i \in 1..K : chunks[i] \in Seq(Sym)
    <2> SUFFICES ASSUME NEW i \in 1..K PROVE chunks[i] \in Seq(Sym)
        OBVIOUS
    <2> DEFINE a == 1 + from[i]
               e == ends[i]
    <2>1. a \in Int /\ e \in Int /\ \A j \in a..e : bytes[j] \in Sym
        BY <1>1, <1>3
    <2>2. chunks[i] = SubSeq(bytes, a, e)
        OBVIOUS
    <2> HIDE DEF a, e
    <2>3. SubSeq(bytes, a, e) \in Seq(Sym)
        BY <2>1, SubSeqProperties
    <2> QED
        BY <2>2, <2>3
<1>8. chunks \in [1..K -> Seq(Sym)]
    BY <1>7
<1> HIDE DEF chunks
<1>9. chunks \in Seq(Seq(Sym)) /\ Len(chunks) = K
    BY <1>1, <1>8
<1>10. S!Blank \in Parsers(Sym)
    BY BlankTyped
<1>11. PICK f : BytesBy(Sym, S!Blank, bytes, f) /\ f[Len(bytes)] = S!Push(S!Blank, bytes)
    BY <1>10, PushReads
<1>12. PICK g : PushedBy(Sym, chunks, g) /\ S!EventsOf(chunks) = S!Flush(g[Len(chunks)]).out
    BY <1>9, EventsPushed
<1>13. f[0] = S!Blank /\ f[L] = S!Push(S!Blank, bytes)
    BY <1>11 DEF BytesBy, L
<1>14. g[0] = S!Blank /\ \A n \in 1..K : g[n] = S!Push(g[n - 1], chunks[n])
    BY <1>9, <1>12 DEF PushedBy
<1> DEFINE at == [n \in 0..K |-> IF n = 0 THEN 0 ELSE ends[n]]
           same == {n \in 0..K : g[n] = f[at[n]]}
<1>15. at[0] = 0 /\ \A n \in 1..K : at[n] = ends[n] /\ at[n - 1] = from[n]
    <2>1. 0 \in 0..K /\ \A n \in 1..K : n \in 0..K /\ n # 0 /\ n - 1 \in 0..K /\ (n - 1 = 0 <=> n = 1)
        BY <1>1
    <2> QED
        BY <1>6, <2>1
<1> HIDE DEF at
<1>16. 0 \in same
    BY <1>1, <1>13, <1>14, <1>15
<1>17. ASSUME NEW n \in 0..K, n + 1 \in 0..K, n \in same PROVE n + 1 \in same
    <2>1. n + 1 \in 1..K /\ (n + 1) - 1 = n
        BY <1>1, <1>17
    <2>2. g[n + 1] = S!Push(g[n], chunks[n + 1]) /\ g[n] = f[at[n]] /\ at[n] = from[n + 1]
        BY <1>14, <1>15, <1>17, <2>1
    <2> DEFINE a == from[n + 1]
               e == ends[n + 1]
    <2>3. a \in 0..L /\ e \in a..L /\ chunks[n + 1] = SubSeq(bytes, a + 1, e) /\ at[n + 1] = e
        BY <1>3, <1>5, <1>15, <2>1
    <2>4. g[n + 1] = S!Push(f[a], SubSeq(bytes, a + 1, e))
        BY <2>2, <2>3
    <2> HIDE DEF a, e
    <2>5. S!Push(f[a], SubSeq(bytes, a + 1, e)) = f[e]
        BY <1>11, <2>3, PushStops DEF L
    <2> QED
        BY <1>17, <2>3, <2>4, <2>5
<1> HIDE DEF same
<1>18. 0..K \subseteq same
    BY <1>1, <1>16, <1>17, CountingUp
<1>19. g[K] = f[L]
    <2>1. K \in 0..K /\ K \in 1..K
        BY <1>1
    <2> QED
        BY <1>2, <1>15, <1>18, <2>1 DEF same
<1> QED
    BY <1>4, <1>9, <1>12, <1>13, <1>19

\* Positions in order end with the last of them.
LEMMA CutsInOrder ==
    ASSUME NEW L \in Nat, NEW D \in SUBSET (0..L), L \in D
    PROVE  /\ S!InOrder(D) \in Seq(0..L) /\ Len(S!InOrder(D)) # 0 /\ S!InOrder(D)[Len(S!InOrder(D))] = L
           /\ \A i, k \in 1..Len(S!InOrder(D)) : i < k => S!InOrder(D)[i] < S!InOrder(D)[k]
<1> DEFINE s == S!InOrder(D)
           N == Cardinality(D)
<1>1. D \in SUBSET Nat /\ IsFiniteSet(D)
    <2>1. IsFiniteSet(0..L) /\ 0..L \subseteq Nat
        BY FS_Interval
    <2> QED
        BY <2>1, FS_Subset
<1>2. /\ s \in Seq(D) /\ Len(s) = N /\ N \in Nat
      /\ Cardinality(UpTo(D, L)) \in 1..N /\ s[Cardinality(UpTo(D, L))] = L
      /\ \A m, n \in 1..N : m < n => s[m] < s[n]
    BY <1>1, InOrderIs
<1>3. UpTo(D, L) = D
    <2>1. \A i \in D : i <= L
        OBVIOUS
    <2> QED
        BY <2>1 DEF UpTo
<1>4. N \in 1..N /\ s[N] = L
    BY <1>2, <1>3
<1>5. s \in Seq(0..L)
    BY <1>2, SeqMonotonic
<1>6. N # 0
    BY <1>2, <1>4
<1> HIDE DEF s, N
<1> QED
    BY <1>2, <1>4, <1>5, <1>6 DEF s

Ended(p) == S!Dispatch(IF p.pending = <<>> THEN p ELSE [S!HandleLine(p, p.pending) EXCEPT !.pending = <<>>])
WholeText(bytes) ==
    S!Decode(<<>>, bytes).text \o (IF S!Decode(<<>>, bytes).held = <<>> THEN <<>> ELSE <<"?">>)

\* What the decoder still holds at the end is read as a broken character.
LEMMA FlushReads ==
    ASSUME NEW Sym, {"c", "?"} \subseteq Sym, NEW bytes \in Seq(Sym)
    PROVE  /\ WholeText(bytes) \in Seq(Sym)
           /\ S!Flush(S!Push(S!Blank, bytes)) = Ended(S!Consume(S!Blank, WholeText(bytes)))
<1> DEFINE d == S!Decode(<<>>, bytes)
           h == d.held
           t == d.text
           q == S!Consume(S!Blank, t)
           rest == IF h = <<>> THEN <<>> ELSE <<"?">>
<1>1. S!Blank \in Parsers(Sym) /\ S!Blank.held = <<>> /\ "?" \in Sym /\ "c" \in Sym
    BY BlankTyped DEF S!Blank
<1>2. d \in Accs(Sym)
    BY <1>1, PushReads
<1>3. S!Push(S!Blank, bytes) = S!Consume(Holding(S!Blank, h), t)
    BY <1>1 DEF S!Push, Holding
<1> HIDE DEF d
<1>4. h \in Seq(Sym) /\ t \in Seq(Sym)
    BY <1>2 DEF Accs
<1>5. WholeText(bytes) = t \o rest
    BY DEF WholeText, d
<1> HIDE DEF h, t
<1>6. q \in Parsers(Sym)
    BY <1>1, <1>4, ConsumeNext
<1>7. S!Push(S!Blank, bytes) = Holding(q, h)
    BY <1>1, <1>3, <1>4, ConsumeHolding DEF Holding
<1>8. q = Holding(q, <<>>)
    <2>1. S!Consume(Holding(S!Blank, <<>>), t) = Holding(q, <<>>)
        <3> DEFINE none == <<>>
        <3>1. none \in Seq(Sym)
            OBVIOUS
        <3> HIDE DEF none
        <3>2. S!Consume(Holding(S!Blank, none), t) = Holding(q, none)
            BY <1>1, <1>4, <3>1, ConsumeHolding DEF Holding
        <3> QED
            BY <3>2 DEF none
    <2>2. Holding(S!Blank, <<>>) = S!Blank
        BY DEF Holding, S!Blank
    <2> QED
        BY <2>1, <2>2
<1> HIDE DEF q
<1>9. Holding(q, h).held = h /\ [Holding(q, h) EXCEPT !.held = <<>>] = Holding(q, <<>>)
    BY <1>6 DEF Holding, Parsers
<1>10. S!Flush(S!Push(S!Blank, bytes)) = Ended(S!Consume(q, rest))
    BY <1>7, <1>8, <1>9 DEF S!Flush, Ended
<1>11. CASE h = <<>>
    <2>1. rest = <<>> /\ t \o rest = t
        BY <1>4, <1>11, ConcatEmptySeq
    <2>2. S!Consume(q, rest) = q
        BY <1>6, <2>1, ConsumeNone
    <2> QED
        BY <1>4, <1>5, <1>10, <2>1, <2>2 DEF q
<1>12. CASE h # <<>>
    <2>1. rest = <<"?">>
        BY <1>12
    <2>2. t \o <<"?">> = Append(t, "?") /\ Append(t, "?") \in Seq(Sym)
        BY <1>1, <1>4, AppendIsConcat, AppendProperties
    <2>3. S!Consume(S!Blank, Append(t, "?")) = Char(q, "?")
        BY <1>1, <1>4, ConsumeNext DEF q
    <2>4. S!Consume(q, Append(<<>>, "?")) = Char(S!Consume(q, <<>>), "?")
        <3> DEFINE none == <<>>
        <3>1. none \in Seq(Sym)
            OBVIOUS
        <3> HIDE DEF none
        <3>2. S!Consume(q, Append(none, "?")) = Char(S!Consume(q, none), "?")
            BY <1>1, <1>6, <3>1, ConsumeNext
        <3> QED
            BY <3>2 DEF none
    <2>5. S!Consume(q, <<>>) = q /\ Append(<<>>, "?") = <<"?">>
        BY <1>6, ConsumeNone
    <2>6. WholeText(bytes) = Append(t, "?")
        BY <1>5, <2>1, <2>2
    <2>7. S!Consume(q, rest) = Char(q, "?")
        BY <2>1, <2>4, <2>5
    <2> QED
        BY <1>10, <2>2, <2>3, <2>6, <2>7
<1> QED
    BY <1>11, <1>12

-----------------------------------------------------------------------------
(* what is at some positions, in their order *)

Over(h, D) == [i \in DOMAIN S!InOrder(D) |-> h[S!InOrder(D)[i]]]

OneEach(h, D, Q) ==
    /\ Over(h, D) \in Seq(Q) /\ Len(Over(h, D)) = Cardinality(D)
    /\ \A n \in 1..Cardinality(D) : Over(h, D)[n] = h[S!InOrder(D)[n]]

LEMMA OverTyped ==
    ASSUME NEW D \in SUBSET Nat, IsFiniteSet(D), NEW Q, NEW h, \A i \in D : h[i] \in Q
    PROVE  OneEach(h, D, Q)
<1> DEFINE s == S!InOrder(D)
           N == Cardinality(D)
<1>1. s \in Seq(D) /\ Len(s) = N /\ N \in Nat
    BY InOrderIs
<1>2. DOMAIN s = 1..N /\ \A n \in 1..N : s[n] \in D
    BY <1>1, LenProperties, ElementOfSeq
<1> HIDE DEF s, N
<1>3. Over(h, D) = [n \in 1..N |-> h[s[n]]]
    BY <1>2 DEF Over, s
<1>4. Over(h, D) \in [1..N -> Q]
    BY <1>2, <1>3
<1>5. \A n \in 1..N : Over(h, D)[n] = h[s[n]]
    BY <1>3
<1>6. Over(h, D) \in Seq(Q) /\ Len(Over(h, D)) = N
    BY <1>1, <1>4
<1> QED
    BY <1>5, <1>6 DEF s, N, OneEach

LEMMA OverSame ==
    ASSUME NEW D \in SUBSET Nat, IsFiniteSet(D), NEW h, NEW g, \A i \in D : h[i] = g[i]
    PROVE  Over(h, D) = Over(g, D)
<1>1. S!InOrder(D) \in Seq(D)
    BY InOrderIs
<1>2. \A i \in DOMAIN S!InOrder(D) : S!InOrder(D)[i] \in D
    BY <1>1, LenProperties, ElementOfSeq
<1> QED
    BY <1>2 DEF Over

LEMMA OverNone == ASSUME NEW h PROVE Over(h, {}) = <<>>
<1>1. DOMAIN S!InOrder({}) = {}
    BY InOrderOfNone
<1> QED
    BY <1>1 DEF Over

OneMore(h, g, D, m, Q) ==
    /\ D \in SUBSET Nat /\ IsFiniteSet(D) /\ m \in Nat /\ \A i \in D : i < m
    /\ \A i \in D : h[i] = g[i] /\ g[i] \in Q
    /\ h[m] \in Q

Grown(h, g, D, m) == Over(h, D \cup {m}) = Append(Over(g, D), h[m])

LEMMA OverGrows ==
    ASSUME NEW h, NEW g, NEW D, NEW m, NEW Q, OneMore(h, g, D, m, Q)
    PROVE  Grown(h, g, D, m)
<1> DEFINE W == D \cup {m}
           N == Cardinality(D)
           e == h[m]
<1>0. /\ D \in SUBSET Nat /\ IsFiniteSet(D) /\ m \in Nat /\ \A i \in D : i < m
      /\ \A i \in D : h[i] = g[i] /\ g[i] \in Q
      /\ h[m] \in Q
    BY DEF OneMore
<1>1. W \in SUBSET Nat /\ IsFiniteSet(W) /\ m \notin D /\ Cardinality(W) = N + 1 /\ N \in Nat
    BY <1>0, FS_AddElement, FS_CardinalityType
<1>2. \A i \in W : h[i] \in Q
    BY <1>0
<1>3. S!InOrder(W) = Append(S!InOrder(D), m)
    BY <1>0, InOrderGrows
<1> HIDE DEF W
<1>4. /\ Over(h, W) \in Seq(Q) /\ Len(Over(h, W)) = N + 1
      /\ \A n \in 1..N + 1 : Over(h, W)[n] = h[S!InOrder(W)[n]]
    <2>1. OneEach(h, W, Q)
        BY <1>1, <1>2, OverTyped
    <2> QED
        BY <1>1, <2>1 DEF OneEach
<1>5. /\ Over(g, D) \in Seq(Q) /\ Len(Over(g, D)) = N
      /\ \A n \in 1..N : Over(g, D)[n] = g[S!InOrder(D)[n]]
    <2>1. \A i \in D : g[i] \in Q
        BY <1>0
    <2>2. OneEach(g, D, Q)
        BY <1>0, <2>1, OverTyped
    <2> QED
        BY <2>2 DEF OneEach
<1>6. S!InOrder(D) \in Seq(D) /\ Len(S!InOrder(D)) = N /\ \A n \in 1..N : S!InOrder(D)[n] \in D
    BY <1>0, InOrderIs
<1>7. S!InOrder(D) \in Seq(Nat)
    BY <1>0, <1>6, SeqMonotonic
<1>8. S!InOrder(W)[N + 1] = m /\ \A n \in 1..N : S!InOrder(W)[n] = S!InOrder(D)[n]
    BY <1>3, <1>6, <1>7, AppendProperties
<1> HIDE DEF N
<1>9. e \in Q
    BY <1>0
<1>10. Over(h, W)[N + 1] = e
    <2>1. N + 1 \in 1..N + 1
        BY <1>1
    <2> QED
        BY <1>4, <1>8, <2>1
<1>11. \A n \in 1..N : Over(h, W)[n] = Over(g, D)[n]
    <2> SUFFICES ASSUME NEW n \in 1..N PROVE Over(h, W)[n] = Over(g, D)[n]
        OBVIOUS
    <2>1. n \in 1..N + 1
        BY <1>1
    <2>2. S!InOrder(D)[n] \in D /\ S!InOrder(W)[n] = S!InOrder(D)[n]
        BY <1>6, <1>8
    <2>3. Over(h, W)[n] = h[S!InOrder(D)[n]] /\ Over(g, D)[n] = g[S!InOrder(D)[n]]
        BY <1>4, <1>5, <2>1, <2>2
    <2> QED
        BY <1>0, <2>2, <2>3
<1> HIDE DEF e
<1> DEFINE a == Over(g, D)
           b == Over(h, W)
<1>12. a \in Seq(Q) /\ b \in Seq(Q) /\ Len(a) = N /\ Len(b) = N + 1 /\ b[N + 1] = e
       /\ \A n \in 1..N : b[n] = a[n]
    BY <1>4, <1>5, <1>10, <1>11
<1> HIDE DEF a, b
<1>13. /\ Append(a, e) \in Seq(Q) /\ Len(Append(a, e)) = N + 1 /\ Append(a, e)[N + 1] = e
       /\ \A n \in 1..N : Append(a, e)[n] = a[n]
    BY <1>9, <1>12, AppendProperties
<1>14. \A n \in 1..N + 1 : b[n] = Append(a, e)[n]
    <2>1. \A n \in 1..N + 1 : n \in 1..N \/ n = N + 1
        BY <1>1
    <2> QED
        BY <1>12, <1>13, <2>1
<1>15. b = Append(a, e)
    BY <1>12, <1>13, <1>14, SeqEqual
<1> QED
    BY <1>15 DEF a, b, e, W, Grown

CountsBy(parts, f) ==
    /\ f \in [0..Len(parts) -> Nat]
    /\ f[0] = 0
    /\ \A n \in 1..Len(parts) : f[n] = f[n - 1] + Len(parts[n])

LEMMA CharsCounted ==
    ASSUME NEW Sym, NEW parts \in Seq(Seq(Sym))
    PROVE  \E f : CountsBy(parts, f) /\ S!Chars(parts) = f[Len(parts)]
<1>0. \A i \in 1..Len(parts) : Len(parts[i]) \in Nat
    <2> SUFFICES ASSUME NEW i \in 1..Len(parts) PROVE Len(parts[i]) \in Nat
        OBVIOUS
    <2>1. parts[i] \in Seq(Sym)
        BY ElementOfSeq
    <2> QED
        BY <2>1, LenProperties
<1> DEFINE N == Len(parts)
           States == Nat
           Op(acc, n) == acc + Len(parts[n])
           step == [x \in States \X (1..N) |-> Op(x[1], x[2])]
           Meets(f) == f = [n \in 0..N |-> IF n = 0 THEN 0 ELSE f[n - 1] + Len(parts[n])]
           read == CHOOSE f : Meets(f)
<1>1. N \in Nat /\ 0 \in States
    BY LenProperties
<1>2. \A acc \in States, n \in 1..N : Op(acc, n) \in States
    BY <1>0
<1>3. S!Chars(parts) = read[N]
    BY DEF S!Chars
<1>4. \A f : Meets(f) <=> f = [n \in 0..N |-> IF n = 0 THEN 0 ELSE Op(f[n - 1], n)]
    OBVIOUS
<1> HIDE DEF N, States, Op
<1>5. step \in [States \X (1..N) -> States]
    BY <1>2
<1> HIDE DEF step
<1>6. PICK f \in [0..N -> States] : Follows(f, N, 0, step)
    BY <1>1, <1>5, Recursion, Zenon
<1> USE DEF step
<1>7. f[0] = 0 /\ \A n \in 1..N : f[n] = step[<<f[n - 1], n>>]
    BY <1>6 DEF Follows
<1> HIDE DEF Meets
<1>8. Meets(f)
    <2>1. \A n \in 1..N : f[n] = Op(f[n - 1], n)
        <3> SUFFICES ASSUME NEW n \in 1..N PROVE f[n] = Op(f[n - 1], n)
            OBVIOUS
        <3>1. n \in 0..N /\ n # 0 /\ n - 1 \in 0..N
            BY <1>1
        <3>2. <<f[n - 1], n>> \in States \X (1..N)
            BY <3>1
        <3>3. f[n] = step[<<f[n - 1], n>>]
            BY <1>7, <3>1
        <3> QED
            BY <3>2, <3>3
    <2>2. f[0] = 0
        BY <1>1, <1>7
    <2>3. \A n \in 0..N : f[n] = IF n = 0 THEN 0 ELSE Op(f[n - 1], n)
        BY <1>1, <2>1, <2>2
    <2>4. f = [n \in 0..N |-> IF n = 0 THEN 0 ELSE Op(f[n - 1], n)]
        BY <2>3
    <2> QED
        BY <1>4, <2>4
<1>9. Meets(read)
    BY <1>8
<1> HIDE DEF read
<1>10. read[0] = 0 /\ \A n \in 1..N : read[n] = Op(read[n - 1], n)
    <2>1. read = [n \in 0..N |-> IF n = 0 THEN 0 ELSE Op(read[n - 1], n)]
        BY <1>4, <1>9
    <2>2. \A n \in 0..N : read[n] = IF n = 0 THEN 0 ELSE Op(read[n - 1], n)
        BY <2>1
    <2> QED
        BY <1>1, <2>2
<1>11. read \in [0..N -> States]
    <2> DEFINE typed == {n \in 0..N : read[n] \in States}
    <2>1. 0 \in typed
        BY <1>1, <1>10
    <2>2. ASSUME NEW n \in 0..N, n + 1 \in 0..N, n \in typed PROVE n + 1 \in typed
        <3>1. n + 1 \in 1..N /\ (n + 1) - 1 = n
            BY <2>2, <1>1
        <3>2. read[n + 1] = Op(read[n], n + 1)
            BY <1>10, <3>1
        <3> QED
            BY <1>2, <2>2, <3>1, <3>2
    <2> HIDE DEF typed
    <2>3. 0..N \subseteq typed
        BY <1>1, <2>1, <2>2, CountingUp
    <2>4. \A n \in 0..N : read[n] \in States
        BY <2>3 DEF typed
    <2>5. read = [n \in 0..N |-> read[n]]
        BY <1>4, <1>9
    <2> QED
        BY <2>4, <2>5

<1>12. CountsBy(parts, read)
    BY <1>10, <1>11 DEF CountsBy, N, States, Op
<1> QED
    BY <1>3, <1>12 DEF N

\* One line of data more.
LEMMA CharsNext ==
    ASSUME NEW Sym, NEW parts \in Seq(Seq(Sym)), NEW value \in Seq(Sym)
    PROVE  /\ S!Chars(parts) \in Nat /\ Len(value) \in Nat
           /\ S!Chars(Append(parts, value)) = S!Chars(parts) + Len(value)
<1> DEFINE N == Len(parts)
           more == Append(parts, value)
<1>1. /\ N \in Nat /\ Len(value) \in Nat /\ more \in Seq(Seq(Sym)) /\ Len(more) = N + 1
      /\ more[N + 1] = value /\ \A i \in 1..N : more[i] = parts[i]
    BY LenProperties, AppendProperties
<1> HIDE DEF more
<1>2. PICK f : CountsBy(parts, f) /\ S!Chars(parts) = f[N]
    BY CharsCounted
<1>3. PICK g : CountsBy(more, g) /\ S!Chars(more) = g[Len(more)]
    BY <1>1, CharsCounted
<1>4. f \in [0..N -> Nat] /\ f[0] = 0 /\ \A n \in 1..N : f[n] = f[n - 1] + Len(parts[n])
    BY <1>2 DEF CountsBy
<1>5. S!Chars(more) = g[N + 1] /\ g[0] = 0 /\ \A n \in 1..N + 1 : g[n] = g[n - 1] + Len(more[n])
    BY <1>1, <1>3 DEF CountsBy
<1> HIDE DEF N
<1> DEFINE same == {n \in 0..N : g[n] = f[n]}
<1>6. 0 \in same
    BY <1>1, <1>4, <1>5
<1>7. ASSUME NEW n \in 0..N, n + 1 \in 0..N, n \in same PROVE n + 1 \in same
    <2>1. n + 1 \in 1..N /\ n + 1 \in 1..N + 1 /\ (n + 1) - 1 = n /\ g[n] = f[n]
        BY <1>1, <1>7
    <2>2. f[n + 1] = f[n] + Len(parts[n + 1]) /\ g[n + 1] = g[n] + Len(more[n + 1])
        BY <1>4, <1>5, <2>1
    <2>3. more[n + 1] = parts[n + 1]
        BY <1>1, <2>1
    <2> QED
        BY <1>7, <2>1, <2>2, <2>3
<1> HIDE DEF same
<1>8. 0..N \subseteq same
    BY <1>1, <1>6, <1>7, CountingUp
<1>9. g[N] = f[N] /\ f[N] \in Nat
    <2>1. N \in 0..N
        BY <1>1
    <2> QED
        BY <1>4, <1>8, <2>1 DEF same
<1>10. g[N + 1] = g[N] + Len(value)
    <2>1. N + 1 \in 1..N + 1 /\ (N + 1) - 1 = N
        BY <1>1
    <2> QED
        BY <1>1, <1>5, <2>1
<1> QED
    BY <1>1, <1>2, <1>5, <1>9, <1>10 DEF more

LEMMA CharsOfNone == S!Chars(<<>>) = 0
<1> DEFINE none == <<>>
<1>1. none \in Seq(Seq({})) /\ Len(none) = 0
    OBVIOUS
<1> HIDE DEF none
<1>2. PICK f : CountsBy(none, f) /\ S!Chars(none) = f[Len(none)]
    BY <1>1, CharsCounted
<1>3. S!Chars(none) = 0
    BY <1>1, <1>2 DEF CountsBy
<1> QED
    BY <1>3 DEF none

-----------------------------------------------------------------------------
(* a block, line by line *)

NonBlank(Sym) == Seq(Sym) \ {<<>>}

LEMMA FieldsNext ==
    ASSUME NEW Sym, NEW block \in Seq(NonBlank(Sym)), NEW line \in NonBlank(Sym), NEW field
    PROVE  /\ Len(block) \in Nat
           /\ S!Fields(block, field) \in SUBSET (1..Len(block))
           /\ IsFiniteSet(S!Fields(block, field))
           /\ S!Fields(Append(block, line), field) =
                  IF Head(line) = field THEN S!Fields(block, field) \cup {Len(block) + 1}
                  ELSE S!Fields(block, field)
<1> DEFINE N == Len(block)
           more == Append(block, line)
<1>1. N \in Nat /\ DOMAIN block = 1..N
    BY LenProperties
<1>2. /\ DOMAIN more = 1..N + 1 /\ more[N + 1] = line
      /\ \A i \in 1..N : more[i] = block[i]
    <2>1. more \in Seq(NonBlank(Sym)) /\ Len(more) = N + 1
        BY AppendProperties
    <2> QED
        BY <2>1, LenProperties, AppendProperties
<1> HIDE DEF N, more
<1>3. S!Fields(block, field) \in SUBSET (1..N)
    BY <1>1 DEF S!Fields
<1>4. IsFiniteSet(S!Fields(block, field))
    <2>1. IsFiniteSet(1..N)
        BY <1>1, FS_Interval
    <2> QED
        BY <1>3, <2>1, FS_Subset
<1>5. \A i : i \in 1..N + 1 <=> i \in 1..N \/ i = N + 1
    BY <1>1
<1>6. N + 1 \notin 1..N
    BY <1>1
<1>7. S!Fields(more, field) = IF Head(line) = field THEN S!Fields(block, field) \cup {N + 1}
                            ELSE S!Fields(block, field)
    BY <1>1, <1>2, <1>5, <1>6 DEF S!Fields
<1> QED
    BY <1>1, <1>3, <1>4, <1>7 DEF N, more

LEMMA TypesNext ==
    ASSUME NEW Sym, NEW block \in Seq(NonBlank(Sym)), NEW line \in NonBlank(Sym)
    PROVE  S!TypesOf(Append(block, line)) =
               IF Head(line) = "event" THEN S!TypesOf(block) \cup {S!Last(line)} ELSE S!TypesOf(block)
<1> DEFINE N == Len(block)
           more == Append(block, line)
           fields == S!Fields(block, "event")
<1>1. /\ N \in Nat /\ fields \in SUBSET (1..N)
      /\ S!Fields(more, "event") = IF Head(line) = "event" THEN fields \cup {N + 1} ELSE fields
    BY FieldsNext
<1>2. more[N + 1] = line /\ \A i \in 1..N : more[i] = block[i]
    BY AppendProperties
<1> HIDE DEF N, more, fields
<1>3. \A i \in fields : more[i] = block[i]
    BY <1>1, <1>2
<1>4. S!TypesOf(block) = {S!Last(block[i]) : i \in fields}
    BY DEF S!TypesOf, fields
<1>5. CASE Head(line) = "event"
    <2>1. S!TypesOf(more) = {S!Last(more[i]) : i \in fields \cup {N + 1}}
        BY <1>1, <1>5 DEF S!TypesOf
    <2> QED
        BY <1>2, <1>3, <1>4, <1>5, <2>1 DEF more
<1>6. CASE Head(line) # "event"
    <2>1. S!TypesOf(more) = {S!Last(more[i]) : i \in fields}
        BY <1>1, <1>6 DEF S!TypesOf
    <2> QED
        BY <1>3, <1>4, <1>6, <2>1 DEF more
<1> QED
    BY <1>5, <1>6

ValuesIn(block) == [i \in DOMAIN block |-> Tail(block[i])]

LEMMA DataIsOver ==
    ASSUME NEW Sym, NEW block \in Seq(NonBlank(Sym))
    PROVE  /\ S!DataOf(block) = Over(ValuesIn(block), S!Fields(block, "data"))
           /\ S!DataOf(block) \in Seq(Seq(Sym))
           /\ \A i \in S!Fields(block, "data") : ValuesIn(block)[i] = Tail(block[i])
                                               /\ Tail(block[i]) \in Seq(Sym)
<1> DEFINE placed == S!Fields(block, "data")
<1>1. placed \in SUBSET (DOMAIN block) /\ DOMAIN block = 1..Len(block) /\ Len(block) \in Nat
    BY LenProperties DEF S!Fields
<1>2. placed \in SUBSET Nat /\ IsFiniteSet(placed)
    <2>1. IsFiniteSet(1..Len(block)) /\ 1..Len(block) \subseteq Nat
        BY <1>1, FS_Interval
    <2> QED
        BY <1>1, <2>1, FS_Subset
<1> HIDE DEF placed
<1>3. S!InOrder(placed) \in Seq(placed)
    BY <1>2, InOrderIs
<1>4. \A n \in DOMAIN S!InOrder(placed) : S!InOrder(placed)[n] \in DOMAIN block
    BY <1>1, <1>3, LenProperties, ElementOfSeq
<1>5. \A i \in DOMAIN block : ValuesIn(block)[i] = Tail(block[i])
    BY DEF ValuesIn
<1>6. S!DataOf(block) = Over(ValuesIn(block), placed)
    BY <1>4, <1>5 DEF S!DataOf, Over, placed
<1>7. \A i \in placed : Tail(block[i]) \in Seq(Sym)
    <2> SUFFICES ASSUME NEW i \in placed PROVE Tail(block[i]) \in Seq(Sym)
        OBVIOUS
    <2> DEFINE line == block[i]
    <2>1. line \in NonBlank(Sym)
        BY <1>1, ElementOfSeq
    <2> HIDE DEF line
    <2>2. Tail(line) \in Seq(Sym)
        BY <2>1, HeadTailProperties DEF NonBlank
    <2> QED
        BY <2>2 DEF line
<1>8. \A i \in placed : ValuesIn(block)[i] \in Seq(Sym)
    BY <1>1, <1>5, <1>7
<1>9. OneEach(ValuesIn(block), placed, Seq(Sym))
    BY <1>2, <1>8, OverTyped
<1>10. S!DataOf(block) \in Seq(Seq(Sym))
    BY <1>6, <1>9 DEF OneEach
<1> QED
    BY <1>1, <1>5, <1>6, <1>7, <1>10 DEF placed

LEMMA DataNext ==
    ASSUME NEW Sym, NEW block \in Seq(NonBlank(Sym)), NEW line \in NonBlank(Sym)
    PROVE  S!DataOf(Append(block, line)) =
               IF Head(line) = "data" THEN Append(S!DataOf(block), Tail(line)) ELSE S!DataOf(block)
<1> DEFINE N == Len(block)
           more == Append(block, line)
           placed == S!Fields(block, "data")
           Q == Seq(Sym)
           h == ValuesIn(more)
           g == ValuesIn(block)
<1>1. /\ N \in Nat /\ placed \in SUBSET (1..N) /\ IsFiniteSet(placed)
      /\ S!Fields(more, "data") = IF Head(line) = "data" THEN placed \cup {N + 1} ELSE placed
    BY FieldsNext
<1>2. more[N + 1] = line /\ (\A i \in 1..N : more[i] = block[i]) /\ more \in Seq(NonBlank(Sym))
      /\ DOMAIN more = 1..N + 1
    <2>1. more \in Seq(NonBlank(Sym)) /\ Len(more) = N + 1
        BY AppendProperties
    <2> QED
        BY <2>1, AppendProperties, LenProperties
<1>3. /\ S!DataOf(block) = Over(g, placed)
      /\ \A i \in placed : g[i] = Tail(block[i]) /\ Tail(block[i]) \in Q
    BY DataIsOver
<1>4. S!DataOf(more) = Over(h, S!Fields(more, "data"))
    BY <1>2, DataIsOver
<1>5. \A i \in 1..N + 1 : h[i] = Tail(more[i])
    BY <1>2 DEF ValuesIn
<1> HIDE DEF more, placed, h, g, N
<1>6. \A i \in placed : h[i] = g[i] /\ g[i] \in Q
    <2>1. \A i \in placed : i \in 1..N /\ i \in 1..N + 1
        BY <1>1
    <2> QED
        BY <1>2, <1>3, <1>5, <2>1
<1>7. h[N + 1] = Tail(line)
    <2>1. N + 1 \in 1..N + 1
        BY <1>1
    <2> QED
        BY <1>2, <1>5, <2>1
<1>8. Tail(line) \in Q
    BY HeadTailProperties DEF NonBlank
<1>9. placed \in SUBSET Nat /\ N + 1 \in Nat /\ \A i \in placed : i < N + 1
    BY <1>1
<1> HIDE DEF Q
<1>10. CASE Head(line) = "data"
    <2> DEFINE m == N + 1
    <2>1. m \in Nat /\ (\A i \in placed : i < m) /\ h[m] \in Q /\ S!DataOf(more) = Over(h, placed \cup {m})
        BY <1>1, <1>4, <1>7, <1>8, <1>9, <1>10
    <2> HIDE DEF m
    <2>2. Over(h, placed \cup {m}) = Append(Over(g, placed), h[m])
        <3>1. placed \in SUBSET Nat /\ IsFiniteSet(placed)
            BY <1>1, <1>9
        <3>2. \A i \in placed : i < m
            BY <2>1
        <3>3. OneMore(h, g, placed, m, Q)
            BY <1>6, <2>1, <3>1, <3>2 DEF OneMore
        <3>4. Grown(h, g, placed, m)
            BY <3>3, OverGrows
        <3> QED
            BY <3>4 DEF Grown
    <2> QED
        BY <1>3, <1>7, <1>10, <2>1, <2>2 DEF m, more
<1>11. CASE Head(line) # "data"
    <2>1. S!DataOf(more) = Over(h, placed)
        BY <1>1, <1>4, <1>11
    <2>2. Over(h, placed) = Over(g, placed)
        BY <1>1, <1>6, <1>9, OverSame
    <2> QED
        BY <1>3, <1>11, <2>1, <2>2 DEF more
<1> QED
    BY <1>10, <1>11

LEMMA MaxIs ==
    ASSUME NEW D \in SUBSET Nat, IsFiniteSet(D), D # {}
    PROVE  S!Max(D) \in D /\ \A y \in D : S!Max(D) >= y
<1> DEFINE N == Cardinality(D)
           x == S!InOrder(D)[N]
<1>1. /\ N \in Nat
      /\ \A n \in 1..N : S!InOrder(D)[n] \in D
      /\ \A i \in D : Cardinality(UpTo(D, i)) \in 1..N /\ S!InOrder(D)[Cardinality(UpTo(D, i))] = i
      /\ \A m, n \in 1..N : m < n => S!InOrder(D)[m] < S!InOrder(D)[n]
    BY InOrderIs
<1>2. N # 0
    BY FS_EmptySet
<1> HIDE DEF N
<1>3. N \in 1..N /\ x \in D /\ x \in Nat
    <2>1. N \in 1..N
        BY <1>1, <1>2
    <2>2. S!InOrder(D)[N] \in D
        BY <1>1, <2>1
    <2> QED
        BY <2>1, <2>2
<1>4. ASSUME NEW y \in D PROVE x >= y
    <2> DEFINE r == Cardinality(UpTo(D, y))
    <2>1. r \in 1..N /\ S!InOrder(D)[r] = y /\ y \in Nat
        BY <1>1
    <2> HIDE DEF r
    <2>2. CASE r = N
        BY <1>3, <2>1, <2>2
    <2>3. CASE r # N
        <3>1. r < N
            BY <1>1, <2>1, <2>3
        <3>2. S!InOrder(D)[r] < S!InOrder(D)[N]
            BY <1>1, <1>3, <2>1, <3>1
        <3> QED
            BY <1>3, <2>1, <3>2
    <2> QED
        BY <2>2, <2>3
<1> HIDE DEF x
<1>5. \E z \in D : \A y \in D : z >= y
    BY <1>3, <1>4
<1> QED
    BY <1>5 DEF S!Max

NamesIt(Sym, e, block) ==
    /\ e.type = IF S!Fields(block, "event") = {} THEN NULL ELSE S!Last(block[S!Max(S!Fields(block, "event"))])
    /\ S!Fields(block, "event") # {} => e.type # NULL
Says(e, block) == e.saw <=> \E field \in {"event", "data", "id"} : S!Fields(block, field) # {}
Fits(block) == S!Chars(S!DataOf(block)) <= MaxEventChars /\ S!TypesOf(block) \subseteq Interesting
Keeps(e, block) ==
    /\ e.drop <=> ~Fits(block)
    /\ e.parts = IF Fits(block) THEN S!DataOf(block) ELSE <<>>
    /\ Fits(block) => e.chars = S!Chars(S!DataOf(block))

\* The event being assembled is that of the lines so far.
Assembles(Sym, e, block) == NamesIt(Sym, e, block) /\ Says(e, block) /\ Keeps(e, block)

LEMMA AssemblesNone == ASSUME NEW Sym, MaxEventChars \in Nat PROVE Assembles(Sym, S!NoEvent, <<>>)
<1>1. \A field : S!Fields(<<>>, field) = {}
    BY DEF S!Fields
<1>2. S!DataOf(<<>>) = <<>>
    <2> DEFINE none == <<>>
    <2>1. none \in Seq(NonBlank(Sym))
        OBVIOUS
    <2> HIDE DEF none
    <2>2. S!DataOf(none) = Over(ValuesIn(none), S!Fields(none, "data"))
        BY <2>1, DataIsOver
    <2>3. S!Fields(none, "data") = {}
        BY <1>1 DEF none
    <2>4. S!DataOf(none) = <<>>
        BY <2>2, <2>3, OverNone
    <2> QED
        BY <2>4 DEF none
<1>3. Fits(<<>>)
    BY <1>1, <1>2, CharsOfNone DEF Fits, S!TypesOf
<1>4. NamesIt(Sym, S!NoEvent, <<>>) /\ Says(S!NoEvent, <<>>)
    BY <1>1 DEF NamesIt, Says, S!NoEvent
<1>5. Keeps(S!NoEvent, <<>>)
    BY <1>2, <1>3, CharsOfNone DEF Keeps, S!NoEvent
<1> QED
    BY <1>4, <1>5 DEF Assembles

LineEvent(e, line) ==
    CASE Head(line) = "event" -> S!EventField(e, S!Last(line))
      [] Head(line) = "data" -> S!DataField(e, Tail(line))
      [] Head(line) = "id" -> [e EXCEPT !.saw = TRUE]
      [] OTHER -> e

LEMMA NamesNext ==
    ASSUME NEW Sym, NULL \notin Sym, NEW e \in EventStates(Sym), NEW block \in Seq(NonBlank(Sym)),
           NEW line \in NonBlank(Sym), NamesIt(Sym, e, block)
    PROVE  NamesIt(Sym, LineEvent(e, line), Append(block, line))
<1> DEFINE N == Len(block)
           D == S!Fields(block, "event")
           more == Append(block, line)
           name == S!Last(line)
<1>1. /\ N \in Nat /\ D \in SUBSET (1..N) /\ IsFiniteSet(D)
      /\ S!Fields(more, "event") = IF Head(line) = "event" THEN D \cup {N + 1} ELSE D
    BY FieldsNext
<1>2. more[N + 1] = line /\ \A i \in 1..N : more[i] = block[i]
    BY AppendProperties
<1>3. name # NULL
    <2>1. Len(line) \in Nat \ {0}
        BY EmptySeq DEF NonBlank
    <2>2. line[Len(line)] \in Sym
        BY <2>1, ElementOfSeq DEF NonBlank
    <2> QED
        BY <2>2 DEF S!Last
<1>4. e.type = (IF D = {} THEN NULL ELSE S!Last(block[S!Max(D)])) /\ (D # {} => e.type # NULL)
    BY DEF NamesIt
<1> HIDE DEF N, D, more, name
<1>5. CASE Head(line) = "event"
    <2> DEFINE W == D \cup {N + 1}
    <2>1. W \in SUBSET Nat /\ IsFiniteSet(W) /\ W # {} /\ N + 1 \in W /\ \A i \in W : i <= N + 1
        BY <1>1, FS_AddElement
    <2>2. S!Fields(more, "event") = W
        BY <1>1, <1>5
    <2> HIDE DEF W
    <2>3. S!Max(W) = N + 1
        <3>1. S!Max(W) \in W /\ \A y \in W : S!Max(W) >= y
            BY <2>1, MaxIs
        <3>2. S!Max(W) \in Nat /\ S!Max(W) <= N + 1 /\ S!Max(W) >= N + 1
            BY <2>1, <3>1
        <3> QED
            BY <1>1, <3>2
    <2>4. LineEvent(e, line) = S!EventField(e, name)
        BY <1>5 DEF LineEvent, name
    <2>5. S!EventField(e, name).type = name
        BY DEF S!EventField, EventStates
    <2>6. S!Last(more[S!Max(W)]) = name
        BY <1>2, <2>3 DEF name
    <2> QED
        BY <1>3, <2>1, <2>2, <2>4, <2>5, <2>6 DEF NamesIt, more
<1>6. CASE Head(line) # "event"
    <2>1. S!Fields(more, "event") = D
        BY <1>1, <1>6
    <2>2. LineEvent(e, line).type = e.type
        <3>1. Head(line) = "data" => LineEvent(e, line) = S!DataField(e, Tail(line))
            BY DEF LineEvent
        <3>2. S!DataField(e, Tail(line)).type = e.type
            BY DEF S!DataField, EventStates
        <3>3. Head(line) = "id" => LineEvent(e, line) = [e EXCEPT !.saw = TRUE]
            BY DEF LineEvent
        <3>4. Head(line) \notin {"event", "data", "id"} => LineEvent(e, line) = e
            BY DEF LineEvent
        <3>5. [e EXCEPT !.saw = TRUE].type = e.type
            BY DEF EventStates
        <3> QED
            BY <1>6, <3>1, <3>2, <3>3, <3>4, <3>5
    <2>3. D # {} => more[S!Max(D)] = block[S!Max(D)]
        <3>1. D \in SUBSET Nat
            BY <1>1
        <3>2. D # {} => S!Max(D) \in D
            BY <1>1, <3>1, MaxIs
        <3> QED
            BY <1>1, <1>2, <3>2
    <2> QED
        BY <1>4, <2>1, <2>2, <2>3 DEF NamesIt, more
<1> QED
    BY <1>5, <1>6

LEMMA SaysNext ==
    ASSUME NEW Sym, NEW e \in EventStates(Sym), NEW block \in Seq(NonBlank(Sym)),
           NEW line \in NonBlank(Sym), Says(e, block)
    PROVE  Says(LineEvent(e, line), Append(block, line))
<1> DEFINE more == Append(block, line)
           new == LineEvent(e, line)
           N == Len(block)
<1>1. \A field : S!Fields(more, field) = IF Head(line) = field THEN S!Fields(block, field) \cup {N + 1}
                                       ELSE S!Fields(block, field)
    BY FieldsNext
<1> HIDE DEF more, N
<1>2. e.saw \in BOOLEAN
    BY DEF EventStates
<1>3. CASE Head(line) \in {"event", "data", "id"}
    <2>1. S!Fields(more, Head(line)) # {}
        BY <1>1
    <2>2. new.saw = TRUE
        <3>1. S!EventField(e, S!Last(line)).saw = TRUE
            BY DEF S!EventField, EventStates
        <3>2. S!DataField(e, Tail(line)).saw = TRUE
            BY DEF S!DataField, EventStates
        <3>3. [e EXCEPT !.saw = TRUE].saw = TRUE
            BY DEF EventStates
        <3> QED
            BY <1>3, <3>1, <3>2, <3>3 DEF LineEvent
    <2> QED
        BY <1>3, <2>1, <2>2 DEF Says, more
<1>4. CASE Head(line) \notin {"event", "data", "id"}
    <2>1. new = e
        BY <1>4 DEF LineEvent
    <2>2. \A field \in {"event", "data", "id"} : S!Fields(more, field) = S!Fields(block, field)
        BY <1>1, <1>4
    <2> HIDE DEF new
    <2> QED
        BY <2>1, <2>2 DEF Says, more, new
<1> QED
    BY <1>3, <1>4

LEMMA KeepsNext ==
    ASSUME NEW Sym, MaxEventChars \in Nat, NEW e \in EventStates(Sym), NEW block \in Seq(NonBlank(Sym)),
           NEW line \in NonBlank(Sym), Keeps(e, block)
    PROVE  Keeps(LineEvent(e, line), Append(block, line))
<1> DEFINE more == Append(block, line)
           data == S!DataOf(block)
           value == Tail(line)
           name == S!Last(line)
<1>1. value \in Seq(Sym)
    BY HeadTailProperties DEF NonBlank
<1>2. data \in Seq(Seq(Sym))
    BY DataIsOver
<1>3. S!DataOf(more) = IF Head(line) = "data" THEN Append(data, value) ELSE data
    BY DataNext
<1>4. S!TypesOf(more) = IF Head(line) = "event" THEN S!TypesOf(block) \cup {name} ELSE S!TypesOf(block)
    BY TypesNext
<1> HIDE DEF data, value
<1>5. /\ S!Chars(data) \in Nat /\ Len(value) \in Nat
      /\ S!Chars(Append(data, value)) = S!Chars(data) + Len(value)
    BY <1>1, <1>2, CharsNext
<1>6. /\ e.drop <=> ~Fits(block)
      /\ e.parts = IF Fits(block) THEN data ELSE <<>>
      /\ Fits(block) => e.chars = S!Chars(data)
    BY DEF Keeps, data
<1>7. Fits(block) <=> S!Chars(data) <= MaxEventChars /\ S!TypesOf(block) \subseteq Interesting
    BY DEF Fits, data
<1>8. Fits(more) <=> S!Chars(S!DataOf(more)) <= MaxEventChars /\ S!TypesOf(more) \subseteq Interesting
    BY DEF Fits
<1> DEFINE types == S!TypesOf(block)
           chars == S!Chars(data)
<1>9. e.drop \in BOOLEAN
    BY DEF EventStates
<1> HIDE DEF more, name, types, chars
<1>10. CASE Head(line) = "event"
    <2> DEFINE new == S!EventField(e, name)
    <2>1. LineEvent(e, line) = new
        BY <1>10 DEF LineEvent, name
    <2>2. S!DataOf(more) = data /\ S!TypesOf(more) = types \cup {name}
        BY <1>3, <1>4, <1>10 DEF types
    <2>3. Fits(more) <=> Fits(block) /\ name \in Interesting
        BY <1>7, <1>8, <2>2 DEF types
    <2>4. /\ new.drop = (e.drop \/ name \notin Interesting)
          /\ new.parts = IF name \in Interesting THEN e.parts ELSE <<>>
          /\ new.chars = e.chars
        BY DEF S!EventField, EventStates
    <2> HIDE DEF new
    <2>5. Keeps(new, more)
        BY <1>6, <1>9, <2>2, <2>3, <2>4 DEF Keeps
    <2> QED
        BY <2>1, <2>5 DEF more
<1>11. CASE Head(line) = "data"
    <2> DEFINE new == S!DataField(e, value)
    <2>1. LineEvent(e, line) = new
        BY <1>11 DEF LineEvent, value
    <2>2. S!DataOf(more) = Append(data, value) /\ S!TypesOf(more) = types
        BY <1>3, <1>4, <1>11 DEF types
    <2>3. Fits(more) <=> chars + Len(value) <= MaxEventChars /\ types \subseteq Interesting
        BY <1>5, <1>8, <2>2 DEF chars
    <2>4. Fits(more) => Fits(block)
        BY <1>5, <1>7, <2>3 DEF types, chars
    <2>5. CASE ~Fits(block)
        <3>1. new = [e EXCEPT !.saw = TRUE] /\ ~Fits(more)
            BY <1>6, <2>4, <2>5 DEF S!DataField
        <3>2. new.drop = e.drop /\ new.parts = e.parts
            BY <3>1 DEF EventStates
        <3> HIDE DEF new
        <3>3. Keeps(new, more)
            BY <1>6, <2>5, <3>1, <3>2 DEF Keeps
        <3> QED
            BY <2>1, <3>3 DEF more
    <2>6. CASE Fits(block)
        <3>1. ~e.drop /\ e.chars = chars /\ e.parts = data /\ types \subseteq Interesting
            BY <1>6, <1>7, <2>6 DEF types, chars
        <3>2. Fits(more) <=> ~(e.chars + Len(value) > MaxEventChars)
            BY <1>5, <2>3, <3>1 DEF chars
        <3>3. CASE Fits(more)
            <4>1. new = [e EXCEPT !.saw = TRUE, !.chars = @ + Len(value), !.parts = Append(@, value)]
                BY <3>1, <3>2, <3>3 DEF S!DataField
            <4>2. new.drop = e.drop /\ new.parts = Append(e.parts, value)
                  /\ new.chars = e.chars + Len(value)
                BY <4>1 DEF EventStates
            <4> HIDE DEF new
            <4>3. Keeps(new, more)
                BY <1>5, <2>2, <3>1, <3>3, <4>2 DEF Keeps, chars
            <4> QED
                BY <2>1, <4>3 DEF more
        <3>4. CASE ~Fits(more)
            <4>1. new = [e EXCEPT !.saw = TRUE, !.drop = TRUE, !.parts = <<>>]
                BY <3>1, <3>2, <3>4 DEF S!DataField
            <4>2. new.drop = TRUE /\ new.parts = <<>>
                BY <4>1 DEF EventStates
            <4> HIDE DEF new
            <4>3. Keeps(new, more)
                BY <3>4, <4>2 DEF Keeps
            <4> QED
                BY <2>1, <4>3 DEF more
        <3> QED
            BY <3>3, <3>4
    <2> QED
        BY <2>5, <2>6
<1>12. CASE Head(line) \notin {"event", "data"}
    <2>1. S!DataOf(more) = data /\ S!TypesOf(more) = types
        BY <1>3, <1>4, <1>12 DEF types
    <2>2. Fits(more) <=> Fits(block)
        BY <1>7, <1>8, <2>1 DEF types
    <2> DEFINE new == LineEvent(e, line)
    <2>3. new = e \/ new = [e EXCEPT !.saw = TRUE]
        BY <1>12 DEF LineEvent
    <2>4. new.drop = e.drop /\ new.parts = e.parts /\ new.chars = e.chars
        <3> HIDE DEF new
        <3> QED
            BY <2>3 DEF EventStates
    <2> HIDE DEF new
    <2>5. Keeps(new, more)
        BY <1>6, <2>1, <2>2, <2>4 DEF Keeps
    <2> QED
        BY <2>5 DEF more, new
<1> QED
    BY <1>10, <1>11, <1>12

LEMMA BlanksNext ==
    ASSUME NEW Sym, NEW lines \in Seq(Seq(Sym)), NEW line \in Seq(Sym)
    PROVE  /\ Len(lines) \in Nat /\ S!Blanks(lines) \in SUBSET (1..Len(lines)) /\ IsFiniteSet(S!Blanks(lines))
           /\ S!Blanks(Append(lines, line)) =
                  IF line = <<>> THEN S!Blanks(lines) \cup {Len(lines) + 1} ELSE S!Blanks(lines)
<1> DEFINE N == Len(lines)
           more == Append(lines, line)
<1>1. N \in Nat /\ DOMAIN lines = 1..N
    BY LenProperties
<1>2. /\ DOMAIN more = 1..N + 1 /\ more[N + 1] = line
      /\ \A i \in 1..N : more[i] = lines[i]
    <2>1. more \in Seq(Seq(Sym)) /\ Len(more) = N + 1
        BY AppendProperties
    <2> QED
        BY <2>1, LenProperties, AppendProperties
<1> HIDE DEF N, more
<1>3. S!Blanks(lines) \in SUBSET (1..N)
    BY <1>1 DEF S!Blanks
<1>4. IsFiniteSet(S!Blanks(lines))
    <2>1. IsFiniteSet(1..N)
        BY <1>1, FS_Interval
    <2> QED
        BY <1>3, <2>1, FS_Subset
<1>5. \A i : i \in 1..N + 1 <=> i \in 1..N \/ i = N + 1
    BY <1>1
<1>6. N + 1 \notin 1..N
    BY <1>1
<1>7. S!Blanks(more) = IF line = <<>> THEN S!Blanks(lines) \cup {N + 1} ELSE S!Blanks(lines)
    BY <1>1, <1>2, <1>5, <1>6 DEF S!Blanks
<1> QED
    BY <1>1, <1>3, <1>4, <1>7 DEF N, more

\* What comes later changes no block.
LEMMA BlocksStay ==
    ASSUME NEW Sym, NEW lines \in Seq(Seq(Sym)), NEW line \in Seq(Sym), NEW end \in 1..Len(lines) + 1
    PROVE  S!Block(Append(lines, line), end) = S!Block(lines, end)
<1> DEFINE N == Len(lines)
           more == Append(lines, line)
           D == S!Blanks(lines)
           U == S!Blanks(more)
           a == S!Before(D, end)
           b == S!Before(U, end)
<1>1. N \in Nat /\ D \in SUBSET (1..N) /\ U \in SUBSET (1..N + 1) /\ D \subseteq U /\ U \subseteq D \cup {N + 1}
    <2>1. U = IF line = <<>> THEN D \cup {N + 1} ELSE D
        BY BlanksNext
    <2>2. N \in Nat /\ D \in SUBSET (1..N)
        BY BlanksNext
    <2> HIDE DEF N, D, U
    <2> QED
        BY <2>1, <2>2
<1>2. more \in Seq(Seq(Sym)) /\ (\A i \in 1..N : more[i] = lines[i] /\ lines[i] \in Seq(Sym))
    BY AppendProperties, ElementOfSeq
<1>3. end \in Nat /\ end # 0 /\ end <= N + 1
    BY <1>1
<1> HIDE DEF N, more, D, U
<1>4. a \in {0} \cup D /\ a < end /\ (\A k \in D : k < end => k <= a) /\ a \in Nat
    BY <1>1, <1>3, BeforeIs
<1>5. b \in {0} \cup U /\ b < end /\ (\A k \in U : k < end => k <= b) /\ b \in Nat
    <2>1. N + 1 \in Nat
        BY <1>1
    <2> DEFINE O == N + 1
    <2>2. O \in Nat /\ U \in SUBSET (1..O)
        BY <1>1, <2>1
    <2> HIDE DEF O
    <2> QED
        BY <1>3, <2>2, BeforeIs
<1> HIDE DEF a, b
<1>6. a = b
    <2>1. b \in {0} \cup D
        BY <1>1, <1>3, <1>5
    <2>2. b <= a
        <3>1. CASE b = 0
            BY <1>4, <3>1
        <3>2. CASE b \in D
            BY <1>4, <1>5, <3>2
        <3> QED
            BY <2>1, <3>1, <3>2
    <2>3. a <= b
        BY <1>1, <1>4, <1>5
    <2> QED
        BY <1>4, <1>5, <2>2, <2>3
<1> DEFINE from == 1 + a
           to == end - 1
           s == SubSeq(more, from, to)
           t == SubSeq(lines, from, to)
<1>7. from \in Int /\ to \in Int /\ \A i \in from..to : i \in 1..N
    BY <1>1, <1>3, <1>4
<1>8. \A i \in from..to : more[i] = lines[i] /\ lines[i] \in Seq(Sym) /\ more[i] \in Seq(Sym)
    BY <1>2, <1>7
<1>9. \A i \in 1..(to - from + 1) : (from + i) - 1 \in from..to
    BY <1>7
<1> HIDE DEF from, to
<1>10. /\ s \in Seq(Seq(Sym)) /\ Len(s) = IF from <= to THEN to - from + 1 ELSE 0
       /\ \A i \in 1..to - from + 1 : s[i] = more[from + i - 1]
    BY <1>7, <1>8, SubSeqProperties
<1>11. /\ t \in Seq(Seq(Sym)) /\ Len(t) = IF from <= to THEN to - from + 1 ELSE 0
       /\ \A i \in 1..to - from + 1 : t[i] = lines[from + i - 1]
    BY <1>7, <1>8, SubSeqProperties
<1> HIDE DEF s, t
<1>12. \A i \in 1..Len(s) : s[i] = t[i]
    <2> SUFFICES ASSUME NEW i \in 1..Len(s) PROVE s[i] = t[i]
        OBVIOUS
    <2>1. i \in 1..to - from + 1 /\ i \in Nat
        BY <1>7, <1>10
    <2> DEFINE j == from + i - 1
    <2>2. s[i] = more[j] /\ t[i] = lines[j]
        BY <1>10, <1>11, <2>1
    <2>3. j \in from..to
        BY <1>7, <2>1
    <2> HIDE DEF j
    <2> QED
        BY <1>8, <2>2, <2>3
<1>13. s = t
    BY <1>10, <1>11, <1>12, SeqEqual
<1>14. S!Block(more, end) = s /\ S!Block(lines, end) = t
    BY <1>6 DEF S!Block, S!Piece, s, t, from, to, a, b, D, U
<1> QED
    BY <1>13, <1>14 DEF more

Open(lines) == S!Block(lines, Len(lines) + 1)

LEMMA OpenNext ==
    ASSUME NEW Sym, NEW lines \in Seq(Seq(Sym)), NEW line \in Seq(Sym)
    PROVE  Open(Append(lines, line)) = IF line = <<>> THEN <<>> ELSE Append(Open(lines), line)
<1> DEFINE N == Len(lines)
           more == Append(lines, line)
           U == S!Blanks(more)
           m == N + 1
<1>1. /\ N \in Nat /\ more \in Seq(Seq(Sym)) /\ Len(more) = m /\ more[m] = line
      /\ (\A i \in 1..N : more[i] = lines[i])
    BY AppendProperties, LenProperties
<1>2. U = (IF line = <<>> THEN S!Blanks(lines) \cup {m} ELSE S!Blanks(lines))
      /\ S!Blanks(lines) \in SUBSET (1..N)
    BY BlanksNext
<1>3. S!Block(more, m) = Open(lines)
    <2>1. m \in 1..Len(lines) + 1
        BY <1>1
    <2> QED
        BY <2>1, BlocksStay DEF Open
<1>4. Open(more) = S!Piece(more, U, m + 1) /\ S!Block(more, m) = S!Piece(more, U, m)
    BY <1>1 DEF Open, S!Block
<1> HIDE DEF N, more, U
<1>5. U \in SUBSET (1..m) /\ (m \in U <=> line = <<>>) /\ m \in Nat /\ m \in 1..m
    BY <1>1, <1>2
<1> HIDE DEF m
<1>6. S!Piece(more, U, m + 1) = IF m \in U THEN <<>> ELSE Append(S!Piece(more, U, m), more[m])
    <2>1. U \in SUBSET (1..Len(more)) /\ m \in 1..Len(more)
        BY <1>1, <1>5
    <2>2. \A n \in 1..Len(more) : S!Piece(more, U, n + 1) =
              IF n \in U THEN <<>> ELSE Append(S!Piece(more, U, n), more[n])
        <3>1. PiecesOf(Seq(Sym), more, U)
            BY <1>1, <2>1, PieceNext
        <3> QED
            BY <3>1 DEF PiecesOf
    <2> QED
        BY <2>1, <2>2
<1> QED
    BY <1>1, <1>3, <1>4, <1>5, <1>6 DEF more

SaidOf(block) == \E field \in {"event", "data", "id"} : S!Fields(block, field) # {}
Wanted(block) == SaidOf(block) /\ S!BlockEvent(block).type \in Interesting
MeantAt(lines) == [end \in S!Blanks(lines) |-> S!BlockEvent(S!Block(lines, end))]
KeptAt(lines) == {end \in S!Blanks(lines) : Wanted(S!Block(lines, end))}

LEMMA BlocksMeantIs ==
    ASSUME NEW Sym, NEW lines \in Seq(Seq(Sym))
    PROVE  /\ S!BlocksMeant(lines) = Over(MeantAt(lines), KeptAt(lines))
           /\ KeptAt(lines) \in SUBSET (1..Len(lines)) /\ IsFiniteSet(KeptAt(lines))
<1> DEFINE K == KeptAt(lines)
<1>1. <<>> \in Seq(Sym)
    OBVIOUS
<1>2. Len(lines) \in Nat /\ S!Blanks(lines) \in SUBSET (1..Len(lines)) /\ IsFiniteSet(S!Blanks(lines))
    BY <1>1, BlanksNext
<1>3. K \in SUBSET S!Blanks(lines)
    BY DEF KeptAt
<1>4. K \in SUBSET (1..Len(lines)) /\ IsFiniteSet(K)
    BY <1>2, <1>3, FS_Subset
<1>5. K = {end \in S!Blanks(lines) :
              /\ \E field \in {"event", "data", "id"} : S!Fields(S!Block(lines, end), field) # {}
              /\ S!BlockEvent(S!Block(lines, end)).type \in Interesting}
    BY DEF KeptAt, Wanted, SaidOf
<1>6. S!BlocksMeant(lines) = [i \in DOMAIN S!InOrder(K) |-> S!BlockEvent(S!Block(lines, S!InOrder(K)[i]))]
    BY <1>5 DEF S!BlocksMeant
<1> HIDE DEF K
<1>7. K \in SUBSET Nat
    BY <1>2, <1>4
<1>8. S!InOrder(K) \in Seq(K)
    BY <1>4, <1>7, InOrderIs
<1>9. \A i \in DOMAIN S!InOrder(K) : S!InOrder(K)[i] \in S!Blanks(lines)
    BY <1>3, <1>8, LenProperties, ElementOfSeq
<1>10. \A i \in DOMAIN S!InOrder(K) : MeantAt(lines)[S!InOrder(K)[i]] = S!BlockEvent(S!Block(lines, S!InOrder(K)[i]))
    BY <1>9 DEF MeantAt
<1>11. S!BlocksMeant(lines) = Over(MeantAt(lines), K)
    BY <1>6, <1>10 DEF Over
<1> QED
    BY <1>4, <1>11 DEF K

\* What the parser has made of some lines.
ParsedAs(Sym, p, lines) ==
    /\ Open(lines) \in Seq(NonBlank(Sym))
    /\ Assembles(Sym, p.event, Open(lines))
    /\ p.out = S!BlocksMeant(lines)
    /\ \A end \in KeptAt(lines) : S!BlockEvent(S!Block(lines, end)) \in Emitted(Sym)

LEMMA ParsedNone == ASSUME NEW Sym, MaxEventChars \in Nat PROVE ParsedAs(Sym, S!Blank, <<>>)
<1> DEFINE none == <<>>
<1>1. none \in Seq(Seq(Sym)) /\ Len(none) = 0
    OBVIOUS
<1>2. S!Blanks(none) = {}
    BY DEF S!Blanks
<1> HIDE DEF none
<1>3. KeptAt(none) = {}
    BY <1>2 DEF KeptAt
<1>4. S!BlocksMeant(none) = <<>>
    BY <1>1, <1>3, BlocksMeantIs, OverNone
<1>5. Open(none) = <<>>
    <2>1. S!Piece(none, {}, 1) = <<>>
        <3>1. {} \in SUBSET (1..Len(none))
            OBVIOUS
        <3>2. PiecesOf(Seq(Sym), none, {})
            BY <1>1, <3>1, PieceNext
        <3> QED
            BY <3>2 DEF PiecesOf
    <2>2. Open(none) = S!Piece(none, {}, 1)
        BY <1>1, <1>2 DEF Open, S!Block
    <2> QED
        BY <2>1, <2>2
<1>6. <<>> \in Seq(NonBlank(Sym)) /\ S!Blank.event = S!NoEvent /\ S!Blank.out = <<>>
    BY DEF S!Blank
<1>7. ParsedAs(Sym, S!Blank, none)
    BY <1>3, <1>4, <1>5, <1>6, AssemblesNone DEF ParsedAs
<1> QED
    BY <1>7 DEF none

\* A line that is not blank is one of the block it is in.
LEMMA LineParsed ==
    ASSUME NEW Sym, NULL \notin Sym, MaxEventChars \in Nat,
           NEW p \in Parsers(Sym), NEW lines \in Seq(Seq(Sym)), NEW line \in Seq(Sym), line # <<>>,
           ParsedAs(Sym, p, lines)
    PROVE  ParsedAs(Sym, S!HandleLine(p, line), Append(lines, line))
<1> DEFINE more == Append(lines, line)
           block == Open(lines)
           K == KeptAt(lines)
<1>1. more \in Seq(Seq(Sym)) /\ Len(lines) \in Nat /\ line \in NonBlank(Sym)
    BY AppendProperties, LenProperties DEF NonBlank
<1>2. S!Blanks(more) = S!Blanks(lines) /\ S!Blanks(lines) \in SUBSET (1..Len(lines))
    BY BlanksNext
<1>3. \A end \in S!Blanks(lines) : S!Block(more, end) = S!Block(lines, end)
    <2> SUFFICES ASSUME NEW end \in S!Blanks(lines) PROVE S!Block(more, end) = S!Block(lines, end)
        OBVIOUS
    <2>1. end \in 1..Len(lines) + 1
        BY <1>1, <1>2
    <2> QED
        BY <2>1, BlocksStay
<1>4. Open(more) = Append(block, line)
    BY OpenNext
<1> HIDE DEF more, block
<1>5. KeptAt(more) = K
    BY <1>2, <1>3 DEF KeptAt
<1>6. \A end \in K : MeantAt(more)[end] = MeantAt(lines)[end]
    BY <1>2, <1>3 DEF KeptAt, MeantAt
<1>7. S!BlocksMeant(more) = S!BlocksMeant(lines)
    <2>1. K \in SUBSET (1..Len(lines)) /\ IsFiniteSet(K) /\ S!BlocksMeant(lines) = Over(MeantAt(lines), K)
        BY BlocksMeantIs
    <2>2. S!BlocksMeant(more) = Over(MeantAt(more), K)
        BY <1>1, <1>5, BlocksMeantIs
    <2>3. K \in SUBSET Nat
        BY <1>1, <2>1
    <2> HIDE DEF K
    <2> DEFINE h == MeantAt(more)
               g == MeantAt(lines)
    <2>4. \A i \in K : h[i] = g[i]
        BY <1>6
    <2> HIDE DEF h, g
    <2>5. Over(h, K) = Over(g, K)
        BY <2>1, <2>3, <2>4, OverSame
    <2> QED
        BY <2>1, <2>2, <2>5 DEF h, g
<1>8. /\ block \in Seq(NonBlank(Sym)) /\ Assembles(Sym, p.event, block) /\ p.out = S!BlocksMeant(lines)
      /\ \A end \in K : S!BlockEvent(S!Block(lines, end)) \in Emitted(Sym)
    BY DEF ParsedAs, block
<1> DEFINE e == p.event
<1>9. e \in EventStates(Sym)
    BY DEF Parsers
<1>10. S!HandleLine(p, line) = [p EXCEPT !.event = LineEvent(e, line)]
    BY DEF S!HandleLine, LineEvent, Parsers
<1>11. S!HandleLine(p, line).event = LineEvent(e, line) /\ S!HandleLine(p, line).out = p.out
    BY <1>10 DEF Parsers
<1> HIDE DEF e
<1>12. Append(block, line) \in Seq(NonBlank(Sym))
    BY <1>1, <1>8, AppendProperties
<1>13. Assembles(Sym, LineEvent(e, line), Append(block, line))
    <2>1. NamesIt(Sym, e, block) /\ Says(e, block) /\ Keeps(e, block)
        BY <1>8 DEF Assembles, e
    <2>2. NamesIt(Sym, LineEvent(e, line), Append(block, line))
        BY <1>1, <1>8, <1>9, <2>1, NamesNext
    <2>3. Says(LineEvent(e, line), Append(block, line))
        BY <1>1, <1>8, <1>9, <2>1, SaysNext
    <2>4. Keeps(LineEvent(e, line), Append(block, line))
        BY <1>1, <1>8, <1>9, <2>1, KeepsNext
    <2> QED
        BY <2>2, <2>3, <2>4 DEF Assembles
<1>14. \A end \in K : S!BlockEvent(S!Block(more, end)) \in Emitted(Sym)
    BY <1>3, <1>8 DEF KeptAt
<1>15. ParsedAs(Sym, S!HandleLine(p, line), more)
    BY <1>4, <1>5, <1>7, <1>8, <1>11, <1>12, <1>13, <1>14 DEF ParsedAs
<1> QED
    BY <1>15 DEF more

\* A blank line ends the block, and the event that is dispatched is the block's.
LEMMA BlankParsed ==
    ASSUME NEW Sym, NULL \notin Sym, MaxEventChars \in Nat,
           NEW p \in Parsers(Sym), NEW lines \in Seq(Seq(Sym)), ParsedAs(Sym, p, lines)
    PROVE  ParsedAs(Sym, S!Dispatch(p), Append(lines, <<>>))
<1> DEFINE none == <<>>
           more == Append(lines, none)
           block == Open(lines)
           K == KeptAt(lines)
           m == Len(lines) + 1
           said == S!BlockEvent(block)
<1>0. none \in Seq(Sym) /\ none = <<>>
    OBVIOUS
<1> HIDE DEF none
<1>1. more \in Seq(Seq(Sym)) /\ Len(lines) \in Nat /\ m \in Nat
    BY <1>0, AppendProperties, LenProperties
<1>2. S!Blanks(more) = S!Blanks(lines) \cup {m} /\ S!Blanks(lines) \in SUBSET (1..Len(lines))
    BY <1>0, BlanksNext
<1>3. (\A end \in S!Blanks(lines) : S!Block(more, end) = S!Block(lines, end)) /\ S!Block(more, m) = block
    <2>1. \A end \in 1..Len(lines) + 1 : S!Block(more, end) = S!Block(lines, end)
        BY <1>0, BlocksStay
    <2>2. m \in 1..Len(lines) + 1 /\ \A end \in S!Blanks(lines) : end \in 1..Len(lines) + 1
        BY <1>1, <1>2
    <2> QED
        BY <2>1, <2>2 DEF Open
<1>4. Open(more) = <<>>
    BY <1>0, OpenNext
<1>5. /\ block \in Seq(NonBlank(Sym)) /\ Assembles(Sym, p.event, block) /\ p.out = S!BlocksMeant(lines)
      /\ \A end \in K : S!BlockEvent(S!Block(lines, end)) \in Emitted(Sym)
    BY DEF ParsedAs
<1>6. /\ K \in SUBSET (1..Len(lines)) /\ IsFiniteSet(K) /\ S!BlocksMeant(lines) = Over(MeantAt(lines), K)
      /\ S!BlocksMeant(more) = Over(MeantAt(more), KeptAt(more))
    BY <1>1, BlocksMeantIs
<1>7. K \in SUBSET Nat /\ \A i \in K : i < m
    BY <1>1, <1>6
<1> HIDE DEF more, block, m
<1>8. m \notin S!Blanks(lines)
    BY <1>1, <1>2 DEF m
<1>9. KeptAt(more) = IF Wanted(block) THEN K \cup {m} ELSE K
    BY <1>2, <1>3, <1>8 DEF KeptAt
<1>10. /\ \A end \in K : MeantAt(more)[end] = MeantAt(lines)[end]
                         /\ MeantAt(lines)[end] = S!BlockEvent(S!Block(lines, end))
       /\ MeantAt(more)[m] = said
    BY <1>2, <1>3 DEF KeptAt, MeantAt
<1> DEFINE e == p.event
           type == IF e.type = NULL THEN "message" ELSE e.type
           events == S!Fields(block, "event")
<1>11. e \in EventStates(Sym) /\ p.out \in Seq(Emitted(Sym))
    BY DEF Parsers
<1>12. S!Dispatch(p) = [p EXCEPT !.event = S!NoEvent,
                               !.out = IF e.saw /\ type \in Interesting
                                       THEN Append(p.out, [type |-> type, data |-> e.parts]) ELSE p.out]
    BY DEF S!Dispatch, Parsers
<1>13. NamesIt(Sym, e, block) /\ Says(e, block) /\ Keeps(e, block)
    BY <1>5 DEF Assembles
<1> HIDE DEF e
<1>14. said.type = type
    BY <1>13 DEF S!BlockEvent, NamesIt
<1>15. said = [type |-> type, data |-> e.parts]
    <2>1. e.parts = IF Fits(block) THEN S!DataOf(block) ELSE <<>>
        BY <1>13 DEF Keeps
    <2>2. said = [type |-> said.type, data |-> e.parts]
        BY <2>1 DEF S!BlockEvent, Fits
    <2> HIDE DEF said
    <2> QED
        BY <1>14, <2>2
<1>16. e.saw /\ type \in Interesting <=> Wanted(block)
    <2>1. e.saw <=> SaidOf(block)
        BY <1>13 DEF Says, SaidOf
    <2> HIDE DEF type
    <2> QED
        BY <1>14, <2>1 DEF Wanted
<1>17. said \in Emitted(Sym)
    <2>1. type \in Sym \cup {"message"} /\ e.parts \in Seq(Seq(Sym))
        BY <1>11 DEF EventStates
    <2> HIDE DEF said, type
    <2> QED
        BY <1>15, <2>1 DEF Emitted
<1> HIDE DEF said, type, K
<1>18. /\ S!Dispatch(p).event = S!NoEvent
       /\ S!Dispatch(p).out = IF Wanted(block) THEN Append(p.out, said) ELSE p.out
    BY <1>12, <1>15, <1>16 DEF Parsers
<1>19. S!BlocksMeant(more) = IF Wanted(block) THEN Append(p.out, said) ELSE p.out
    <2> DEFINE h == MeantAt(more)
               g == MeantAt(lines)
               Q == Emitted(Sym)
    <2>1. (\A i \in K : h[i] = g[i] /\ g[i] \in Q) /\ h[m] = said /\ said \in Q
        BY <1>5, <1>10, <1>17
    <2>2. p.out = Over(g, K) /\ S!BlocksMeant(more) = Over(h, KeptAt(more))
        BY <1>5, <1>6
    <2> HIDE DEF h, g, Q
    <2>3. CASE Wanted(block)
        <3>1. OneMore(h, g, K, m, Q)
            BY <1>1, <1>6, <1>7, <2>1 DEF OneMore
        <3>2. Over(h, K \cup {m}) = Append(Over(g, K), h[m])
            <4>1. Grown(h, g, K, m)
                BY <3>1, OverGrows
            <4> QED
                BY <4>1 DEF Grown
        <3> QED
            BY <1>9, <2>1, <2>2, <2>3, <3>2
    <2>4. CASE ~Wanted(block)
        <3>1. Over(h, K) = Over(g, K)
            BY <1>6, <1>7, <2>1, OverSame
        <3> QED
            BY <1>9, <2>2, <2>4, <3>1
    <2> QED
        BY <2>3, <2>4
<1>20. \A end \in KeptAt(more) : S!BlockEvent(S!Block(more, end)) \in Emitted(Sym)
    <2>1. K \subseteq S!Blanks(lines)
        BY DEF K, KeptAt
    <2> QED
        BY <1>3, <1>5, <1>9, <1>17, <2>1 DEF said
<1>21. <<>> \in Seq(NonBlank(Sym)) /\ Assembles(Sym, S!NoEvent, <<>>)
    BY AssemblesNone
<1>22. ParsedAs(Sym, S!Dispatch(p), more)
    BY <1>4, <1>18, <1>19, <1>20, <1>21 DEF ParsedAs
<1> QED
    BY <1>0, <1>22 DEF more

LEMMA AnyLineParsed ==
    ASSUME NEW Sym, NULL \notin Sym, MaxEventChars \in Nat,
           NEW p \in Parsers(Sym), NEW lines \in Seq(Seq(Sym)), NEW line \in Seq(Sym),
           ParsedAs(Sym, p, lines)
    PROVE  ParsedAs(Sym, S!HandleLine(p, line), Append(lines, line))
<1>1. CASE line = <<>>
    <2>1. S!HandleLine(p, line) = S!Dispatch(p)
        BY <1>1 DEF S!HandleLine
    <2>2. ParsedAs(Sym, S!Dispatch(p), Append(lines, <<>>))
        BY BlankParsed
    <2> QED
        BY <1>1, <2>1, <2>2
<1>2. CASE line # <<>>
    BY <1>2, LineParsed
<1> QED
    BY <1>1, <1>2

Trimmed(text) == [k \in S!Ends(text) |-> S!WithoutCr(S!Line(text, k))]
EndsTo(text, n) == {k \in S!Ends(text) : k <= n}

\* The lines of a text, as far as it has been read.
LEMMA TextParsed ==
    ASSUME NEW Sym, NULL \notin Sym, MaxEventChars \in Nat, NEW text \in Seq(Sym)
    PROVE  /\ Over(Trimmed(text), S!Ends(text)) \in Seq(Seq(Sym))
           /\ S!Consume(S!Blank, text) \in Parsers(Sym)
           /\ S!Consume(S!Blank, text).pending = S!Line(text, Len(text) + 1)
           /\ ParsedAs(Sym, S!Consume(S!Blank, text), Over(Trimmed(text), S!Ends(text)))
<1> DEFINE N == Len(text)
           h == Trimmed(text)
           L(n) == Over(h, EndsTo(text, n))
           Q == Seq(Sym)
<1>1. /\ N \in Nat /\ S!Ends(text) \in SUBSET (1..N)
      /\ \A n \in 1..N : text[n] \in Sym /\ (n \in S!Ends(text) <=> text[n] = "lf")
    BY LenProperties, ElementOfSeq DEF S!Ends
<1>2. /\ S!Line(text, 1) = <<>>
      /\ \A n \in 1..N + 1 : S!Line(text, n) \in Seq(Sym)
      /\ \A n \in 1..N : S!Line(text, n + 1) =
             IF n \in S!Ends(text) THEN <<>> ELSE Append(S!Line(text, n), text[n])
    BY <1>1, PieceNext DEF S!Line, PiecesOf, N
<1>3. PICK f : ReadsBy(Sym, S!Blank, text, f) /\ f[N] = S!Consume(S!Blank, text)
    <2>1. Reads(Sym, S!Blank, text, S!Consume(S!Blank, text))
        BY BlankTyped, ConsumeReads
    <2> QED
        BY <2>1 DEF Reads
<1>4. /\ f \in [0..N -> Parsers(Sym)] /\ f[0] = S!Blank
      /\ \A n \in 1..N : f[n] = Char(f[n - 1], text[n])
    BY <1>3 DEF ReadsBy
<1> HIDE DEF N
<1>5. \A n \in 0..N : EndsTo(text, n) \in SUBSET Nat /\ IsFiniteSet(EndsTo(text, n))
    <2> SUFFICES ASSUME NEW n \in 0..N
                 PROVE  EndsTo(text, n) \in SUBSET Nat /\ IsFiniteSet(EndsTo(text, n))
        OBVIOUS
    <2>1. EndsTo(text, n) \in SUBSET (1..N)
        BY <1>1 DEF EndsTo
    <2>2. IsFiniteSet(1..N) /\ 1..N \subseteq Nat
        BY <1>1, FS_Interval
    <2> QED
        BY <2>1, <2>2, FS_Subset
<1>6. \A k \in S!Ends(text) : h[k] = S!WithoutCr(S!Line(text, k)) /\ h[k] \in Q
    <2> SUFFICES ASSUME NEW k \in S!Ends(text)
                 PROVE  h[k] = S!WithoutCr(S!Line(text, k)) /\ h[k] \in Q
        OBVIOUS
    <2>1. k \in 1..N /\ k \in 1..N + 1
        BY <1>1
    <2>2. S!Line(text, k) \in Seq(Sym)
        BY <1>2, <2>1
    <2>3. S!WithoutCr(S!Line(text, k)) \in Seq(Sym)
        BY <2>2, WithoutCrTyped
    <2> QED
        BY <2>3 DEF Trimmed
<1>7. \A n \in 0..N : L(n) \in Seq(Q)
    <2> SUFFICES ASSUME NEW n \in 0..N PROVE L(n) \in Seq(Q)
        OBVIOUS
    <2> DEFINE D == EndsTo(text, n)
    <2>1. D \in SUBSET Nat /\ IsFiniteSet(D) /\ \A k \in D : h[k] \in Q
        BY <1>5, <1>6 DEF EndsTo
    <2> HIDE DEF D, h, Q
    <2>2. OneEach(h, D, Q)
        BY <2>1, OverTyped
    <2> QED
        BY <2>2 DEF OneEach, D
<1> HIDE DEF h
<1> DEFINE Good(n) == f[n].pending = S!Line(text, n + 1) /\ ParsedAs(Sym, f[n], L(n))
           good == {n \in 0..N : Good(n)}
<1>8. 0 \in good
    <2>1. EndsTo(text, 0) = {}
        BY <1>1 DEF EndsTo
    <2>2. L(0) = <<>>
        BY <2>1, OverNone
    <2>3. S!Blank.pending = <<>> /\ ParsedAs(Sym, S!Blank, <<>>)
        BY ParsedNone DEF S!Blank
    <2>4. 0 \in 0..N /\ 0 + 1 = 1
        BY <1>1
    <2> HIDE DEF L
    <2> QED
        BY <1>2, <1>4, <2>2, <2>3, <2>4
<1>9. ASSUME NEW n \in 0..N, n + 1 \in 0..N, n \in good PROVE n + 1 \in good
    <2> DEFINE m == n + 1
               p == f[n]
               line == S!Line(text, m)
    <2>1. m \in 1..N /\ m - 1 = n /\ m \in Nat /\ n \in Nat /\ m \in 1..N + 1
        BY <1>1, <1>9
    <2>2. p \in Parsers(Sym) /\ p.pending = line /\ ParsedAs(Sym, p, L(n))
        BY <1>4, <1>9
    <2>3. f[m] = Char(p, text[m]) /\ f[m] \in Parsers(Sym)
        BY <1>4, <2>1
    <2>4. line \in Seq(Sym) /\ L(n) \in Seq(Seq(Sym))
        BY <1>2, <1>7, <2>1
    <2>5. S!Line(text, m + 1) = IF m \in S!Ends(text) THEN <<>> ELSE Append(line, text[m])
        BY <1>2, <2>1
    <2>6. EndsTo(text, m) = IF m \in S!Ends(text) THEN EndsTo(text, n) \cup {m} ELSE EndsTo(text, n)
        <3>1. \A k \in S!Ends(text) : k <= m <=> k <= n \/ k = m
            BY <1>1, <2>1
        <3>2. m <= m
            BY <2>1
        <3> HIDE DEF m
        <3> QED
            BY <3>1, <3>2 DEF EndsTo
    <2> HIDE DEF m, p, line
    <2>7. CASE m \in S!Ends(text)
        <3> DEFINE D == EndsTo(text, n)
                   done == L(n)
                   next == S!WithoutCr(line)
                   q == S!HandleLine(p, next)
        <3>1. text[m] = "lf"
            BY <1>1, <2>1, <2>7
        <3>2. next \in Seq(Sym)
            BY <2>4, WithoutCrTyped
        <3>3. h[m] = next /\ next \in Q
            BY <1>6, <2>7, <3>2 DEF line
        <3>4. D \in SUBSET Nat /\ IsFiniteSet(D) /\ (\A k \in D : k < m) /\ \A k \in D : h[k] \in Q
            <4>1. D \in SUBSET Nat /\ IsFiniteSet(D)
                BY <1>5
            <4>2. \A k \in D : k \in S!Ends(text) /\ k <= n
                BY DEF EndsTo
            <4>3. \A k \in D : k < m
                <5> HIDE DEF D
                <5> QED
                    BY <2>1, <4>1, <4>2 DEF m
            <4>4. \A k \in D : h[k] \in Q
                BY <1>6, <4>2
            <4> QED
                BY <4>1, <4>3, <4>4
        <3>5. L(m) = Append(done, next)
            <4> HIDE DEF D, next, Q
            <4>1. OneMore(h, h, D, m, Q)
                BY <2>1, <3>3, <3>4 DEF OneMore
            <4>2. Grown(h, h, D, m)
                BY <4>1, OverGrows
            <4>3. EndsTo(text, m) = D \cup {m}
                BY <2>6, <2>7 DEF D
            <4> QED
                BY <3>3, <4>2, <4>3 DEF Grown, D
        <3>6. f[m] = [q EXCEPT !.pending = <<>>]
            BY <2>2, <2>3, <3>1 DEF Char
        <3> HIDE DEF next, done
        <3>7. q \in Parsers(Sym)
            BY <2>2, <3>2, HandleTyped
        <3>8. ParsedAs(Sym, q, Append(done, next))
            BY <2>2, <2>4, <3>2, AnyLineParsed DEF done
        <3> HIDE DEF q
        <3>9. f[m].pending = <<>> /\ f[m].event = q.event /\ f[m].out = q.out
            BY <3>6, <3>7 DEF Parsers
        <3>10. ParsedAs(Sym, f[m], L(m))
            BY <3>5, <3>8, <3>9 DEF ParsedAs
        <3>11. f[m].pending = S!Line(text, m + 1)
            BY <2>5, <2>7, <3>9
        <3> HIDE DEF L
        <3>12. Good(m)
            BY <3>10, <3>11
        <3> QED
            BY <1>9, <3>12 DEF m
    <2>8. CASE m \notin S!Ends(text)
        <3>1. text[m] # "lf"
            BY <1>1, <2>1, <2>8
        <3>2. f[m] = [p EXCEPT !.pending = Append(@, text[m])]
            BY <2>3, <3>1 DEF Char
        <3>3. f[m].pending = Append(line, text[m]) /\ f[m].event = p.event /\ f[m].out = p.out
            BY <2>2, <3>2 DEF Parsers
        <3>4. L(m) = L(n)
            BY <2>6, <2>8
        <3> HIDE DEF L
        <3>5. ParsedAs(Sym, f[m], L(m))
            BY <2>2, <3>3, <3>4 DEF ParsedAs
        <3>6. f[m].pending = S!Line(text, m + 1)
            BY <2>5, <2>8, <3>3
        <3>7. Good(m)
            BY <3>5, <3>6
        <3> QED
            BY <1>9, <3>7 DEF m
    <2> QED
        BY <2>7, <2>8
<1> HIDE DEF good
<1>10. 0..N \subseteq good
    BY <1>1, <1>8, <1>9, CountingUp
<1>11. N \in 0..N
    BY <1>1
<1>12. f[N].pending = S!Line(text, N + 1) /\ ParsedAs(Sym, f[N], L(N))
    <2> HIDE DEF L
    <2> QED
        BY <1>10, <1>11 DEF good
<1>13. EndsTo(text, N) = S!Ends(text)
    BY <1>1 DEF EndsTo
<1>14. L(N) = Over(h, S!Ends(text)) /\ L(N) \in Seq(Q)
    BY <1>7, <1>11, <1>13
<1>15. f[N] \in Parsers(Sym)
    BY <1>4, <1>11
<1> HIDE DEF L
<1> QED
    BY <1>3, <1>12, <1>14, <1>15 DEF h, N

\* The events of a text are those of its blocks.
LEMMA EndedParsed ==
    ASSUME NEW Sym, NULL \notin Sym, MaxEventChars \in Nat, NEW text \in Seq(Sym)
    PROVE  Ended(S!Consume(S!Blank, text)).out = S!BlocksMeant(Append(S!Lines(text), <<>>))
<1> DEFINE done == Over(Trimmed(text), S!Ends(text))
           rest == S!Line(text, Len(text) + 1)
           q == S!Consume(S!Blank, text)
<1>1. done \in Seq(Seq(Sym)) /\ q \in Parsers(Sym) /\ q.pending = rest /\ ParsedAs(Sym, q, done)
    BY TextParsed
<1>2. S!Lines(text) = done \o (IF rest = <<>> THEN <<>> ELSE <<rest>>)
    <2> DEFINE s == S!InOrder(S!Ends(text))
    <2>1. S!Ends(text) \in SUBSET (1..Len(text)) /\ Len(text) \in Nat
        BY LenProperties DEF S!Ends
    <2>2. S!Ends(text) \in SUBSET Nat /\ IsFiniteSet(S!Ends(text))
        <3>1. IsFiniteSet(1..Len(text)) /\ 1..Len(text) \subseteq Nat
            BY <2>1, FS_Interval
        <3> QED
            BY <2>1, <3>1, FS_Subset
    <2>3. s \in Seq(S!Ends(text))
        BY <2>2, InOrderIs
    <2>4. \A i \in DOMAIN s : s[i] \in S!Ends(text)
        BY <2>3, LenProperties, ElementOfSeq
    <2> HIDE DEF s
    <2>5. \A i \in DOMAIN s : Trimmed(text)[s[i]] = S!WithoutCr(S!Line(text, s[i]))
        BY <2>4 DEF Trimmed
    <2>6. [i \in DOMAIN s |-> S!WithoutCr(S!Line(text, s[i]))] = [i \in DOMAIN s |-> Trimmed(text)[s[i]]]
        BY <2>5
    <2> QED
        BY <2>6, Zenon DEF S!Lines, Over, s
<1> HIDE DEF done, rest, q
<1>3. rest \in Seq(Sym)
    BY <1>1 DEF Parsers
<1> DEFINE r == IF rest = <<>> THEN q ELSE [S!HandleLine(q, rest) EXCEPT !.pending = <<>>]
<1>4. Ended(q) = S!Dispatch(r)
    BY <1>1 DEF Ended
<1>5. S!Lines(text) \in Seq(Seq(Sym)) /\ r \in Parsers(Sym) /\ ParsedAs(Sym, r, S!Lines(text))
    <2>1. CASE rest = <<>>
        <3>1. S!Lines(text) = done
            BY <1>1, <1>2, <2>1, ConcatEmptySeq
        <3> QED
            BY <1>1, <2>1, <3>1
    <2>2. CASE rest # <<>>
        <3> DEFINE u == S!HandleLine(q, rest)
        <3>1. S!Lines(text) = Append(done, rest) /\ Append(done, rest) \in Seq(Seq(Sym))
            BY <1>1, <1>2, <1>3, <2>2, AppendIsConcat, AppendProperties
        <3>2. ParsedAs(Sym, u, Append(done, rest))
            BY <1>1, <1>3, AnyLineParsed
        <3>3. u \in Parsers(Sym)
            BY <1>1, <1>3, HandleTyped
        <3>4. r = [u EXCEPT !.pending = <<>>]
            BY <2>2
        <3> HIDE DEF u, r
        <3>5. r.event = u.event /\ r.out = u.out /\ r \in Parsers(Sym)
            <4>1. <<>> \in Seq(Sym)
                OBVIOUS
            <4> QED
                BY <3>3, <3>4, <4>1 DEF Parsers
        <3>6. ParsedAs(Sym, r, Append(done, rest))
            BY <3>2, <3>5 DEF ParsedAs
        <3> QED
            BY <3>1, <3>5, <3>6
    <2> QED
        BY <2>1, <2>2
<1> HIDE DEF r
<1>6. ParsedAs(Sym, S!Dispatch(r), Append(S!Lines(text), <<>>))
    BY <1>5, BlankParsed
<1> QED
    BY <1>4, <1>6 DEF ParsedAs, q

\* The events are those of the stream, whatever its bytes and however it was cut.
THEOREM CutsAreInvisible ==
    ASSUME NEW Sym, {"c", "?"} \subseteq Sym, NULL \notin Sym, MaxEventChars \in Nat,
           NEW bytes \in Seq(Sym), NEW cuts \in SUBSET (0..Len(bytes))
    PROVE  S!CutAnywhere(bytes, cuts)
<1> DEFINE L == Len(bytes)
           ends == S!InOrder(cuts \cup {L})
           text == WholeText(bytes)
<1>1. L \in Nat
    BY LenProperties
<1>2. /\ ends \in Seq(0..L) /\ Len(ends) # 0 /\ ends[Len(ends)] = L
      /\ \A i, k \in 1..Len(ends) : i < k => ends[i] < ends[k]
    <2> DEFINE D == cuts \cup {L}
    <2>1. D \in SUBSET (0..L) /\ L \in D
        <3>1. cuts \in SUBSET (0..L)
            OBVIOUS
        <3> HIDE DEF L
        <3> QED
            BY <1>1, <3>1
    <2> HIDE DEF D, L
    <2> QED
        BY <1>1, <2>1, CutsInOrder DEF D
<1> HIDE DEF ends
<1>3. S!EventsOf([i \in DOMAIN ends |->
                   SubSeq(bytes, 1 + (IF i = 1 THEN 0 ELSE ends[i - 1]), ends[i])]) =
          S!Flush(S!Push(S!Blank, bytes)).out
    BY <1>2, CutsDisappear
<1>4. text \in Seq(Sym) /\ S!Flush(S!Push(S!Blank, bytes)) = Ended(S!Consume(S!Blank, text))
    BY FlushReads
<1>5. S!EventsMeant(bytes) = S!BlocksMeant(Append(S!Lines(text), <<>>))
    BY DEF S!EventsMeant, WholeText
<1> HIDE DEF text
<1>6. Ended(S!Consume(S!Blank, text)).out = S!BlocksMeant(Append(S!Lines(text), <<>>))
    BY <1>4, EndedParsed
<1>7. S!CutAnywhere(bytes, cuts) <=>
          S!EventsOf([i \in DOMAIN ends |->
                       SubSeq(bytes, 1 + (IF i = 1 THEN 0 ELSE ends[i - 1]), ends[i])]) =
              S!EventsMeant(bytes)
    BY Zenon DEF S!CutAnywhere, ends, L
<1> QED
    BY <1>3, <1>4, <1>5, <1>6, <1>7

-----------------------------------------------------------------------------
(* the request of a substitute: the walk *)

\* Where a walk may be.
Stands == [str : BOOLEAN, esc : BOOLEAN, depth : Int]

LEMMA DeeperTyped == \A ch : A!Deeper(ch) \in Int
<1> SUFFICES ASSUME NEW ch PROVE A!Deeper(ch) \in Int
    OBVIOUS
<1>1. CASE ch \in {"lbrace", "lbracket"}
    <2>1. A!Deeper(ch) = 1
        BY <1>1 DEF A!Deeper
    <2> QED
        BY <2>1
<1>2. CASE ch \in {"rbrace", "rbracket"}
    <2>1. A!Deeper(ch) = -1
        BY <1>2 DEF A!Deeper
    <2> QED
        BY <2>1
<1>3. CASE ch \notin {"lbrace", "lbracket", "rbrace", "rbracket"}
    <2>1. A!Deeper(ch) = 0
        BY <1>3 DEF A!Deeper
    <2> QED
        BY <2>1
<1> QED
    BY <1>1, <1>2, <1>3

LEMMA StepOutside ==
    ASSUME NEW s \in Stands, ~s.str, NEW ch
    PROVE  A!Step(s, ch) = [str |-> (ch = "q"), esc |-> s.esc, depth |-> s.depth + A!Deeper(ch)]
<1>1. A!Step(s, ch) = [s EXCEPT !.str = (ch = "q"), !.depth = @ + A!Deeper(ch)]
    BY DEF A!Step
<1>2. s = [str |-> s.str, esc |-> s.esc, depth |-> s.depth]
    BY DEF Stands
<1> QED
    BY <1>1, <1>2

LEMMA StepTyped == ASSUME NEW s \in Stands, NEW ch PROVE A!Step(s, ch) \in Stands
<1>1. CASE s.str
    BY <1>1 DEF A!Step, Stands
<1>2. CASE ~s.str
    <2>1. s.depth + A!Deeper(ch) \in Int /\ s.esc \in BOOLEAN /\ (ch = "q") \in BOOLEAN
        BY DeeperTyped DEF Stands
    <2>2. A!Step(s, ch) = [str |-> (ch = "q"), esc |-> s.esc, depth |-> s.depth + A!Deeper(ch)]
        BY <1>2, StepOutside
    <2> QED
        BY <2>1, <2>2 DEF Stands
<1> QED
    BY <1>1, <1>2

\* A walk from deeper down.
Sunk(s, d) == [str |-> s.str, esc |-> s.esc, depth |-> s.depth + d]

LEMMA SunkTyped == ASSUME NEW s \in Stands, NEW d \in Int PROVE Sunk(s, d) \in Stands
BY DEF Sunk, Stands

LEMMA StepSunk ==
    ASSUME NEW s \in Stands, NEW d \in Int, NEW ch
    PROVE  A!Step(Sunk(s, d), ch) = Sunk(A!Step(s, ch), d)
<1>1. s.depth \in Int /\ Sunk(s, d).str = s.str /\ Sunk(s, d).esc = s.esc /\ Sunk(s, d).depth = s.depth + d
    BY DEF Sunk, Stands
<1>2. CASE s.str
    BY <1>1, <1>2 DEF A!Step, Sunk, Stands
<1>3. CASE ~s.str
    <2>1. A!Step(s, ch) = [str |-> (ch = "q"), esc |-> s.esc, depth |-> s.depth + A!Deeper(ch)]
        BY <1>3, StepOutside
    <2>2. A!Step(Sunk(s, d), ch)
              = [str |-> (ch = "q"), esc |-> Sunk(s, d).esc, depth |-> Sunk(s, d).depth + A!Deeper(ch)]
        BY <1>1, <1>3, SunkTyped, StepOutside
    <2>3. A!Deeper(ch) \in Int /\ (s.depth + d) + A!Deeper(ch) = (s.depth + A!Deeper(ch)) + d
        BY <1>1, DeeperTyped
    <2> QED
        BY <1>1, <2>1, <2>2, <2>3 DEF Sunk
<1> QED
    BY <1>2, <1>3

Walked(text, at) ==
    /\ at[1] = A!Outside
    /\ \A n \in 1..Len(text) : at[n + 1] = A!Step(at[n], text[n])
    /\ \A n \in 1..Len(text) + 1 : at[n] \in Stands

LEMMA WalkIs == ASSUME NEW Sym, NEW text \in Seq(Sym) PROVE Walked(text, A!Walk(text))
<1>0. A!Outside \in Stands /\ <<A!Outside>> \in Seq(Stands) /\ <<A!Outside>> # <<>>
    BY DEF A!Outside, Stands
<1> DEFINE N == Len(text)
           States == {w \in Seq(Stands) : w # <<>>}
           Op(acc, n) == Append(acc, A!Step(A!Last(acc), text[n]))
           step == [x \in States \X (1..N) |-> Op(x[1], x[2])]
           Meets(f) == f = [n \in 0..N |-> IF n = 0 THEN <<A!Outside>> ELSE Append(f[n - 1], A!Step(A!Last(f[n - 1]), text[n]))]
           read == CHOOSE f : Meets(f)
<1>1. N \in Nat /\ <<A!Outside>> \in States
    BY <1>0, LenProperties
<1>2. \A acc \in States, n \in 1..N : Op(acc, n) \in States
    <2> SUFFICES ASSUME NEW acc \in Seq(Stands), acc # <<>>, NEW n \in 1..N
                 PROVE  Append(acc, A!Step(A!Last(acc), text[n])) \in Seq(Stands)
                        /\ Append(acc, A!Step(A!Last(acc), text[n])) # <<>>
        OBVIOUS
    <2>1. A!Last(acc) \in Stands
        BY DEF A!Last
    <2>2. A!Step(A!Last(acc), text[n]) \in Stands
        BY <2>1, StepTyped
    <2> QED
        BY <2>2, AppendProperties
<1>3. A!Walk(text) = read[N]
    BY DEF A!Walk
<1>4. \A f : Meets(f) <=> f = [n \in 0..N |-> IF n = 0 THEN <<A!Outside>> ELSE Op(f[n - 1], n)]
    OBVIOUS
<1> HIDE DEF N, States, Op
<1>5. step \in [States \X (1..N) -> States]
    BY <1>2
<1> HIDE DEF step
<1>6. PICK f \in [0..N -> States] : Follows(f, N, <<A!Outside>>, step)
    BY <1>1, <1>5, Recursion, Zenon
<1> USE DEF step
<1>7. f[0] = <<A!Outside>> /\ \A n \in 1..N : f[n] = step[<<f[n - 1], n>>]
    BY <1>6 DEF Follows
<1> HIDE DEF Meets
<1>8. Meets(f)
    <2>1. \A n \in 1..N : f[n] = Op(f[n - 1], n)
        <3> SUFFICES ASSUME NEW n \in 1..N PROVE f[n] = Op(f[n - 1], n)
            OBVIOUS
        <3>1. n \in 0..N /\ n # 0 /\ n - 1 \in 0..N
            BY <1>1
        <3>2. <<f[n - 1], n>> \in States \X (1..N)
            BY <3>1
        <3>3. f[n] = step[<<f[n - 1], n>>]
            BY <1>7, <3>1
        <3> QED
            BY <3>2, <3>3
    <2>2. f[0] = <<A!Outside>>
        BY <1>1, <1>7
    <2>3. \A n \in 0..N : f[n] = IF n = 0 THEN <<A!Outside>> ELSE Op(f[n - 1], n)
        BY <1>1, <2>1, <2>2
    <2>4. f = [n \in 0..N |-> IF n = 0 THEN <<A!Outside>> ELSE Op(f[n - 1], n)]
        BY <2>3
    <2> QED
        BY <1>4, <2>4
<1>9. Meets(read)
    BY <1>8
<1> HIDE DEF read
<1>10. read[0] = <<A!Outside>> /\ \A n \in 1..N : read[n] = Op(read[n - 1], n)
    <2>1. read = [n \in 0..N |-> IF n = 0 THEN <<A!Outside>> ELSE Op(read[n - 1], n)]
        BY <1>4, <1>9
    <2>2. \A n \in 0..N : read[n] = IF n = 0 THEN <<A!Outside>> ELSE Op(read[n - 1], n)
        BY <2>1
    <2> QED
        BY <1>1, <2>2
<1>11. read \in [0..N -> States]
    <2> DEFINE typed == {n \in 0..N : read[n] \in States}
    <2>1. 0 \in typed
        BY <1>1, <1>10
    <2>2. ASSUME NEW n \in 0..N, n + 1 \in 0..N, n \in typed PROVE n + 1 \in typed
        <3>1. n + 1 \in 1..N /\ (n + 1) - 1 = n
            BY <2>2, <1>1
        <3>2. read[n + 1] = Op(read[n], n + 1)
            BY <1>10, <3>1
        <3> QED
            BY <1>2, <2>2, <3>1, <3>2
    <2> HIDE DEF typed
    <2>3. 0..N \subseteq typed
        BY <1>1, <2>1, <2>2, CountingUp
    <2>4. \A n \in 0..N : read[n] \in States
        BY <2>3 DEF typed
    <2>5. read = [n \in 0..N |-> read[n]]
        BY <1>4, <1>9
    <2> QED
        BY <2>4, <2>5

<1>12. \A n \in 0..N : read[n] \in Seq(Stands) /\ read[n] # <<>>
    BY <1>11 DEF States
<1>13. \A n \in 1..N : read[n] = Append(read[n - 1], A!Step(A!Last(read[n - 1]), text[n]))
    BY <1>10 DEF Op
<1> HIDE DEF Op
<1> DEFINE good == {n \in 0..N : /\ Len(read[n]) = n + 1 /\ read[n][1] = A!Outside
                                 /\ \A k \in 1..n : read[n][k + 1] = A!Step(read[n][k], text[k])}
<1>14. 0 \in good
    BY <1>1, <1>10
<1>15. ASSUME NEW n \in 0..N, n + 1 \in 0..N, n \in good PROVE n + 1 \in good
    <2> DEFINE w == read[n]
               e == A!Step(A!Last(w), text[n + 1])
    <2>1. n \in Nat /\ n + 1 \in 1..N /\ (n + 1) - 1 = n
        BY <1>1, <1>15
    <2>2. w \in Seq(Stands) /\ w # <<>> /\ Len(w) = n + 1 /\ w[1] = A!Outside
          /\ \A k \in 1..n : w[k + 1] = A!Step(w[k], text[k])
        BY <1>12, <1>15
    <2>3. read[n + 1] = Append(w, e)
        BY <1>13, <2>1
    <2>4. A!Last(w) = w[n + 1]
        BY <2>2 DEF A!Last
    <2> HIDE DEF w
    <2>5. A!Last(w) \in Stands
        BY <2>1, <2>2, <2>4
    <2>6. e \in Stands
        BY <2>5, StepTyped
    <2>7. e = A!Step(w[n + 1], text[n + 1])
        BY <2>4
    <2> HIDE DEF e
    <2>8. /\ Len(Append(w, e)) = n + 2 /\ Append(w, e)[n + 2] = e
          /\ \A k \in 1..n + 1 : Append(w, e)[k] = w[k]
        BY <2>1, <2>2, <2>6, AppendProperties
    <2>9. \A k \in 1..n + 1 : Append(w, e)[k + 1] = A!Step(Append(w, e)[k], text[k])
        <3> SUFFICES ASSUME NEW k \in 1..n + 1
                     PROVE  Append(w, e)[k + 1] = A!Step(Append(w, e)[k], text[k])
            OBVIOUS
        <3>1. CASE k = n + 1
            <4>1. k + 1 = n + 2
                BY <2>1, <3>1
            <4> QED
                BY <2>7, <2>8, <3>1, <4>1
        <3>2. CASE k # n + 1
            <4>1. k \in 1..n /\ k + 1 \in 1..n + 1
                BY <2>1, <3>2
            <4> QED
                BY <2>2, <2>8, <4>1
        <3> QED
            BY <3>1, <3>2
    <2>10. Append(w, e)[1] = A!Outside /\ n + 2 = (n + 1) + 1
        BY <2>1, <2>2, <2>8
    <2> QED
        BY <1>15, <2>3, <2>8, <2>9, <2>10
<1> HIDE DEF good
<1>16. 0..N \subseteq good
    BY <1>1, <1>14, <1>15, CountingUp
<1>17. N \in 0..N
    BY <1>1
<1>18. /\ Len(read[N]) = N + 1 /\ read[N][1] = A!Outside
       /\ \A k \in 1..N : read[N][k + 1] = A!Step(read[N][k], text[k])
    BY <1>16, <1>17 DEF good
<1>19. \A n \in 1..N + 1 : read[N][n] \in Stands
    BY <1>12, <1>17, <1>18
<1> QED
    BY <1>3, <1>18, <1>19 DEF Walked, N

\* A walk goes the same way wherever a text stands in another.
Within(text, at, part, pt, o, d) ==
    /\ Walked(text, at) /\ Walked(part, pt) /\ Len(text) \in Nat /\ Len(part) \in Nat
    /\ o \in Nat /\ d \in Int /\ o + Len(part) <= Len(text)
    /\ \A k \in 1..Len(part) : text[o + k] = part[k]
    /\ at[o + 1] = Sunk(pt[1], d)

LEMMA WalkFollows ==
    ASSUME NEW text, NEW at, NEW part, NEW pt, NEW o, NEW d, Within(text, at, part, pt, o, d)
    PROVE  \A k \in 0..Len(part) : at[o + k + 1] = Sunk(pt[k + 1], d)
<1> DEFINE N == Len(part)
<1>0. /\ Walked(text, at) /\ Walked(part, pt) /\ Len(text) \in Nat /\ N \in Nat /\ Len(part) = N
      /\ o \in Nat /\ d \in Int /\ o + N <= Len(text)
      /\ \A k \in 1..N : text[o + k] = part[k]
      /\ at[o + 1] = Sunk(pt[1], d)
    BY DEF Within
<1> HIDE DEF N
<1> USE <1>0
<1> DEFINE good == {k \in 0..N : at[o + k + 1] = Sunk(pt[k + 1], d)}
<1>1. 0 \in good
    OBVIOUS
<1>2. ASSUME NEW k \in 0..N, k + 1 \in 0..N, k \in good PROVE k + 1 \in good
    <2>1. /\ k \in Nat /\ k + 1 \in 1..N /\ k + 1 \in 1..N + 1 /\ o + (k + 1) \in 1..Len(text)
          /\ o + k + 1 = o + (k + 1) /\ o + (k + 1) + 1 = (o + (k + 1)) + 1
        BY <1>2
    <2>2. at[o + (k + 1)] = Sunk(pt[k + 1], d)
        BY <1>2, <2>1
    <2>3. at[(o + (k + 1)) + 1] = A!Step(at[o + (k + 1)], text[o + (k + 1)])
        BY <2>1 DEF Walked
    <2>4. pt[(k + 1) + 1] = A!Step(pt[k + 1], part[k + 1]) /\ pt[k + 1] \in Stands
        BY <2>1 DEF Walked
    <2>5. text[o + (k + 1)] = part[k + 1]
        BY <2>1
    <2>6. A!Step(Sunk(pt[k + 1], d), part[k + 1]) = Sunk(A!Step(pt[k + 1], part[k + 1]), d)
        BY <2>4, StepSunk
    <2> QED
        BY <1>2, <2>1, <2>2, <2>3, <2>4, <2>5, <2>6
<1> HIDE DEF good
<1>3. 0..N \subseteq good
    BY <1>1, <1>2, CountingUp
<1> QED
    BY <1>3 DEF good, N

-----------------------------------------------------------------------------
(* a member *)

Joins(Of, a, b, c) ==
    /\ c \in Seq(Of) /\ Len(c) = Len(a) + Len(b) /\ Len(a) \in Nat /\ Len(b) \in Nat
    /\ \A k \in 1..Len(a) : c[k] = a[k]
    /\ \A k \in 1..Len(b) : c[Len(a) + k] = b[k]

LEMMA JoinIs == ASSUME NEW Of, NEW a \in Seq(Of), NEW b \in Seq(Of) PROVE Joins(Of, a, b, a \o b)
<1>1. Len(a) \in Nat /\ Len(b) \in Nat
    BY LenProperties
<1>2. /\ a \o b \in Seq(Of) /\ Len(a \o b) = Len(a) + Len(b)
      /\ \A i \in 1..Len(a) + Len(b) : (a \o b)[i] = IF i <= Len(a) THEN a[i] ELSE b[i - Len(a)]
    BY ConcatProperties
<1> DEFINE x == Len(a)
           y == Len(b)
           c == a \o b
<1>3. \A k \in 1..x : k \in 1..x + y /\ k <= x
    BY <1>1
<1>4. \A k \in 1..y : x + k \in 1..x + y /\ ~(x + k <= x) /\ (x + k) - x = k
    BY <1>1
<1> HIDE DEF x, y, c
<1>5. \A i \in 1..x + y : c[i] = IF i <= x THEN a[i] ELSE b[i - x]
    BY <1>2 DEF x, y, c
<1>6. \A k \in 1..x : c[k] = a[k]
    BY <1>3, <1>5
<1>7. \A k \in 1..y : c[x + k] = b[k]
    <2> SUFFICES ASSUME NEW k \in 1..y PROVE c[x + k] = b[k]
        OBVIOUS
    <2>1. x + k \in 1..x + y /\ ~(x + k <= x) /\ (x + k) - x = k
        BY <1>4
    <2>2. c[x + k] = IF x + k <= x THEN a[x + k] ELSE b[(x + k) - x]
        BY <1>5, <2>1
    <2> QED
        BY <2>1, <2>2
<1> QED
    BY <1>1, <1>2, <1>6, <1>7 DEF Joins, x, y, c

\* A value is whole: it begins with what it is, and whatever follows in it is
\* inside of something.
Whole(Sym, value) ==
    /\ value \in Seq(Sym) /\ Len(value) # 0 /\ value[1] # "sp"
    /\ A!Walk(value)[Len(value) + 1] = A!Outside
    /\ \A k \in 2..Len(value) : A!Walk(value)[k].depth >= 0 /\ (A!Walk(value)[k].str \/ A!Walk(value)[k].depth >= 1)

Member(Sym, m) ==
    m.key \in Sym \ {"q", "bs"} /\ m.gap \in Seq({"sp"}) /\ Whole(Sym, m.value)

\* How a member is written.
Spelled(Sym, m, w) ==
    /\ w \in Seq(Sym) /\ Len(m.gap) \in Nat /\ Len(m.value) \in Nat
    /\ Len(w) = 4 + Len(m.gap) + Len(m.gap) + Len(m.value)
    /\ w[1] = "q" /\ w[2] = m.key /\ w[3] = "q" /\ w[4 + Len(m.gap)] = "colon"
    /\ \A k \in 1..Len(m.gap) : w[3 + k] = "sp" /\ w[4 + Len(m.gap) + k] = "sp"
    /\ \A k \in 1..Len(m.value) : w[4 + Len(m.gap) + Len(m.gap) + k] = m.value[k]

LEMMA WrittenIs ==
    ASSUME NEW Sym, {"q", "colon", "sp"} \subseteq Sym, NEW m, Member(Sym, m)
    PROVE  Spelled(Sym, m, A!Written(m))
<1> DEFINE t == A!Text(m.key)
           c == <<"colon">>
           a == t \o m.gap
           b == a \o c
           d == b \o m.gap
           e == d \o m.value
           g == Len(m.gap)
           v == Len(m.value)
<1>1. t \in Seq(Sym) /\ Len(t) = 3 /\ t[1] = "q" /\ t[2] = m.key /\ t[3] = "q"
    BY DEF Member, A!Text
<1>2. c \in Seq(Sym) /\ Len(c) = 1 /\ c[1] = "colon"
    OBVIOUS
<1>3. m.gap \in Seq(Sym) /\ m.value \in Seq(Sym)
    BY SeqMonotonic DEF Member, Whole
<1>4. \A k \in 1..g : m.gap[k] = "sp"
    BY ElementOfSeq DEF Member
<1>5. A!Written(m) = e
    BY DEF A!Written
<1>6. g \in Nat /\ v \in Nat
    BY <1>3, LenProperties
<1> HIDE DEF t, c, g, v
<1>7. Joins(Sym, t, m.gap, a)
    BY <1>1, <1>3, JoinIs
<1> HIDE DEF a
<1> a \in Seq(Sym)
    BY <1>7 DEF Joins
<1>8. Joins(Sym, a, c, b)
    BY <1>2, JoinIs
<1> HIDE DEF b
<1> b \in Seq(Sym)
    BY <1>8 DEF Joins
<1>9. Joins(Sym, b, m.gap, d)
    BY <1>3, JoinIs
<1> HIDE DEF d
<1> d \in Seq(Sym)
    BY <1>9 DEF Joins
<1>10. Joins(Sym, d, m.value, e)
    BY <1>3, JoinIs
<1> HIDE DEF e
<1>11. Len(a) = 3 + g /\ Len(b) = 4 + g /\ Len(d) = 4 + g + g /\ Len(e) = 4 + g + g + v
    <2>1. Len(a) = 3 + g
        BY <1>1, <1>7 DEF Joins, g
    <2>2. Len(b) = 4 + g
        BY <1>2, <1>6, <1>8, <2>1 DEF Joins
    <2>3. Len(d) = 4 + g + g
        BY <1>9, <2>2 DEF Joins, g
    <2>4. Len(e) = 4 + g + g + v
        BY <1>10, <2>3 DEF Joins, v
    <2> QED
        BY <2>1, <2>2, <2>3, <2>4
<1>12. /\ \A k \in 1..3 : a[k] = t[k]
       /\ \A k \in 1..g : a[3 + k] = m.gap[k]
       /\ \A k \in 1..3 + g : b[k] = a[k]
       /\ b[(3 + g) + 1] = c[1]
       /\ \A k \in 1..4 + g : d[k] = b[k]
       /\ \A k \in 1..g : d[4 + g + k] = m.gap[k]
       /\ \A k \in 1..4 + g + g : e[k] = d[k]
       /\ \A k \in 1..v : e[4 + g + g + k] = m.value[k]
    <2>1. (\A k \in 1..3 : a[k] = t[k]) /\ \A k \in 1..g : a[3 + k] = m.gap[k]
        BY <1>1, <1>7 DEF Joins, g
    <2>2. (\A k \in 1..3 + g : b[k] = a[k]) /\ b[(3 + g) + 1] = c[1]
        BY <1>2, <1>8, <1>11 DEF Joins
    <2>3. (\A k \in 1..4 + g : d[k] = b[k]) /\ \A k \in 1..g : d[4 + g + k] = m.gap[k]
        BY <1>9, <1>11 DEF Joins, g
    <2>4. (\A k \in 1..4 + g + g : e[k] = d[k]) /\ \A k \in 1..v : e[4 + g + g + k] = m.value[k]
        BY <1>10, <1>11 DEF Joins, v
    <2> QED
        BY <2>1, <2>2, <2>3, <2>4
<1>13. \A k \in 1..3 : k \in 1..3 + g /\ k \in 1..4 + g /\ k \in 1..4 + g + g
    BY <1>6
<1>14. e[1] = "q" /\ e[2] = m.key /\ e[3] = "q"
    BY <1>1, <1>12, <1>13
<1>15. ASSUME NEW k \in 1..g PROVE e[3 + k] = "sp" /\ e[4 + g + k] = "sp"
    <2>1. /\ 3 + k \in 1..3 + g /\ 3 + k \in 1..4 + g /\ 3 + k \in 1..4 + g + g
          /\ 4 + g + k \in 1..4 + g + g
        BY <1>6
    <2> QED
        BY <1>4, <1>12, <2>1
<1>16. e[4 + g] = "colon"
    <2>1. 4 + g \in 1..4 + g /\ 4 + g \in 1..4 + g + g /\ (3 + g) + 1 = 4 + g
        BY <1>6
    <2> QED
        BY <1>2, <1>12, <2>1
<1>17. e \in Seq(Sym)
    BY <1>10 DEF Joins
<1> QED
    BY <1>5, <1>6, <1>11, <1>12, <1>14, <1>15, <1>16, <1>17 DEF Spelled, g, v

InText == [str |-> TRUE, esc |-> FALSE, depth |-> 0]

LEMMA StepsOutside ==
    /\ A!Step(A!Outside, "q") = InText /\ A!Step(InText, "q") = A!Outside
    /\ \A ch : ch \notin {"q", "bs"} => A!Step(InText, ch) = InText
    /\ A!Step(A!Outside, "sp") = A!Outside /\ A!Step(A!Outside, "colon") = A!Outside /\ A!Step(A!Outside, "comma") = A!Outside
    /\ A!Step(A!Outside, "lbrace") = Sunk(A!Outside, 1)
    /\ A!Outside \in Stands /\ ~A!Outside.str /\ A!Outside.depth = 0
<1>1. A!Outside \in Stands /\ ~A!Outside.str /\ A!Outside.depth = 0 /\ A!Outside.esc = FALSE
    BY DEF Stands, A!Outside
<1>2. A!Deeper("q") = 0 /\ A!Deeper("sp") = 0 /\ A!Deeper("colon") = 0 /\ A!Deeper("comma") = 0 /\ A!Deeper("lbrace") = 1
    BY DEF A!Deeper
<1>3. \A ch : A!Step(A!Outside, ch) = [str |-> (ch = "q"), esc |-> FALSE, depth |-> 0 + A!Deeper(ch)]
    BY <1>1, StepOutside
<1>4. A!Step(A!Outside, "q") = InText
    <2>1. A!Step(A!Outside, "q") = [str |-> ("q" = "q"), esc |-> FALSE, depth |-> 0 + A!Deeper("q")]
        BY <1>3
    <2>2. ("q" = "q") = TRUE /\ 0 + A!Deeper("q") = 0
        BY <1>2
    <2> QED
        BY <2>1, <2>2 DEF InText
<1>5. ASSUME NEW ch, ch # "q", A!Deeper(ch) \in Int
      PROVE  A!Step(A!Outside, ch) = [str |-> FALSE, esc |-> FALSE, depth |-> A!Deeper(ch)]
    <2>1. A!Step(A!Outside, ch) = [str |-> (ch = "q"), esc |-> FALSE, depth |-> 0 + A!Deeper(ch)]
        BY <1>3
    <2>2. 0 + A!Deeper(ch) = A!Deeper(ch) /\ (ch = "q") = FALSE
        BY <1>5
    <2> QED
        BY <2>1, <2>2
<1>6. A!Step(A!Outside, "sp") = A!Outside /\ A!Step(A!Outside, "colon") = A!Outside /\ A!Step(A!Outside, "comma") = A!Outside
    <2>1. ASSUME NEW ch, ch # "q", A!Deeper(ch) = 0 PROVE A!Step(A!Outside, ch) = A!Outside
        BY <1>5, <2>1 DEF A!Outside
    <2>2. "sp" # "q" /\ "colon" # "q" /\ "comma" # "q"
        OBVIOUS
    <2> QED
        BY <1>2, <2>1, <2>2
<1>9. A!Step(A!Outside, "lbrace") = Sunk(A!Outside, 1)
    <2>3. "lbrace" # "q" /\ A!Deeper("lbrace") \in Int
        BY <1>2
    <2>1. A!Step(A!Outside, "lbrace") = [str |-> FALSE, esc |-> FALSE, depth |-> A!Deeper("lbrace")]
        BY <1>5, <2>3
    <2>2. Sunk(A!Outside, 1) = [str |-> FALSE, esc |-> FALSE, depth |-> 1]
        BY DEF Sunk, A!Outside
    <2> QED
        BY <1>2, <2>1, <2>2
<1>7. A!Step(InText, "q") = A!Outside
    BY DEF InText, A!Outside, A!Step
<1>8. \A ch : ch \notin {"q", "bs"} => A!Step(InText, ch) = InText
    BY DEF InText, A!Step
<1> QED
    BY <1>1, <1>4, <1>6, <1>7, <1>8, <1>9

\* A string goes on to the end of a value that begins with one.
LEMMA TextStays ==
    ASSUME NEW Sym, NEW value, Whole(Sym, value), value[1] = "q"
    PROVE  \A k \in 2..Len(value) : A!Walk(value)[k].str
<1> DEFINE vt == A!Walk(value)
           N == Len(value)
           good == {k \in 0..N : k >= 2 => vt[k].str /\ vt[k].depth = 0}
<1>1. N \in Nat /\ N # 0 /\ Walked(value, vt)
    BY LenProperties, WalkIs DEF Whole
<1>2. \A k \in 2..N : vt[k].str \/ vt[k].depth >= 1
    BY DEF Whole
<1>3. vt[1] = A!Outside /\ \A k \in 1..N : vt[k] \in Stands /\ vt[k + 1] = A!Step(vt[k], value[k])
    BY <1>1 DEF Walked
<1> HIDE DEF vt, N
<1>4. 0 \in good
    BY <1>1
<1>5. ASSUME NEW k \in 0..N, k + 1 \in 0..N, k \in good PROVE k + 1 \in good
    <2>1. CASE k = 0
        BY <1>5, <2>1
    <2>2. CASE k = 1
        <3>1. 1 \in 1..N /\ 1 + 1 = 2 /\ value[1] = "q"
            BY <1>1
        <3>2. vt[2] = A!Step(vt[1], value[1])
            BY <1>3, <3>1
        <3>3. vt[2] = InText
            BY <1>3, <3>1, <3>2, StepsOutside
        <3> QED
            BY <1>5, <2>2, <3>3 DEF InText
    <2>3. CASE k >= 2
        <3>1. k \in 1..N /\ k + 1 \in 2..N
            BY <1>1, <1>5, <2>3
        <3>2. vt[k].str /\ vt[k].depth = 0 /\ vt[k] \in Stands /\ vt[k + 1] = A!Step(vt[k], value[k])
            BY <1>3, <1>5, <2>3, <3>1
        <3>3. vt[k + 1].depth = 0
            <4>1. CASE vt[k].esc
                BY <3>2, <4>1 DEF A!Step, Stands
            <4>2. CASE ~vt[k].esc
                BY <3>2, <4>2 DEF A!Step, Stands
            <4> QED
                BY <4>1, <4>2
        <3>4. vt[k + 1].str
            BY <1>2, <3>1, <3>3
        <3> QED
            BY <1>5, <3>3, <3>4
    <2>4. k = 0 \/ k = 1 \/ k >= 2
        BY <1>1
    <2> QED
        BY <2>1, <2>2, <2>3, <2>4
<1> HIDE DEF good
<1>6. 0..N \subseteq good
    BY <1>1, <1>4, <1>5, CountingUp
<1>7. ASSUME NEW k \in 2..N PROVE vt[k].str
    <2>1. k \in 0..N /\ k >= 2
        BY <1>1
    <2> QED
        BY <1>6, <2>1 DEF good
<1> QED
    BY <1>7 DEF vt, N

Place(m) == 4 + Len(m.gap) + Len(m.gap)

\* How a member is walked.
Through(m, w, wt) ==
    /\ wt[1] = A!Outside /\ wt[Len(w) + 1] = A!Outside
    /\ \A k \in 1..Len(w) + 1 : wt[k] \in Stands /\ wt[k].depth >= 0
    /\ \A k \in 1..Len(w) : w[k] = "q" /\ ~wt[k].str /\ wt[k].depth = 0 => k \in {1, Place(m) + 1}
    /\ wt[Place(m) + 1] = A!Outside
    /\ m.value[1] = "q" => \A k \in 2..Len(m.value) : wt[Place(m) + k].str

LEMMA MemberWalks ==
    ASSUME NEW Sym, NEW m, Member(Sym, m), NEW w, Spelled(Sym, m, w), NEW wt, Walked(w, wt)
    PROVE  Through(m, w, wt)
<1> DEFINE g == Len(m.gap)
           v == Place(m)
           N == Len(m.value)
           vt == A!Walk(m.value)
<1>1. g \in Nat /\ v \in Nat /\ N \in Nat /\ N # 0 /\ Len(w) = v + N /\ v = 4 + g + g
    BY DEF Spelled, Place, Member, Whole
<1>3. /\ w[1] = "q" /\ w[2] \notin {"q", "bs"} /\ w[3] = "q" /\ w[4 + g] = "colon"
      /\ \A k \in 1..g : w[3 + k] = "sp" /\ w[4 + g + k] = "sp"
      /\ \A k \in 1..N : w[v + k] = m.value[k]
    BY <1>1 DEF Spelled, Member, Place
<1>4. /\ Walked(m.value, vt) /\ vt[N + 1] = A!Outside
      /\ \A k \in 2..N : vt[k].depth >= 0 /\ (vt[k].str \/ vt[k].depth >= 1)
    BY WalkIs DEF Member, Whole
<1> HIDE DEF g, v, N, vt
<1>2. wt[1] = A!Outside /\ \A k \in 1..v + N : wt[k + 1] = A!Step(wt[k], w[k]) /\ wt[k] \in Stands
    <2>1. \A k \in 1..v + N : k \in 1..Len(w) /\ k \in 1..Len(w) + 1
        BY <1>1
    <2> QED
        BY <2>1 DEF Walked
<1>5. 1 \in 1..v + N /\ 2 \in 1..v + N /\ 3 \in 1..v + N
    BY <1>1
<1>6. wt[2] = InText /\ wt[3] = InText /\ wt[4] = A!Outside
    <2>1. wt[2] = A!Step(wt[1], w[1]) /\ wt[3] = A!Step(wt[2], w[2]) /\ wt[4] = A!Step(wt[3], w[3])
        <3>1. 1 + 1 = 2 /\ 2 + 1 = 3 /\ 3 + 1 = 4
            OBVIOUS
        <3> QED
            BY <1>2, <1>5, <3>1
    <2>2. wt[2] = InText
        BY <1>2, <1>3, <2>1, StepsOutside
    <2>4. A!Step(InText, w[2]) = InText
        BY <1>3, StepsOutside
    <2>3. wt[3] = InText
        BY <2>1, <2>2, <2>4
    <2> QED
        BY <1>3, <2>1, <2>2, <2>3, StepsOutside
<1>7. \A k \in 4..v + 1 : wt[k] = A!Outside
    <2> DEFINE out == {k \in 0..v + 1 : k >= 4 => wt[k] = A!Outside}
    <2>1. 0 \in out
        BY <1>1
    <2>2. ASSUME NEW k \in 0..v + 1, k + 1 \in 0..v + 1, k \in out PROVE k + 1 \in out
        <3>1. CASE k < 3
            BY <1>1, <2>2, <3>1
        <3>2. CASE k = 3
            <4>1. k + 1 = 4
                BY <3>2
            <4> QED
                BY <1>6, <2>2, <4>1
        <3>3. CASE k >= 4
            <4>1. k \in 1..v + N /\ k + 1 >= 4 /\ k \in 4..v
                BY <1>1, <2>2, <3>3
            <4>2. wt[k] = A!Outside /\ wt[k + 1] = A!Step(wt[k], w[k])
                BY <1>2, <2>2, <3>3, <4>1
            <4>3. w[k] = "sp" \/ w[k] = "colon"
                <5>1. CASE k < 4 + g
                    <6>1. k - 3 \in 1..g /\ 3 + (k - 3) = k
                        BY <1>1, <4>1, <5>1
                    <6> QED
                        BY <1>3, <6>1
                <5>2. CASE k = 4 + g
                    BY <1>3, <5>2
                <5>3. CASE k > 4 + g
                    <6>1. k - (4 + g) \in 1..g /\ 4 + g + (k - (4 + g)) = k
                        BY <1>1, <4>1, <5>3
                    <6> QED
                        BY <1>3, <6>1
                <5> QED
                    BY <1>1, <4>1, <5>1, <5>2, <5>3
            <4>4. wt[k + 1] = A!Outside
                BY <4>2, <4>3, StepsOutside
            <4> QED
                BY <2>2, <4>4
        <3>4. k < 3 \/ k = 3 \/ k >= 4
            BY <1>1
        <3> QED
            BY <3>1, <3>2, <3>3, <3>4
    <2> HIDE DEF out
    <2>3. 0..v + 1 \subseteq out
        BY <1>1, <2>1, <2>2, CountingUp
    <2>4. \A k \in 4..v + 1 : k \in 0..v + 1 /\ k >= 4
        BY <1>1
    <2> QED
        BY <2>3, <2>4 DEF out
<1>8. \A k \in 0..N : wt[v + k + 1] = vt[k + 1]
    <2>1. vt[1] = A!Outside /\ \A k \in 1..N + 1 : vt[k] \in Stands
        BY <1>4 DEF Walked, N
    <2>2. v + 1 \in 4..v + 1
        BY <1>1
    <2>3. \A s \in Stands : Sunk(s, 0) = s
        BY DEF Sunk, Stands
    <2>4. wt[v + 1] = Sunk(vt[1], 0)
        BY <1>7, <2>1, <2>2, <2>3, StepsOutside
    <2>5. \A k \in 1..N : w[v + k] = m.value[k]
        BY <1>3
    <2>6. Len(w) \in Nat /\ v + N <= Len(w)
        BY <1>1
    <2>9. Len(m.value) = N
        BY DEF N
    <2>10. Within(w, wt, m.value, vt, v, 0)
        BY <1>1, <1>4, <2>4, <2>5, <2>6, <2>9 DEF Within
    <2>7. \A k \in 0..N : wt[v + k + 1] = Sunk(vt[k + 1], 0)
        BY <2>9, <2>10, WalkFollows
    <2>8. \A k \in 0..N : k + 1 \in 1..N + 1
        BY <1>1
    <2> QED
        BY <2>1, <2>3, <2>7, <2>8
<1>9. ASSUME NEW k \in 1..N + 1 PROVE wt[v + k] = vt[k]
    <2>1. k - 1 \in 0..N /\ v + (k - 1) + 1 = v + k /\ (k - 1) + 1 = k
        BY <1>1
    <2> QED
        BY <1>8, <2>1
<1>10. wt[Len(w) + 1] = A!Outside
    <2>1. N + 1 \in 1..N + 1 /\ v + (N + 1) = Len(w) + 1
        BY <1>1
    <2> QED
        BY <1>4, <1>9, <2>1
<1>11. ASSUME NEW k \in 1..v + N + 1
       PROVE  k \in 1..3 \/ k \in 4..v + 1 \/ (k - v \in 2..N /\ v + (k - v) = k) \/ k = v + N + 1
    BY <1>1
<1>12. /\ \A k \in 1..v + N + 1 : wt[k] \in Stands /\ wt[k].depth >= 0
       /\ \A k \in 1..v + N : ~wt[k].str /\ wt[k].depth = 0 => k = 1 \/ k \in 4..v + 1
    <2>1. A!Outside.depth >= 0 /\ InText.depth >= 0 /\ InText.str /\ InText \in Stands
        BY DEF A!Outside, InText, Stands
    <2>2. ASSUME NEW k, k - v \in 2..N, v + (k - v) = k
          PROVE  wt[k] \in Stands /\ wt[k].depth >= 0 /\ (wt[k].str \/ wt[k].depth # 0)
        <3>1. k - v \in 1..N + 1 /\ k - v \in 1..Len(m.value) + 1
            BY <1>1, <2>2 DEF N
        <3>2. wt[k] = vt[k - v] /\ vt[k - v] \in Stands
            BY <1>4, <1>9, <2>2, <3>1 DEF Walked
        <3> QED
            BY <1>4, <2>2, <3>2
    <2>9. \A k \in 1..3 : k = 1 \/ k = 2 \/ k = 3
        OBVIOUS
    <2>3. \A k \in 1..3 : wt[k] \in Stands /\ wt[k].depth >= 0 /\ (k # 1 => wt[k].str)
        BY <1>2, <1>6, <2>1, <2>9, StepsOutside
    <2>4. \A k \in 4..v + 1 : wt[k] \in Stands /\ wt[k].depth >= 0
        BY <1>7, <2>1, StepsOutside
    <2>5. wt[v + N + 1] = A!Outside
        BY <1>1, <1>10
    <2>6. \A k \in 1..v + N : k \in 1..v + N + 1 /\ k # v + N + 1
        BY <1>1
    <2>7. \A k \in 1..v + N + 1 : wt[k] \in Stands /\ wt[k].depth >= 0
        BY <1>11, <2>1, <2>2, <2>3, <2>4, <2>5, StepsOutside
    <2>8. \A k \in 1..v + N : ~wt[k].str /\ wt[k].depth = 0 => k = 1 \/ k \in 4..v + 1
        BY <1>11, <2>2, <2>3, <2>6
    <2> QED
        BY <2>7, <2>8
<1>13. \A k \in 4..v : w[k] # "q"
    <2> SUFFICES ASSUME NEW k \in 4..v PROVE w[k] # "q"
        OBVIOUS
    <2>1. k \in Nat
        BY <1>1
    <2>2. CASE k < 4 + g
        <3>1. k - 3 \in 1..g /\ 3 + (k - 3) = k
            BY <1>1, <2>2
        <3> QED
            BY <1>3, <3>1
    <2>3. CASE k = 4 + g
        BY <1>3, <2>3
    <2>4. CASE k > 4 + g
        <3>1. k - (4 + g) \in 1..g /\ 4 + g + (k - (4 + g)) = k
            BY <1>1, <2>4
        <3> QED
            BY <1>3, <3>1
    <2> QED
        BY <1>1, <2>1, <2>2, <2>3, <2>4
<1>14. ASSUME NEW k \in 1..v + N, w[k] = "q", ~wt[k].str, wt[k].depth = 0 PROVE k \in {1, v + 1}
    <2>1. k = 1 \/ k \in 4..v + 1
        BY <1>12, <1>14
    <2>2. k \in 4..v + 1 => k \in 4..v \/ k = v + 1
        BY <1>1
    <2> QED
        BY <1>13, <1>14, <2>1, <2>2
<1>15. wt[v + 1] = A!Outside
    <2>1. v + 1 \in 4..v + 1
        BY <1>1
    <2> QED
        BY <1>7, <2>1
<1>16. ASSUME m.value[1] = "q", NEW k \in 2..N PROVE wt[v + k].str
    <2>1. Whole(Sym, m.value) /\ k \in 2..Len(m.value)
        BY DEF Member, N
    <2>2. vt[k].str
        BY <1>16, <2>1, TextStays DEF vt
    <2>3. k \in 1..N + 1
        BY <1>1
    <2> QED
        BY <1>9, <2>2, <2>3
<1>17. Len(w) = v + N /\ Len(w) + 1 = v + N + 1
    BY <1>1
<1> QED
    BY <1>2, <1>10, <1>12, <1>14, <1>15, <1>16, <1>17 DEF Through, v, N

-----------------------------------------------------------------------------
(* a document *)

Atoms(Sym) == {"q", "colon", "comma", "sp", "lbrace", "rbrace"} \subseteq Sym

\* What stands before a member.
Lead(U, n) == IF n = 1 THEN U[0] ELSE Append(U[n - 1], "comma")

Built(Sym, parts, U, text) ==
    /\ Len(parts) \in Nat
    /\ U[0] = <<"lbrace">>
    /\ \A n \in 0..Len(parts) : U[n] \in Seq(Sym)
    /\ \A n \in 1..Len(parts) : U[n] = Lead(U, n) \o parts[n]
    /\ text = Append(U[Len(parts)], "rbrace")

LEMMA BracedIs ==
    ASSUME NEW Sym, Atoms(Sym), NEW parts \in Seq(Seq(Sym))
    PROVE  \E U : Built(Sym, parts, U, A!Braced(parts))
<1> DEFINE begin == <<"lbrace">>
           N == Len(parts)
           States == Seq(Sym)
           Op(acc, n) == (IF n = 1 THEN acc ELSE Append(acc, "comma")) \o parts[n]
           step == [x \in States \X (1..N) |-> Op(x[1], x[2])]
           Meets(f) == f = [n \in 0..N |-> IF n = 0 THEN begin ELSE (IF n = 1 THEN f[n - 1] ELSE Append(f[n - 1], "comma")) \o parts[n]]
           read == CHOOSE f : Meets(f)
<1>1. N \in Nat /\ begin \in States
    BY LenProperties DEF Atoms
<1>2. \A acc \in States, n \in 1..N : Op(acc, n) \in States
    <2> SUFFICES ASSUME NEW acc \in Seq(Sym), NEW n \in 1..N
                 PROVE  (IF n = 1 THEN acc ELSE Append(acc, "comma")) \o parts[n] \in Seq(Sym)
        OBVIOUS
    <2>1. parts[n] \in Seq(Sym)
        BY ElementOfSeq
    <2>2. Append(acc, "comma") \in Seq(Sym)
        BY AppendProperties DEF Atoms
    <2>3. (IF n = 1 THEN acc ELSE Append(acc, "comma")) \in Seq(Sym)
        BY <2>2
    <2> QED
        BY <2>1, <2>3, ConcatProperties
<1>3. A!Braced(parts) = Append(read[N], "rbrace")
    BY DEF A!Braced
<1>4. \A f : Meets(f) <=> f = [n \in 0..N |-> IF n = 0 THEN begin ELSE Op(f[n - 1], n)]
    OBVIOUS
<1> HIDE DEF N, States, Op, begin
<1>5. step \in [States \X (1..N) -> States]
    BY <1>2
<1> HIDE DEF step
<1>6. PICK f \in [0..N -> States] : Follows(f, N, begin, step)
    BY <1>1, <1>5, Recursion, Zenon
<1> USE DEF step
<1>7. f[0] = begin /\ \A n \in 1..N : f[n] = step[<<f[n - 1], n>>]
    BY <1>6 DEF Follows
<1> HIDE DEF Meets
<1>8. Meets(f)
    <2>1. \A n \in 1..N : f[n] = Op(f[n - 1], n)
        <3> SUFFICES ASSUME NEW n \in 1..N PROVE f[n] = Op(f[n - 1], n)
            OBVIOUS
        <3>1. n \in 0..N /\ n # 0 /\ n - 1 \in 0..N
            BY <1>1
        <3>2. <<f[n - 1], n>> \in States \X (1..N)
            BY <3>1
        <3>3. f[n] = step[<<f[n - 1], n>>]
            BY <1>7, <3>1
        <3> QED
            BY <3>2, <3>3
    <2>2. f[0] = begin
        BY <1>1, <1>7
    <2>3. \A n \in 0..N : f[n] = IF n = 0 THEN begin ELSE Op(f[n - 1], n)
        BY <1>1, <2>1, <2>2
    <2>4. f = [n \in 0..N |-> IF n = 0 THEN begin ELSE Op(f[n - 1], n)]
        BY <2>3
    <2> QED
        BY <1>4, <2>4
<1>9. Meets(read)
    BY <1>8
<1> HIDE DEF read
<1>10. read[0] = begin /\ \A n \in 1..N : read[n] = Op(read[n - 1], n)
    <2>1. read = [n \in 0..N |-> IF n = 0 THEN begin ELSE Op(read[n - 1], n)]
        BY <1>4, <1>9
    <2>2. \A n \in 0..N : read[n] = IF n = 0 THEN begin ELSE Op(read[n - 1], n)
        BY <2>1
    <2> QED
        BY <1>1, <2>2
<1>11. read \in [0..N -> States]
    <2> DEFINE typed == {n \in 0..N : read[n] \in States}
    <2>1. 0 \in typed
        BY <1>1, <1>10
    <2>2. ASSUME NEW n \in 0..N, n + 1 \in 0..N, n \in typed PROVE n + 1 \in typed
        <3>1. n + 1 \in 1..N /\ (n + 1) - 1 = n
            BY <2>2, <1>1
        <3>2. read[n + 1] = Op(read[n], n + 1)
            BY <1>10, <3>1
        <3> QED
            BY <1>2, <2>2, <3>1, <3>2
    <2> HIDE DEF typed
    <2>3. 0..N \subseteq typed
        BY <1>1, <2>1, <2>2, CountingUp
    <2>4. \A n \in 0..N : read[n] \in States
        BY <2>3 DEF typed
    <2>5. read = [n \in 0..N |-> read[n]]
        BY <1>4, <1>9
    <2> QED
        BY <2>4, <2>5

<1>12. \A n \in 0..N : read[n] \in Seq(Sym)
    BY <1>11 DEF States
<1>13. ASSUME NEW n \in 1..N PROVE read[n] = Lead(read, n) \o parts[n]
    <2>1. read[n] = (IF n = 1 THEN read[n - 1] ELSE Append(read[n - 1], "comma")) \o parts[n]
        BY <1>10 DEF Op
    <2>2. n = 1 => n - 1 = 0
        OBVIOUS
    <2> QED
        BY <2>1, <2>2 DEF Lead
<1>14. Built(Sym, parts, read, A!Braced(parts))
    BY <1>1, <1>3, <1>10, <1>12, <1>13 DEF Built, N, begin
<1> QED
    BY <1>14

\* Where a member begins, and where it ends.
Ahead(U, n) == Len(Lead(U, n))

Leads(Sym, parts, U, n) ==
    /\ Lead(U, n) \in Seq(Sym) /\ Ahead(U, n) \in Nat /\ Ahead(U, n) >= 1 /\ Len(U[n - 1]) \in Nat
    /\ Len(U[n]) = Ahead(U, n) + Len(parts[n])
    /\ \A k \in 1..Ahead(U, n) : U[n][k] = Lead(U, n)[k]
    /\ \A k \in 1..Len(parts[n]) : U[n][Ahead(U, n) + k] = parts[n][k]
    /\ \A k \in 1..Len(U[n - 1]) : Lead(U, n)[k] = U[n - 1][k]
    /\ (n = 1 => Ahead(U, n) = Len(U[n - 1]) /\ Ahead(U, n) = 1)
    /\ (n # 1 => Ahead(U, n) = Len(U[n - 1]) + 1 /\ Lead(U, n)[Ahead(U, n)] = "comma")

LEMMA LeadsOn ==
    ASSUME NEW Sym, Atoms(Sym), NEW parts \in Seq(Seq(Sym)), NEW U, NEW text, Built(Sym, parts, U, text),
           NEW n \in 1..Len(parts)
    PROVE  Leads(Sym, parts, U, n)
<1>1. n - 1 \in 0..Len(parts) /\ n \in 0..Len(parts)
    BY DEF Built
<1>2. U[n - 1] \in Seq(Sym) /\ U[n] \in Seq(Sym) /\ parts[n] \in Seq(Sym)
    BY <1>1, ElementOfSeq DEF Built
<1>3. /\ Lead(U, n) \in Seq(Sym) /\ Len(U[n - 1]) \in Nat
      /\ \A k \in 1..Len(U[n - 1]) : Lead(U, n)[k] = U[n - 1][k]
      /\ (n = 1 => Len(Lead(U, n)) = Len(U[n - 1]) /\ Len(Lead(U, n)) = 1)
      /\ (n # 1 => Len(Lead(U, n)) = Len(U[n - 1]) + 1 /\ Lead(U, n)[Len(Lead(U, n))] = "comma")
    <2>1. CASE n = 1
        <3>1. Lead(U, n) = U[0] /\ n - 1 = 0
            BY <2>1 DEF Lead
        <3>2. U[0] = <<"lbrace">> /\ Len(U[0]) = 1
            BY DEF Built
        <3>3. U[n - 1] = U[0]
            BY <3>1
        <3>4. Len(U[0]) = 1 /\ 1 \in Nat
            BY <3>2
        <3> QED
            BY <1>2, <2>1, <3>1, <3>3, <3>4
    <2>2. CASE n # 1
        <3>1. Lead(U, n) = Append(U[n - 1], "comma")
            BY <2>2 DEF Lead
        <3> DEFINE u == U[n - 1]
        <3>2. u \in Seq(Sym) /\ "comma" \in Sym
            BY <1>2 DEF Atoms
        <3> HIDE DEF u
        <3>3. Len(u) \in Nat
            BY <3>2, LenProperties
        <3>4. /\ Append(u, "comma") \in Seq(Sym) /\ Len(Append(u, "comma")) = Len(u) + 1
              /\ \A k \in 1..Len(u) : Append(u, "comma")[k] = u[k]
              /\ Append(u, "comma")[Len(u) + 1] = "comma"
            BY <3>2, AppendProperties
        <3> QED
            BY <2>2, <3>1, <3>3, <3>4 DEF u
    <2> QED
        BY <2>1, <2>2
<1>4. U[n] = Lead(U, n) \o parts[n]
    BY DEF Built
<1>5. Joins(Sym, Lead(U, n), parts[n], U[n])
    BY <1>2, <1>3, <1>4, JoinIs
<1>6. Ahead(U, n) = Len(Lead(U, n)) /\ Ahead(U, n) >= 1
    <2>1. Len(Lead(U, n)) >= 1
        <3>1. CASE n = 1
            <4>1. Len(Lead(U, n)) = 1
                BY <1>3, <3>1
            <4> QED
                BY <4>1
        <3>2. CASE n # 1
            <4>1. Len(Lead(U, n)) = Len(U[n - 1]) + 1 /\ Len(U[n - 1]) \in Nat
                BY <1>3, <3>2
            <4> QED
                BY <4>1
        <3> QED
            BY <3>1, <3>2
    <2> QED
        BY <2>1 DEF Ahead
<1> QED
    BY <1>3, <1>5, <1>6 DEF Joins, Leads

\* How a document is laid out.
Laid(Sym, parts, U, text) ==
    /\ text \in Seq(Sym) /\ Len(text) \in Nat /\ Len(U[Len(parts)]) \in Nat
    /\ Len(text) = Len(U[Len(parts)]) + 1 /\ Len(text) >= 2
    /\ text[1] = "lbrace" /\ text[Len(text)] = "rbrace" /\ Len(U[0]) = 1
    /\ \A n \in 1..Len(parts) :
          /\ Ahead(U, n) \in Nat /\ Ahead(U, n) >= 1 /\ Len(parts[n]) \in Nat
          /\ Len(U[n]) = Ahead(U, n) + Len(parts[n]) /\ Len(U[n]) < Len(text)
          /\ \A k \in 1..Len(parts[n]) : text[Ahead(U, n) + k] = parts[n][k]
          /\ (n = 1 => Ahead(U, n) = 1)
          /\ (n # 1 => Ahead(U, n) = Len(U[n - 1]) + 1 /\ text[Ahead(U, n)] = "comma")
          /\ text[Len(U[n]) + 1] \in {"comma", "rbrace"}
    /\ \A j \in 2..Len(text) - 1 :
          \E n \in 1..Len(parts) :
             (n # 1 /\ j = Ahead(U, n)) \/ \E k \in 1..Len(parts[n]) : j = Ahead(U, n) + k

LEMMA LaidOut ==
    ASSUME NEW Sym, Atoms(Sym), NEW parts \in Seq(Seq(Sym)), NEW U, NEW text, Built(Sym, parts, U, text)
    PROVE  Laid(Sym, parts, U, text)
<1> DEFINE N == Len(parts)
           L == Len(U[N])
<1>1. N \in Nat /\ \A n \in 0..N : U[n] \in Seq(Sym) /\ Len(U[n]) \in Nat
    BY LenProperties DEF Built
<1>2. \A n \in 1..N : Leads(Sym, parts, U, n)
    BY LeadsOn
<1>3. \A n \in 1..N : Len(parts[n]) \in Nat
    BY ElementOfSeq, LenProperties
<1>4. U[0] = <<"lbrace">> /\ Len(U[0]) = 1 /\ U[0][1] = "lbrace"
    BY DEF Built
<1>5. /\ text = Append(U[N], "rbrace") /\ U[N] \in Seq(Sym) /\ L \in Nat
      /\ text \in Seq(Sym) /\ Len(text) = L + 1 /\ text[L + 1] = "rbrace"
      /\ \A j \in 1..L : text[j] = U[N][j]
    <2>1. N \in 0..N
        BY <1>1
    <2>2. text = Append(U[N], "rbrace") /\ U[N] \in Seq(Sym) /\ L \in Nat
        BY <1>1, <2>1 DEF Built
    <2> DEFINE u == U[N]
    <2>3. u \in Seq(Sym) /\ "rbrace" \in Sym
        BY <2>2 DEF Atoms
    <2> HIDE DEF u
    <2>4. /\ Append(u, "rbrace") \in Seq(Sym) /\ Len(Append(u, "rbrace")) = Len(u) + 1
          /\ \A k \in 1..Len(u) : Append(u, "rbrace")[k] = u[k]
          /\ Append(u, "rbrace")[Len(u) + 1] = "rbrace"
        BY <2>3, AppendProperties
    <2> QED
        BY <2>2, <2>4 DEF u
<1> HIDE DEF N, L
<1> DEFINE Extends(n, i) == Len(U[i]) <= Len(U[n]) /\ \A j \in 1..Len(U[i]) : U[n][j] = U[i][j]
           good == {n \in 0..N : \A i \in 0..n : Extends(n, i)}
<1>6. 0 \in good
    <2>1. \A i \in 0..0 : i = 0
        OBVIOUS
    <2> QED
        BY <1>1, <2>1
<1>7. ASSUME NEW n \in 0..N, n + 1 \in 0..N, n \in good PROVE n + 1 \in good
    <2>1. n + 1 \in 1..N /\ (n + 1) - 1 = n
        BY <1>1, <1>7
    <2>2. Leads(Sym, parts, U, n + 1)
        BY <1>2, <2>1
    <2>3. Extends(n + 1, n)
        <3>1. Len(U[n]) \in Nat /\ Len(U[n + 1]) \in Nat /\ Ahead(U, n + 1) \in Nat
              /\ Len(U[n]) <= Ahead(U, n + 1) /\ Ahead(U, n + 1) <= Len(U[n + 1])
            BY <1>1, <1>3, <1>7, <2>1, <2>2 DEF Leads
        <3>2. \A j \in 1..Len(U[n]) : j \in 1..Ahead(U, n + 1)
            BY <3>1
        <3>3. /\ \A k \in 1..Ahead(U, n + 1) : U[n + 1][k] = Lead(U, n + 1)[k]
              /\ \A k \in 1..Len(U[n]) : Lead(U, n + 1)[k] = U[n][k]
            BY <2>1, <2>2 DEF Leads
        <3> QED
            BY <3>1, <3>2, <3>3
    <2>4. ASSUME NEW i \in 0..n + 1 PROVE Extends(n + 1, i)
        <3>1. CASE i = n + 1
            BY <1>1, <1>7, <3>1
        <3>2. CASE i # n + 1
            <4>1. i \in 0..n /\ i \in 0..N
                BY <1>1, <1>7, <3>2
            <4>2. Extends(n, i)
                BY <1>7, <4>1
            <4>3. Len(U[i]) \in Nat /\ Len(U[n]) \in Nat /\ Len(U[n + 1]) \in Nat
                BY <1>1, <1>7, <4>1
            <4>4. \A j \in 1..Len(U[i]) : j \in 1..Len(U[n])
                BY <4>2, <4>3
            <4> QED
                BY <2>3, <4>2, <4>3, <4>4
        <3> QED
            BY <3>1, <3>2
    <2> HIDE DEF Extends
    <2> QED
        BY <1>7, <2>4
<1> HIDE DEF good
<1>8. 0..N \subseteq good
    BY <1>1, <1>6, <1>7, CountingUp
<1>9. ASSUME NEW n \in 0..N PROVE Len(U[n]) <= L /\ \A j \in 1..Len(U[n]) : text[j] = U[n][j]
    <2>1. N \in 0..N /\ n \in 0..N
        BY <1>1
    <2>2. N \in good
        BY <1>8, <2>1
    <2>3. Extends(N, n)
        BY <2>1, <2>2 DEF good
    <2>4. Len(U[n]) <= L /\ L \in Nat /\ Len(U[n]) \in Nat
        BY <1>1, <2>1, <2>3 DEF L
    <2>5. \A j \in 1..Len(U[n]) : j \in 1..L
        BY <2>4
    <2> QED
        BY <1>5, <2>3, <2>4, <2>5
<1> HIDE DEF Extends
<1>10. L \in Nat /\ L >= 1 /\ text[1] = "lbrace"
    <2>1. 0 \in 0..N /\ 1 \in 1..Len(U[0])
        BY <1>1, <1>4
    <2> QED
        BY <1>4, <1>5, <1>9, <2>1
<1>11. ASSUME NEW n \in 1..N
       PROVE  /\ Ahead(U, n) \in Nat /\ Ahead(U, n) >= 1 /\ Len(parts[n]) \in Nat
              /\ Len(U[n]) = Ahead(U, n) + Len(parts[n]) /\ Len(U[n]) < L + 1
              /\ \A k \in 1..Len(parts[n]) : text[Ahead(U, n) + k] = parts[n][k]
              /\ (n = 1 => Ahead(U, n) = 1)
              /\ (n # 1 => Ahead(U, n) = Len(U[n - 1]) + 1 /\ text[Ahead(U, n)] = "comma")
    <2>1. Leads(Sym, parts, U, n) /\ n \in 0..N /\ Len(parts[n]) \in Nat
        BY <1>1, <1>2, <1>3
    <2>2. /\ Ahead(U, n) \in Nat /\ Ahead(U, n) >= 1 /\ Len(U[n]) = Ahead(U, n) + Len(parts[n])
          /\ \A k \in 1..Len(parts[n]) : U[n][Ahead(U, n) + k] = parts[n][k]
          /\ \A k \in 1..Ahead(U, n) : U[n][k] = Lead(U, n)[k]
          /\ (n = 1 => Ahead(U, n) = 1)
          /\ (n # 1 => Ahead(U, n) = Len(U[n - 1]) + 1 /\ Lead(U, n)[Ahead(U, n)] = "comma")
        BY <2>1 DEF Leads
    <2>3. \A k \in 1..Len(parts[n]) : Ahead(U, n) + k \in 1..Len(U[n])
        BY <2>1, <2>2
    <2>4. Ahead(U, n) \in 1..Ahead(U, n) /\ Ahead(U, n) \in 1..Len(U[n])
        BY <2>1, <2>2
    <2>5. Len(U[n]) <= L /\ \A j \in 1..Len(U[n]) : text[j] = U[n][j]
        BY <1>9, <2>1
    <2>6. Len(U[n]) < L + 1
        BY <1>5, <2>1, <2>2, <2>5
    <2> QED
        BY <2>1, <2>2, <2>3, <2>4, <2>5, <2>6
<1>12. ASSUME NEW n \in 1..N PROVE text[Len(U[n]) + 1] \in {"comma", "rbrace"}
    <2>1. CASE n = N
        BY <1>5, <2>1 DEF L
    <2>2. CASE n # N
        <3>1. n + 1 \in 1..N /\ n + 1 # 1 /\ (n + 1) - 1 = n
            BY <1>1, <2>2
        <3>2. Ahead(U, n + 1) = Len(U[n]) + 1 /\ text[Ahead(U, n + 1)] = "comma"
            BY <1>11, <3>1
        <3> QED
            BY <3>2
    <2> QED
        BY <2>1, <2>2
<1> DEFINE Covered(j, n) == (n # 1 /\ j = Ahead(U, n)) \/ \E k \in 1..Len(parts[n]) : j = Ahead(U, n) + k
           done == {n \in 0..N : \A j \in 2..Len(U[n]) : \E i \in 1..N : Covered(j, i)}
<1>13. 0 \in done
    <2>1. 0 \in 0..N /\ \A j \in 2..Len(U[0]) : FALSE
        BY <1>1, <1>4
    <2> QED
        BY <2>1
<1>14. ASSUME NEW n \in 0..N, n + 1 \in 0..N, n \in done PROVE n + 1 \in done
    <2>1. n + 1 \in 1..N /\ (n + 1) - 1 = n /\ n + 1 \in 0..N
        BY <1>1, <1>14
    <2>2. /\ Ahead(U, n + 1) \in Nat /\ Ahead(U, n + 1) >= 1 /\ Len(parts[n + 1]) \in Nat
          /\ Len(U[n + 1]) = Ahead(U, n + 1) + Len(parts[n + 1]) /\ Len(U[n]) \in Nat
          /\ (n + 1 = 1 => Ahead(U, n + 1) = 1)
          /\ (n + 1 # 1 => Ahead(U, n + 1) = Len(U[n]) + 1)
        BY <1>1, <1>11, <1>14, <2>1
    <2>3. ASSUME NEW j \in 2..Len(U[n + 1]) PROVE \E i \in 1..N : Covered(j, i)
        <3>1. CASE j <= Len(U[n])
            <4>1. j \in 2..Len(U[n])
                BY <2>2, <3>1
            <4> QED
                BY <1>14, <4>1
        <3>2. CASE n + 1 # 1 /\ j = Ahead(U, n + 1)
            BY <2>1, <3>2
        <3>3. CASE j > Ahead(U, n + 1)
            <4>1. j - Ahead(U, n + 1) \in 1..Len(parts[n + 1]) /\ j = Ahead(U, n + 1) + (j - Ahead(U, n + 1))
                BY <2>2, <3>3
            <4>2. Covered(j, n + 1)
                BY <4>1
            <4> QED
                BY <2>1, <4>2
        <3>4. j <= Len(U[n]) \/ (n + 1 # 1 /\ j = Ahead(U, n + 1)) \/ j > Ahead(U, n + 1)
            BY <2>2
        <3> QED
            BY <3>1, <3>2, <3>3, <3>4
    <2> QED
        BY <2>1, <2>3
<1> HIDE DEF done
<1>15. 0..N \subseteq done
    BY <1>1, <1>13, <1>14, CountingUp
<1>16. \A j \in 2..L : \E i \in 1..N : Covered(j, i)
    <2>1. N \in done
        BY <1>1, <1>15
    <2> QED
        BY <2>1 DEF done, L
<1>17. Len(text) = L + 1 /\ Len(text) - 1 = L /\ Len(text) >= 2 /\ Len(text) \in Nat
    BY <1>5, <1>10
<1> QED
    <2>1. /\ text \in Seq(Sym) /\ Len(text) \in Nat /\ Len(U[Len(parts)]) \in Nat
          /\ Len(text) = Len(U[Len(parts)]) + 1 /\ Len(text) >= 2
          /\ text[1] = "lbrace" /\ text[Len(text)] = "rbrace" /\ Len(U[0]) = 1
        BY <1>4, <1>5, <1>10, <1>17 DEF N, L
    <2>2. ASSUME NEW n \in 1..Len(parts)
          PROVE  /\ Ahead(U, n) \in Nat /\ Ahead(U, n) >= 1 /\ Len(parts[n]) \in Nat
                 /\ Len(U[n]) = Ahead(U, n) + Len(parts[n]) /\ Len(U[n]) < Len(text)
                 /\ \A k \in 1..Len(parts[n]) : text[Ahead(U, n) + k] = parts[n][k]
                 /\ (n = 1 => Ahead(U, n) = 1)
                 /\ (n # 1 => Ahead(U, n) = Len(U[n - 1]) + 1 /\ text[Ahead(U, n)] = "comma")
                 /\ text[Len(U[n]) + 1] \in {"comma", "rbrace"}
        <3>1. n \in 1..N
            BY DEF N
        <3> QED
            BY <1>11, <1>12, <1>17, <3>1
    <2>3. \A j \in 2..Len(text) - 1 :
             \E n \in 1..Len(parts) :
                (n # 1 /\ j = Ahead(U, n)) \/ \E k \in 1..Len(parts[n]) : j = Ahead(U, n) + k
        BY <1>16, <1>17 DEF N
    <2> QED
        BY <2>1, <2>2, <2>3 DEF Laid

\* A document, and its text.
Document(Sym, doc, parts, U, text, at) ==
    /\ Atoms(Sym) /\ parts \in Seq(Seq(Sym)) /\ Laid(Sym, parts, U, text) /\ Walked(text, at)
    /\ Len(parts) \in Nat
    /\ \A n \in 1..Len(parts) : Member(Sym, doc[n]) /\ Spelled(Sym, doc[n], parts[n])

\* Everything in a document is inside of it, and a member goes as it goes by itself.
Sunken(doc, parts, U, text, at) ==
    /\ at[1] = A!Outside
    /\ \A n \in 1..Len(parts) :
          /\ Through(doc[n], parts[n], A!Walk(parts[n]))
          /\ \A k \in 1..Len(parts[n]) + 1 : at[Ahead(U, n) + k] = Sunk(A!Walk(parts[n])[k], 1)
    /\ \A j \in 2..Len(text) : at[j] \in Stands /\ at[j].depth >= 1

LEMMA DocumentWalked ==
    ASSUME NEW Sym, NEW doc, NEW parts, NEW U, NEW text, NEW at, Document(Sym, doc, parts, U, text, at)
    PROVE  Sunken(doc, parts, U, text, at)
<1> DEFINE N == Len(parts)
           L == Len(text)
           deep == Sunk(A!Outside, 1)
<1>1. /\ N \in Nat /\ L \in Nat /\ L >= 2 /\ Len(U[N]) \in Nat /\ L = Len(U[N]) + 1 /\ Len(U[0]) = 1
      /\ text[1] = "lbrace"
    BY DEF Document, Laid
<1>2. ASSUME NEW n \in 1..N
      PROVE  /\ Ahead(U, n) \in Nat /\ Ahead(U, n) >= 1 /\ Len(parts[n]) \in Nat
             /\ Len(U[n]) = Ahead(U, n) + Len(parts[n]) /\ Len(U[n]) < L
             /\ \A k \in 1..Len(parts[n]) : text[Ahead(U, n) + k] = parts[n][k]
             /\ (n = 1 => Ahead(U, n) = 1)
             /\ (n # 1 => Ahead(U, n) = Len(U[n - 1]) + 1 /\ text[Ahead(U, n)] = "comma")
    BY DEF Document, Laid
<1>3. \A j \in 2..L - 1 :
         \E n \in 1..N : (n # 1 /\ j = Ahead(U, n)) \/ \E k \in 1..Len(parts[n]) : j = Ahead(U, n) + k
    BY DEF Document, Laid
<1>4. /\ Walked(text, at) /\ at[1] = A!Outside /\ \A n \in 1..L : at[n + 1] = A!Step(at[n], text[n])
      /\ \A n \in 1..L + 1 : at[n] \in Stands
    BY DEF Document, Walked
<1>5. ASSUME NEW n \in 1..N
      PROVE  Walked(parts[n], A!Walk(parts[n])) /\ Through(doc[n], parts[n], A!Walk(parts[n]))
    <2>1. Member(Sym, doc[n]) /\ Spelled(Sym, doc[n], parts[n])
        BY DEF Document
    <2>2. parts[n] \in Seq(Sym)
        BY <2>1 DEF Spelled
    <2>3. Walked(parts[n], A!Walk(parts[n]))
        BY <2>2, WalkIs
    <2> QED
        BY <2>1, <2>3, MemberWalks
<1>6. A!Step(A!Outside, "lbrace") = deep /\ A!Step(deep, "comma") = deep /\ deep \in Stands /\ deep.depth = 1
    <2>1. A!Step(A!Outside, "comma") = A!Outside /\ A!Outside \in Stands /\ A!Step(A!Outside, "lbrace") = deep
        BY StepsOutside
    <2>2. A!Step(deep, "comma") = Sunk(A!Step(A!Outside, "comma"), 1)
        BY <2>1, StepSunk
    <2>3. deep \in Stands
        BY <2>1, SunkTyped
    <2>4. deep.depth = 1
        BY DEF Sunk, A!Outside
    <2> QED
        BY <2>1, <2>2, <2>3, <2>4
<1> HIDE DEF N, L, deep
<1> DEFINE Ends(n) == at[Len(U[n]) + 1] = deep
           good == {n \in 0..N : Ends(n)}
<1>7. at[2] = deep
    <2>1. 1 \in 1..L /\ 1 + 1 = 2
        BY <1>1
    <2>2. at[2] = A!Step(at[1], text[1])
        BY <1>4, <2>1
    <2> QED
        BY <1>1, <1>4, <1>6, <2>2
<1>8. Ends(0)
    <2>1. Len(U[0]) + 1 = 2
        BY <1>1
    <2> QED
        BY <1>7, <2>1
<1>9. ASSUME NEW n \in 1..N, Ends(n - 1) PROVE at[Ahead(U, n) + 1] = deep
    <2>1. CASE n = 1
        <3>1. Ahead(U, n) + 1 = 2
            BY <1>2, <2>1
        <3> QED
            BY <1>7, <3>1
    <2>2. CASE n # 1
        <3>1. Ahead(U, n) = Len(U[n - 1]) + 1 /\ text[Ahead(U, n)] = "comma" /\ Ahead(U, n) \in 1..L
            BY <1>1, <1>2, <2>2
        <3>2. at[Ahead(U, n)] = deep
            BY <1>9, <3>1
        <3>3. at[Ahead(U, n) + 1] = A!Step(at[Ahead(U, n)], text[Ahead(U, n)])
            BY <1>4, <3>1
        <3> QED
            BY <1>6, <3>1, <3>2, <3>3
    <2> QED
        BY <2>1, <2>2
<1>10. ASSUME NEW n \in 1..N, Ends(n - 1)
       PROVE  \A k \in 0..Len(parts[n]) : at[Ahead(U, n) + k + 1] = Sunk(A!Walk(parts[n])[k + 1], 1)
    <2>1. at[Ahead(U, n) + 1] = deep
        BY <1>9, <1>10
    <2>2. A!Walk(parts[n])[1] = A!Outside
        BY <1>5 DEF Walked
    <2>3. at[Ahead(U, n) + 1] = Sunk(A!Walk(parts[n])[1], 1)
        BY <2>1, <2>2 DEF deep
    <2>4. Len(text) \in Nat /\ Ahead(U, n) + Len(parts[n]) <= Len(text)
        BY <1>1, <1>2 DEF L
    <2>5. /\ Ahead(U, n) \in Nat /\ Len(parts[n]) \in Nat
          /\ \A k \in 1..Len(parts[n]) : text[Ahead(U, n) + k] = parts[n][k]
        BY <1>2
    <2>6. Walked(text, at) /\ Walked(parts[n], A!Walk(parts[n])) /\ 1 \in Int
        BY <1>4, <1>5
    <2>7. Within(text, at, parts[n], A!Walk(parts[n]), Ahead(U, n), 1)
        BY <2>3, <2>4, <2>5, <2>6 DEF Within
    <2> QED
        BY <2>7, WalkFollows
<1> HIDE DEF Ends
<1>11. 0 \in good
    BY <1>1, <1>8
<1>12. ASSUME NEW n \in 0..N, n + 1 \in 0..N, n \in good PROVE n + 1 \in good
    <2>1. n + 1 \in 1..N /\ (n + 1) - 1 = n
        BY <1>1, <1>12
    <2>2. Ends((n + 1) - 1)
        BY <1>12, <2>1
    <2>3. Len(parts[n + 1]) \in Nat /\ Len(parts[n + 1]) \in 0..Len(parts[n + 1])
          /\ Len(U[n + 1]) = Ahead(U, n + 1) + Len(parts[n + 1])
        BY <1>2, <2>1
    <2>4. at[Ahead(U, n + 1) + Len(parts[n + 1]) + 1] = Sunk(A!Walk(parts[n + 1])[Len(parts[n + 1]) + 1], 1)
        BY <1>10, <2>1, <2>2, <2>3
    <2>5. A!Walk(parts[n + 1])[Len(parts[n + 1]) + 1] = A!Outside
        BY <1>5, <2>1 DEF Through
    <2>6. Ends(n + 1)
        BY <2>3, <2>4, <2>5 DEF Ends, deep
    <2> QED
        BY <1>12, <2>6
<1> HIDE DEF good
<1>13. 0..N \subseteq good
    BY <1>1, <1>11, <1>12, CountingUp
<1>14. ASSUME NEW n \in 1..N PROVE Ends(n - 1)
    <2>1. n - 1 \in 0..N
        BY <1>1
    <2> QED
        BY <1>13, <2>1 DEF good
<1>15. ASSUME NEW n \in 1..N, NEW k \in 1..Len(parts[n]) + 1
       PROVE  at[Ahead(U, n) + k] = Sunk(A!Walk(parts[n])[k], 1)
    <2>1. /\ k - 1 \in 0..Len(parts[n]) /\ Ahead(U, n) + (k - 1) + 1 = Ahead(U, n) + k /\ (k - 1) + 1 = k
        BY <1>2
    <2>2. at[Ahead(U, n) + (k - 1) + 1] = Sunk(A!Walk(parts[n])[(k - 1) + 1], 1)
        BY <1>10, <1>14, <2>1
    <2> QED
        BY <2>1, <2>2
<1>16. at[L] = deep
    <2>1. N \in 0..N /\ L = Len(U[N]) + 1
        BY <1>1
    <2> QED
        BY <1>13, <2>1 DEF good, Ends
<1>17. ASSUME NEW j \in 2..L PROVE at[j] \in Stands /\ at[j].depth >= 1
    <2>1. at[j] \in Stands
        BY <1>1, <1>4
    <2>2. CASE j = L
        BY <1>6, <1>16, <2>1, <2>2
    <2>3. CASE j # L
        <3>1. j \in 2..L - 1
            BY <1>1, <2>3
        <3>2. PICK n \in 1..N : (n # 1 /\ j = Ahead(U, n)) \/ \E k \in 1..Len(parts[n]) : j = Ahead(U, n) + k
            BY <1>3, <3>1
        <3>3. CASE n # 1 /\ j = Ahead(U, n)
            <4>1. j = Len(U[n - 1]) + 1
                BY <1>2, <3>3
            <4>2. at[j] = deep
                BY <1>14, <4>1 DEF Ends
            <4> QED
                BY <1>6, <2>1, <4>2
        <3>4. CASE \E k \in 1..Len(parts[n]) : j = Ahead(U, n) + k
            <4>1. PICK k \in 1..Len(parts[n]) : j = Ahead(U, n) + k
                BY <3>4
            <4>2. k \in 1..Len(parts[n]) + 1
                BY <1>2
            <4>3. at[j] = Sunk(A!Walk(parts[n])[k], 1)
                BY <1>15, <4>1, <4>2
            <4>4. A!Walk(parts[n])[k] \in Stands /\ A!Walk(parts[n])[k].depth >= 0
                BY <1>5, <4>2 DEF Through
            <4>5. at[j].depth = A!Walk(parts[n])[k].depth + 1 /\ A!Walk(parts[n])[k].depth \in Int
                BY <4>3, <4>4 DEF Sunk, Stands
            <4> QED
                BY <2>1, <4>4, <4>5
        <3> QED
            BY <3>2, <3>3, <3>4
    <2> QED
        BY <2>2, <2>3
<1> QED
    BY <1>4, <1>5, <1>15, <1>17 DEF Sunken, N, L

LEMMA FirstIs ==
    ASSUME NEW found, found \subseteq Nat, NEW x \in found, \A y \in found : x <= y
    PROVE  A!First(found) = x
<1>1. found # {} /\ x \in Nat
    OBVIOUS
<1>2. \A y \in found : (\A z \in found : y <= z) => y = x
    <2> SUFFICES ASSUME NEW y \in found, \A z \in found : y <= z PROVE y = x
        OBVIOUS
    <2>1. y \in Nat /\ x <= y /\ y <= x
        OBVIOUS
    <2> QED
        BY <1>1, <2>1
<1>3. A!Min(found) = x
    BY <1>2 DEF A!Min
<1> QED
    BY <1>1, <1>3 DEF A!First

LEMMA SolidIs ==
    ASSUME NEW text, Len(text) \in Nat, NEW n \in Nat, NEW x \in n + 1..Len(text), text[x] # "sp",
           \A k \in n + 1..x - 1 : text[k] = "sp"
    PROVE  A!Solid(text, n) = x
<1> DEFINE found == {k \in n + 1..Len(text) : text[k] # "sp"}
<1>1. found \subseteq Nat /\ x \in found
    OBVIOUS
<1>2. ASSUME NEW y \in found PROVE x <= y
    <2>1. y \in n + 1..Len(text) /\ text[y] # "sp" /\ x \in Nat
        OBVIOUS
    <2>2. y \notin n + 1..x - 1
        BY <2>1
    <2> QED
        BY <2>1, <2>2
<1> HIDE DEF found
<1>3. A!First(found) = x
    BY <1>1, <1>2, FirstIs
<1> QED
    BY <1>3 DEF A!Solid, found

LEMMA StringEndIs ==
    ASSUME NEW text, NEW at, Len(text) \in Nat, NEW open \in Nat, open # 0, text[open] = "q",
           NEW x \in open + 1..Len(text), ~at[x + 1].str,
           \A k \in open + 1..x - 1 : at[k + 1].str
    PROVE  A!StringEnd(text, at, open) = x
<1> DEFINE found == {k \in open + 1..Len(text) : ~at[k + 1].str}
<1>1. found \subseteq Nat /\ x \in found
    OBVIOUS
<1>2. ASSUME NEW y \in found PROVE x <= y
    <2>1. y \in open + 1..Len(text) /\ ~at[y + 1].str /\ x \in Nat
        OBVIOUS
    <2>2. y \notin open + 1..x - 1
        BY <2>1
    <2> QED
        BY <2>1, <2>2
<1> HIDE DEF found
<1>3. A!First(found) = x
    BY <1>1, <1>2, FirstIs
<1>4. A!StringEnd(text, at, open) = A!First(found)
    BY DEF A!StringEnd, found
<1> QED
    BY <1>3, <1>4

\* What a match begins with.
LEMMA Opens ==
    ASSUME NEW Sym, NEW text \in Seq(Sym), NEW i \in Nat, i >= 1
    PROVE  /\ i + 2 <= Len(text) /\ text[i] = "q" /\ text[i + 1] = "model" /\ text[i + 2] = "q" =>
                 \A at : A!MatchEnd(text, at, i) = A!StringEnd(text, at, A!ValueStart(text, A!Solid(text, i + 2)))
           /\ ~(i + 2 <= Len(text) /\ text[i] = "q" /\ text[i + 1] = "model" /\ text[i + 2] = "q") =>
                 \A at : A!MatchEnd(text, at, i) = 0
<1> DEFINE word == <<"q", "model", "q">>
           part == SubSeq(text, i, i + 2)
<1>1. ASSUME i + 2 <= Len(text)
      PROVE  part = word <=> text[i] = "q" /\ text[i + 1] = "model" /\ text[i + 2] = "q"
    <2>1. Len(text) \in Nat /\ \A k \in i..i + 2 : k \in 1..Len(text)
        BY <1>1, LenProperties
    <2>2. \A k \in i..i + 2 : text[k] \in Sym
        BY <2>1, ElementOfSeq
    <2>3. /\ part \in Seq(Sym) /\ Len(part) = IF i <= i + 2 THEN (i + 2) - i + 1 ELSE 0
          /\ \A k \in 1..(i + 2) - i + 1 : part[k] = text[i + k - 1]
        BY <2>2, SubSeqProperties
    <2> HIDE DEF part
    <2>4. Len(part) = 3 /\ (i + 2) - i + 1 = 3
        BY <2>3
    <2>5. i + 1 - 1 = i /\ i + 2 - 1 = i + 1 /\ i + 3 - 1 = i + 2 /\ 1 \in 1..3 /\ 2 \in 1..3 /\ 3 \in 1..3
        OBVIOUS
    <2>6. part[1] = text[i] /\ part[2] = text[i + 1] /\ part[3] = text[i + 2]
        BY <2>3, <2>4, <2>5
    <2>7. word[1] = "q" /\ word[2] = "model" /\ word[3] = "q" /\ Len(word) = 3
        OBVIOUS
    <2>8. ASSUME part[1] = "q", part[2] = "model", part[3] = "q" PROVE part = word
        <3> DEFINE All == Sym \cup {"q", "model"}
        <3>1. part \in Seq(All)
            BY <2>3, SeqMonotonic
        <3>2. word \in Seq(All)
            OBVIOUS
        <3>3. \A k \in 1..3 : k = 1 \/ k = 2 \/ k = 3
            OBVIOUS
        <3> HIDE DEF word, All
        <3>4. \A k \in 1..Len(part) : part[k] = word[k]
            BY <2>4, <2>7, <2>8, <3>3
        <3> QED
            BY <2>4, <2>7, <3>1, <3>2, <3>4, SeqEqual
    <2> HIDE DEF word
    <2> QED
        BY <2>6, <2>7, <2>8
<1>2. \A at : A!MatchEnd(text, at, i) =
                 IF i + 2 <= Len(text) /\ part = word
                 THEN A!StringEnd(text, at, A!ValueStart(text, A!Solid(text, i + 2))) ELSE 0
    BY DEF A!MatchEnd
<1> HIDE DEF part, word
<1> QED
    BY <1>1, <1>2

\* A member that is edited.
Ours(m) == m.key = "model" /\ m.value[1] = "q"

\* A member in its document.
Placed(Sym, m, part, o, text, at, wt) ==
    /\ Atoms(Sym) /\ text \in Seq(Sym) /\ Len(text) \in Nat
    /\ Member(Sym, m) /\ Spelled(Sym, m, part) /\ Walked(part, wt) /\ Through(m, part, wt)
    /\ o \in Nat /\ o >= 1 /\ Len(part) \in Nat /\ o + Len(part) < Len(text)
    /\ \A k \in 1..Len(part) : text[o + k] = part[k]
    /\ \A k \in 1..Len(part) + 1 : at[o + k] = Sunk(wt[k], 1)
    /\ text[o + Len(part) + 1] \in {"comma", "rbrace"}

LEMMA MembersArePlaced ==
    ASSUME NEW Sym, NEW doc, NEW parts, NEW U, NEW text, NEW at, Document(Sym, doc, parts, U, text, at),
           NEW n \in 1..Len(parts)
    PROVE  Placed(Sym, doc[n], parts[n], Ahead(U, n), text, at, A!Walk(parts[n]))
<1>1. Sunken(doc, parts, U, text, at)
    BY DocumentWalked
<1>2. Atoms(Sym) /\ text \in Seq(Sym) /\ Len(text) \in Nat /\ Member(Sym, doc[n]) /\ Spelled(Sym, doc[n], parts[n])
    BY DEF Document, Laid
<1>3. Walked(parts[n], A!Walk(parts[n]))
    <2>1. parts[n] \in Seq(Sym)
        BY <1>2 DEF Spelled
    <2> QED
        BY <2>1, WalkIs
<1>4. Through(doc[n], parts[n], A!Walk(parts[n]))
      /\ \A k \in 1..Len(parts[n]) + 1 : at[Ahead(U, n) + k] = Sunk(A!Walk(parts[n])[k], 1)
    BY <1>1 DEF Sunken
<1>5. /\ Ahead(U, n) \in Nat /\ Ahead(U, n) >= 1 /\ Len(parts[n]) \in Nat
      /\ Len(U[n]) = Ahead(U, n) + Len(parts[n]) /\ Len(U[n]) < Len(text)
      /\ \A k \in 1..Len(parts[n]) : text[Ahead(U, n) + k] = parts[n][k]
      /\ text[Len(U[n]) + 1] \in {"comma", "rbrace"}
    BY DEF Document, Laid
<1> QED
    BY <1>2, <1>3, <1>4, <1>5 DEF Placed

LEMMA TextIsLong ==
    ASSUME NEW Sym, NEW m, Member(Sym, m), m.value[1] = "q" PROVE Len(m.value) >= 2
<1>1. Len(m.value) \in Nat /\ Len(m.value) # 0 /\ Walked(m.value, A!Walk(m.value))
      /\ A!Walk(m.value)[Len(m.value) + 1] = A!Outside
    BY LenProperties, WalkIs DEF Member, Whole
<1>0. Len(m.value) >= 2 \/ Len(m.value) = 1
    <2> DEFINE N == Len(m.value)
    <2>1. N \in Nat /\ N # 0
        BY <1>1
    <2> HIDE DEF N
    <2>2. N >= 2 \/ N = 1
        BY <2>1
    <2> QED
        BY <2>2 DEF N
<1> SUFFICES ASSUME Len(m.value) = 1 PROVE FALSE
    BY <1>0
<1>2. A!Walk(m.value)[1] = A!Outside /\ A!Walk(m.value)[1 + 1] = A!Step(A!Walk(m.value)[1], m.value[1])
    BY <1>1 DEF Walked
<1>3. A!Walk(m.value)[1 + 1] = InText /\ A!Walk(m.value)[1 + 1] = A!Outside
    BY <1>1, <1>2, StepsOutside
<1>4. InText.str /\ ~A!Outside.str
    BY DEF InText, A!Outside
<1> QED
    BY <1>3, <1>4

\* The key of a member is found when it is the model's and a text follows.
LEMMA KeyMatches ==
    ASSUME NEW Sym, NEW m, NEW part, NEW o, NEW text, NEW at, NEW wt, Placed(Sym, m, part, o, text, at, wt)
    PROVE  A!MatchEnd(text, at, o + 1) = IF Ours(m) THEN o + Len(part) ELSE 0
<1> DEFINE L == Len(text)
           P == Len(part)
           g == Len(m.gap)
           v == Place(m)
           N == Len(m.value)
<1>1. /\ g \in Nat /\ v \in Nat /\ N \in Nat /\ N # 0 /\ P = v + N /\ v = 4 + g + g
      /\ o \in Nat /\ o >= 1 /\ P \in Nat /\ o + P < L /\ L \in Nat
    <2>1. g \in Nat /\ N \in Nat /\ P = 4 + g + g + N /\ N # 0
        BY DEF Placed, Spelled, Member, Whole
    <2>2. o \in Nat /\ o >= 1 /\ P \in Nat /\ o + P < L /\ L \in Nat
        BY DEF Placed
    <2>3. v = 4 + g + g
        BY DEF Place
    <2> HIDE DEF L, P, g, N, v
    <2> QED
        BY <2>1, <2>2, <2>3
<1>2. /\ part[1] = "q" /\ part[2] = m.key /\ part[3] = "q" /\ part[4 + g] = "colon"
      /\ \A k \in 1..g : part[3 + k] = "sp" /\ part[4 + g + k] = "sp"
      /\ \A k \in 1..N : part[v + k] = m.value[k]
    BY <1>1 DEF Placed, Spelled, Place
<1>3. \A k \in 1..P : text[o + k] = part[k]
    BY DEF Placed
<1>4. m.value[1] # "sp"
    BY DEF Placed, Member, Whole
<1>5. Member(Sym, m) /\ text \in Seq(Sym) /\ Len(text) = L
    BY DEF Placed
<1>6. \A k \in 1..P + 1 : at[o + k] = Sunk(wt[k], 1)
    BY DEF Placed
<1>7. wt[P + 1] = A!Outside /\ (m.value[1] = "q" => \A k \in 2..N : wt[v + k].str)
    BY DEF Placed, Through
<1> HIDE DEF L, P, g, v, N
<1>8. text[o + 1] = "q" /\ text[o + 2] = m.key /\ text[o + 3] = "q"
    <2>1. 1 \in 1..P /\ 2 \in 1..P /\ 3 \in 1..P
        BY <1>1
    <2> QED
        BY <1>2, <1>3, <2>1
<1>9. /\ o + 1 \in Nat /\ o + 1 >= 1 /\ (o + 1) + 2 <= L /\ (o + 1) + 1 = o + 2 /\ (o + 1) + 2 = o + 3
    BY <1>1
<1>10. CASE m.key # "model"
    <2>1. A!MatchEnd(text, at, o + 1) = 0
        BY <1>5, <1>8, <1>9, <1>10, Opens
    <2> QED
        BY <1>10, <2>1 DEF Ours
<1>11. CASE m.key = "model"
    <2>1. A!MatchEnd(text, at, o + 1) = A!StringEnd(text, at, A!ValueStart(text, A!Solid(text, o + 3)))
        BY <1>5, <1>8, <1>9, <1>11, Opens
    <2>2. A!Solid(text, o + 3) = o + (4 + g)
        <3>1. 4 + g \in 1..P /\ o + 3 \in Nat /\ o + (4 + g) \in (o + 3) + 1..L
            BY <1>1
        <3>2. text[o + (4 + g)] # "sp"
            BY <1>2, <1>3, <3>1
        <3>3. ASSUME NEW k \in (o + 3) + 1..(o + (4 + g)) - 1 PROVE text[k] = "sp"
            <4>1. k - (o + 3) \in 1..g /\ 3 + (k - (o + 3)) \in 1..P /\ o + (3 + (k - (o + 3))) = k
                BY <1>1
            <4> QED
                BY <1>2, <1>3, <4>1
        <3> QED
            BY <1>1, <1>5, <3>1, <3>2, <3>3, SolidIs
    <2>3. text[o + (4 + g)] = "colon" /\ o + (4 + g) # 0 /\ o + (4 + g) \in Nat
        <3>1. 4 + g \in 1..P
            BY <1>1
        <3> QED
            BY <1>1, <1>2, <1>3, <3>1
    <2>4. A!ValueStart(text, o + (4 + g)) = A!Solid(text, o + (4 + g))
        BY <2>3 DEF A!ValueStart
    <2>5. v + 1 \in 1..P /\ o + (v + 1) \in (o + (4 + g)) + 1..L /\ 1 \in 1..N
        BY <1>1
    <2>6. text[o + (v + 1)] = m.value[1]
        BY <1>2, <1>3, <2>5
    <2>7. A!Solid(text, o + (4 + g)) = o + (v + 1)
        <3>1. ASSUME NEW k \in (o + (4 + g)) + 1..(o + (v + 1)) - 1 PROVE text[k] = "sp"
            <4>1. /\ k - (o + (4 + g)) \in 1..g /\ 4 + g + (k - (o + (4 + g))) \in 1..P
                  /\ o + (4 + g + (k - (o + (4 + g)))) = k
                BY <1>1
            <4> QED
                BY <1>2, <1>3, <4>1
        <3>2. text[o + (v + 1)] # "sp"
            BY <1>4, <2>6
        <3> QED
            BY <1>1, <1>5, <2>3, <2>5, <3>1, <3>2, SolidIs
    <2>8. A!MatchEnd(text, at, o + 1) = A!StringEnd(text, at, o + (v + 1))
        BY <2>1, <2>2, <2>4, <2>7
    <2>9. CASE m.value[1] # "q"
        <3>1. A!StringEnd(text, at, o + (v + 1)) = 0
            BY <2>6, <2>9 DEF A!StringEnd
        <3> QED
            BY <2>8, <2>9, <3>1 DEF Ours
    <2>10. CASE m.value[1] = "q"
        <3>1. N >= 2
            BY <1>5, <2>10, TextIsLong DEF N
        <3>2. /\ o + (v + 1) \in Nat /\ o + (v + 1) # 0 /\ o + P \in (o + (v + 1)) + 1..L
            BY <1>1, <3>1
        <3>3. ~at[o + P + 1].str
            <4>1. P + 1 \in 1..P + 1 /\ o + (P + 1) = o + P + 1
                BY <1>1
            <4>2. at[o + P + 1] = Sunk(A!Outside, 1)
                BY <1>6, <1>7, <4>1
            <4> QED
                BY <4>2 DEF Sunk, A!Outside
        <3>4. ASSUME NEW k \in (o + (v + 1)) + 1..(o + P) - 1 PROVE at[k + 1].str
            <4>1. /\ k + 1 - (o + v) \in 2..N /\ v + (k + 1 - (o + v)) \in 1..P + 1
                  /\ o + (v + (k + 1 - (o + v))) = k + 1
                BY <1>1
            <4>2. wt[v + (k + 1 - (o + v))].str
                BY <1>7, <2>10, <4>1
            <4>3. at[k + 1] = Sunk(wt[v + (k + 1 - (o + v))], 1)
                BY <1>6, <4>1
            <4> QED
                BY <4>2, <4>3 DEF Sunk
        <3>5. text[o + (v + 1)] = "q"
            BY <2>6, <2>10
        <3>6. A!StringEnd(text, at, o + (v + 1)) = o + P
            BY <1>1, <1>5, <3>2, <3>3, <3>4, <3>5, StringEndIs
        <3> QED
            BY <1>11, <2>8, <2>10, <3>6 DEF Ours, P
    <2> QED
        BY <2>9, <2>10
<1> QED
    BY <1>10, <1>11

\* No text is mistaken for a key: no colon follows it.
LEMMA ValueDoesNot ==
    ASSUME NEW Sym, NEW m, NEW part, NEW o, NEW text, NEW at, NEW wt, Placed(Sym, m, part, o, text, at, wt),
           m.value[1] = "q"
    PROVE  A!MatchEnd(text, at, o + (Place(m) + 1)) = 0
<1> DEFINE L == Len(text)
           P == Len(part)
           v == Place(m)
           N == Len(m.value)
           j == o + (v + 1)
<1>1. /\ v \in Nat /\ N \in Nat /\ P = v + N /\ o \in Nat /\ o >= 1 /\ P \in Nat /\ o + P < L /\ L \in Nat
    <2> DEFINE g == Len(m.gap)
    <2>1. g \in Nat /\ N \in Nat /\ P = 4 + g + g + N
        BY DEF Placed, Spelled
    <2>2. o \in Nat /\ o >= 1 /\ P \in Nat /\ o + P < L /\ L \in Nat
        BY DEF Placed
    <2>3. v = 4 + g + g
        BY DEF Place
    <2> HIDE DEF L, P, g, N, v
    <2> QED
        BY <2>1, <2>2, <2>3
<1>2. N >= 2
    BY TextIsLong DEF Placed
<1>3. \A k \in 1..N : part[v + k] = m.value[k]
    BY <1>1 DEF Placed, Spelled, Place
<1>4. (\A k \in 1..P : text[o + k] = part[k]) /\ text[o + P + 1] \in {"comma", "rbrace"}
    BY DEF Placed
<1>5. text \in Seq(Sym) /\ Len(text) = L
    BY DEF Placed
<1>6. wt[v + 1] = A!Outside /\ (\A k \in 2..N : wt[v + k].str) /\ \A k \in 1..P : wt[k + 1] = A!Step(wt[k], part[k])
    BY DEF Placed, Through, Walked
<1> HIDE DEF L, P, v, N
<1>7. \A k \in 1..N : text[o + (v + k)] = m.value[k] /\ wt[v + k + 1] = A!Step(wt[v + k], m.value[k])
    <2>1. \A k \in 1..N : v + k \in 1..P
        BY <1>1
    <2> QED
        BY <1>3, <1>4, <1>6, <2>1
<1>8. j \in Nat /\ j >= 1 /\ j + 1 = o + (v + 2) /\ j + 2 = o + (v + 3)
    BY <1>1
<1>9. 1 \in 1..N /\ 2 \in 1..N
    BY <1>1, <1>2
<1> HIDE DEF j
<1>10. CASE ~(j + 2 <= Len(text) /\ text[j] = "q" /\ text[j + 1] = "model" /\ text[j + 2] = "q")
    <2>1. A!MatchEnd(text, at, j) = 0
        BY <1>5, <1>8, <1>10, Opens
    <2> QED
        BY <2>1 DEF j, v
<1>11. CASE j + 2 <= Len(text) /\ text[j] = "q" /\ text[j + 1] = "model" /\ text[j + 2] = "q"
    <2>1. A!MatchEnd(text, at, j) = A!StringEnd(text, at, A!ValueStart(text, A!Solid(text, j + 2)))
        BY <1>5, <1>8, <1>11, Opens
    <2>2. m.value[2] = "model"
        BY <1>7, <1>8, <1>9, <1>11
    <2>3. N # 2
        <3> SUFFICES ASSUME N = 2 PROVE FALSE
            OBVIOUS
        <3>1. o + P + 1 = j + 2
            BY <1>1, <1>8
        <3> QED
            BY <1>4, <1>11, <3>1
    <2>4. 3 \in 1..N /\ N >= 3
        BY <1>1, <1>2, <2>3
    <2>5. m.value[3] = "q"
        BY <1>7, <1>8, <1>11, <2>4
    <2>6. v + 1 + 1 = v + 2 /\ v + 2 + 1 = v + 3 /\ v + 3 + 1 = v + 4
        BY <1>1
    <2>7. wt[v + 2] = InText
        BY <1>6, <1>7, <1>9, <2>6, StepsOutside
    <2>8. wt[v + 3] = InText
        <3>1. wt[v + 3] = A!Step(wt[v + 2], m.value[2])
            BY <1>7, <1>9, <2>6
        <3>2. A!Step(InText, "model") = InText
            BY StepsOutside
        <3> QED
            BY <2>2, <2>7, <3>1, <3>2
    <2>9. wt[v + 4] = A!Outside
        <3>1. wt[v + 4] = A!Step(wt[v + 3], m.value[3])
            BY <1>7, <2>4, <2>6
        <3> QED
            BY <2>5, <2>8, <3>1, StepsOutside
    <2>10. N = 3
        <3> SUFFICES ASSUME N # 3 PROVE FALSE
            OBVIOUS
        <3>1. 4 \in 2..N
            BY <1>1, <2>4
        <3>2. wt[v + 4].str
            BY <1>6, <3>1
        <3> QED
            BY <2>9, <3>2 DEF A!Outside
    <2>11. j + 2 = o + P /\ (j + 2) + 1 = o + P + 1 /\ j + 2 \in Nat /\ (j + 2) + 1 \in (j + 2) + 1..L
           /\ (j + 2) + 1 \in Nat
        BY <1>1, <1>8, <2>10
    <2>12. A!Solid(text, j + 2) = (j + 2) + 1
        <3>1. text[(j + 2) + 1] # "sp"
            BY <1>4, <2>11
        <3>2. \A k \in (j + 2) + 1..((j + 2) + 1) - 1 : FALSE
            BY <2>11
        <3> QED
            BY <1>1, <1>5, <2>11, <3>1, <3>2, SolidIs
    <2>13. text[(j + 2) + 1] # "colon"
        BY <1>4, <2>11
    <2>14. A!ValueStart(text, (j + 2) + 1) = 0
        BY <2>13 DEF A!ValueStart
    <2>15. A!StringEnd(text, at, 0) = 0
        BY DEF A!StringEnd
    <2>16. A!MatchEnd(text, at, j) = 0
        BY <2>1, <2>12, <2>14, <2>15
    <2> QED
        BY <2>16 DEF j, v
<1> QED
    BY <1>10, <1>11

\* A quote among the members is one of a key or of a value.
LEMMA QuotesAmongMembers ==
    ASSUME NEW Sym, NEW doc, NEW parts, NEW U, NEW text, NEW at, Document(Sym, doc, parts, U, text, at),
           NEW j \in 2..Len(text), text[j] = "q", ~at[j].str, at[j].depth = 1
    PROVE  \E n \in 1..Len(parts) :
              j = Ahead(U, n) + 1 \/ (j = Ahead(U, n) + (Place(doc[n]) + 1) /\ doc[n].value[1] = "q")
<1>1. /\ Len(text) \in Nat /\ text[Len(text)] = "rbrace"
      /\ \A n \in 1..Len(parts) : Ahead(U, n) \in Nat /\ (n # 1 => text[Ahead(U, n)] = "comma")
      /\ \A i \in 2..Len(text) - 1 :
          \E n \in 1..Len(parts) :
             (n # 1 /\ i = Ahead(U, n)) \/ \E k \in 1..Len(parts[n]) : i = Ahead(U, n) + k
    BY DEF Document, Laid
<1>2. j \in 2..Len(text) - 1
    BY <1>1
<1>3. PICK n \in 1..Len(parts) : (n # 1 /\ j = Ahead(U, n)) \/ \E k \in 1..Len(parts[n]) : j = Ahead(U, n) + k
    BY <1>1, <1>2
<1>4. PICK k \in 1..Len(parts[n]) : j = Ahead(U, n) + k
    BY <1>1, <1>3
<1> DEFINE m == doc[n]
           part == parts[n]
           wt == A!Walk(part)
           o == Ahead(U, n)
<1>5. Placed(Sym, m, part, o, text, at, wt)
    BY MembersArePlaced
<1> HIDE DEF m, part, wt, o
<1>6. k \in 1..Len(part) /\ j = o + k
    BY <1>4 DEF part, o
<1>7. /\ Len(part) \in Nat /\ text[j] = part[k] /\ k \in 1..Len(part) + 1
    BY <1>5, <1>6 DEF Placed
<1>8. at[j] = Sunk(wt[k], 1) /\ wt[k] \in Stands
    BY <1>5, <1>6, <1>7 DEF Placed, Through
<1>9. ~wt[k].str /\ wt[k].depth = 0 /\ part[k] = "q"
    <2>1. at[j].str = wt[k].str /\ at[j].depth = wt[k].depth + 1 /\ wt[k].depth \in Int
        BY <1>8 DEF Sunk, Stands
    <2> QED
        BY <1>7, <2>1
<1>10. k \in {1, Place(m) + 1}
    BY <1>5, <1>6, <1>9 DEF Placed, Through
<1>11. CASE k = 1
    BY <1>6, <1>11 DEF o
<1>12. CASE k = Place(m) + 1
    <2>1. Spelled(Sym, m, part) /\ Len(m.value) # 0
        BY <1>5 DEF Placed, Member, Whole
    <2> DEFINE N == Len(m.value)
               v == Place(m)
    <2>2. N \in Nat /\ N # 0 /\ \A i \in 1..N : part[v + i] = m.value[i]
        BY <2>1 DEF Spelled, Place
    <2> HIDE DEF N, v
    <2>3. part[v + 1] = m.value[1]
        BY <2>2
    <2>4. m.value[1] = "q"
        BY <1>9, <1>12, <2>3 DEF v
    <2> QED
        BY <1>6, <1>12, <2>4 DEF o, m
<1> QED
    BY <1>10, <1>11, <1>12

\* What is found: the member that is ours.
Located(doc, parts, U, text) ==
    IF \A n \in 1..Len(parts) : ~Ours(doc[n]) THEN A!FindTopLevelModel(text) = NULL
    ELSE \E n \in 1..Len(parts) :
            Ours(doc[n]) /\ A!FindTopLevelModel(text) = <<Ahead(U, n) + 1, Ahead(U, n) + Len(parts[n])>>

LEMMA FoundIs ==
    ASSUME NEW Sym, NEW doc, NEW parts, NEW U, NEW text, Document(Sym, doc, parts, U, text, A!Walk(text)),
           \A n, i \in 1..Len(parts) : Ours(doc[n]) /\ Ours(doc[i]) => n = i
    PROVE  Located(doc, parts, U, text)
<1> DEFINE at == A!Walk(text)
           L == Len(text)
           starts == A!MembersOf(text, at, 1)
           found == {i \in starts : ~at[i].str /\ A!MatchEnd(text, at, i) # 0}
<1>1. Document(Sym, doc, parts, U, text, at) /\ Sunken(doc, parts, U, text, at)
    BY DocumentWalked
<1>2. text \in Seq(Sym) /\ L \in Nat /\ L >= 2 /\ text[1] = "lbrace" /\ Len(text) = L /\ DOMAIN text = 1..L
    BY <1>1, LenProperties DEF Document, Laid
<1>3. at[1] = A!Outside /\ \A j \in 2..L : at[j] \in Stands /\ at[j].depth >= 1
    BY <1>1 DEF Sunken
<1>4. ASSUME NEW n \in 1..Len(parts)
      PROVE  Placed(Sym, doc[n], parts[n], Ahead(U, n), text, at, A!Walk(parts[n]))
    BY <1>1, MembersArePlaced
<1> HIDE DEF at, L
<1>5. A!RootStarts(text, at) = 1
    <2> DEFINE roots == {i \in DOMAIN text : text[i] = "lbrace" /\ ~at[i].str /\ at[i].depth = 0}
    <2>1. roots \subseteq Nat /\ 1 \in roots /\ \A y \in roots : 1 <= y
        BY <1>2, <1>3, StepsOutside
    <2> HIDE DEF roots
    <2>2. A!First(roots) = 1
        BY <2>1, FirstIs
    <2> QED
        BY <2>2 DEF A!RootStarts, roots
<1>6. A!FindTopLevelModel(text) = A!FirstMatch(text, at, starts)
    BY <1>5 DEF A!FindTopLevelModel, at
<1>7. starts = {i \in 2..L : at[i].depth = 1}
    <2>1. starts = {i \in 2..L : at[i].depth = 1 /\ \A k \in 1..i - 1 : at[k + 1].depth >= 1}
        BY <1>2 DEF A!MembersOf
    <2>2. \A i \in 2..L : \A k \in 1..i - 1 : k + 1 \in 2..L
        BY <1>2
    <2> QED
        BY <1>3, <2>1, <2>2
<1> HIDE DEF starts
<1>8. ASSUME NEW n \in 1..Len(parts)
      PROVE  /\ Ahead(U, n) \in Nat /\ Ahead(U, n) >= 1 /\ Ahead(U, n) + 1 \in 2..L
             /\ Ahead(U, n) + Len(parts[n]) # 0
             /\ A!MatchEnd(text, at, Ahead(U, n) + 1) = IF Ours(doc[n]) THEN Ahead(U, n) + Len(parts[n]) ELSE 0
             /\ ~at[Ahead(U, n) + 1].str /\ at[Ahead(U, n) + 1].depth = 1
    <2>1. /\ Ahead(U, n) \in Nat /\ Ahead(U, n) >= 1 /\ Len(parts[n]) \in Nat /\ Ahead(U, n) + Len(parts[n]) < L
          /\ \A k \in 1..Len(parts[n]) + 1 : at[Ahead(U, n) + k] = Sunk(A!Walk(parts[n])[k], 1)
          /\ A!Walk(parts[n])[1] = A!Outside
        BY <1>4 DEF Placed, Through, L
    <2>2. at[Ahead(U, n) + 1] = Sunk(A!Outside, 1)
        <3>1. 1 \in 1..Len(parts[n]) + 1
            BY <2>1
        <3> QED
            BY <2>1, <3>1
    <2>3. ~at[Ahead(U, n) + 1].str /\ at[Ahead(U, n) + 1].depth = 1
        BY <2>2 DEF Sunk, A!Outside
    <2>4. Ahead(U, n) + 1 \in 2..L /\ Ahead(U, n) + Len(parts[n]) # 0
        BY <1>2, <2>1
    <2>5. A!MatchEnd(text, at, Ahead(U, n) + 1) = IF Ours(doc[n]) THEN Ahead(U, n) + Len(parts[n]) ELSE 0
        BY <1>4, KeyMatches
    <2> QED
        BY <2>1, <2>3, <2>4, <2>5
<1>9. ASSUME NEW j \in found
      PROVE  \E n \in 1..Len(parts) : Ours(doc[n]) /\ j = Ahead(U, n) + 1
    <2>1. j \in 2..L /\ at[j].depth = 1 /\ ~at[j].str /\ A!MatchEnd(text, at, j) # 0
        BY <1>7, <1>9
    <2>2. j \in Nat /\ j >= 1 /\ j \in 2..Len(text)
        BY <1>2, <2>1
    <2>3. text[j] = "q"
        BY <1>2, <2>1, <2>2, Opens
    <2>4. PICK n \in 1..Len(parts) :
              j = Ahead(U, n) + 1 \/ (j = Ahead(U, n) + (Place(doc[n]) + 1) /\ doc[n].value[1] = "q")
        BY <1>1, <2>1, <2>2, <2>3, QuotesAmongMembers
    <2>5. j = Ahead(U, n) + 1
        <3> SUFFICES ASSUME j = Ahead(U, n) + (Place(doc[n]) + 1), doc[n].value[1] = "q" PROVE FALSE
            BY <2>4
        <3>1. A!MatchEnd(text, at, Ahead(U, n) + (Place(doc[n]) + 1)) = 0
            BY <1>4, ValueDoesNot
        <3> QED
            BY <2>1, <3>1
    <2>6. Ours(doc[n])
        <3> SUFFICES ASSUME ~Ours(doc[n]) PROVE FALSE
            OBVIOUS
        <3>1. A!MatchEnd(text, at, Ahead(U, n) + 1) = 0
            BY <1>8
        <3> QED
            BY <2>1, <2>5, <3>1
    <2> QED
        BY <2>5, <2>6
<1>10. ASSUME NEW n \in 1..Len(parts), Ours(doc[n]) PROVE Ahead(U, n) + 1 \in found
    <2>1. A!MatchEnd(text, at, Ahead(U, n) + 1) = Ahead(U, n) + Len(parts[n])
        BY <1>8, <1>10
    <2> QED
        BY <1>7, <1>8, <2>1
<1>11. A!FirstMatch(text, at, starts)
           = IF found = {} THEN NULL ELSE <<A!Min(found), A!MatchEnd(text, at, A!Min(found))>>
    BY DEF A!FirstMatch
<1> HIDE DEF found
<1>12. CASE \A n \in 1..Len(parts) : ~Ours(doc[n])
    <2>1. found = {}
        BY <1>9, <1>12
    <2> QED
        BY <1>6, <1>11, <1>12, <2>1 DEF Located
<1>13. CASE ~ \A n \in 1..Len(parts) : ~Ours(doc[n])
    <2>1. PICK n \in 1..Len(parts) : Ours(doc[n])
        BY <1>13
    <2>2. Ahead(U, n) + 1 \in found
        BY <1>10, <2>1
    <2>3. \A j \in found : j = Ahead(U, n) + 1
        BY <1>9, <2>1
    <2>4. found = {Ahead(U, n) + 1}
        BY <2>2, <2>3
    <2>5. A!Min(found) = Ahead(U, n) + 1 /\ found # {}
        <3>1. Ahead(U, n) + 1 \in Nat
            BY <1>8
        <3> QED
            BY <2>4, <3>1 DEF A!Min
    <2>6. A!MatchEnd(text, at, Ahead(U, n) + 1) = Ahead(U, n) + Len(parts[n])
        BY <1>8, <2>1
    <2>7. A!FindTopLevelModel(text) = <<Ahead(U, n) + 1, Ahead(U, n) + Len(parts[n])>>
        BY <1>6, <1>11, <2>5, <2>6
    <2> QED
        BY <1>13, <2>1, <2>7 DEF Located
<1> QED
    BY <1>12, <1>13

LEMMA ListIs == ASSUME NEW Of, NEW N \in Nat, NEW f \in [1..N -> Of] PROVE f \in Seq(Of) /\ Len(f) = N
<1>1. f \in Seq(Of)
    BY SeqDef
<1>2. Len(f) \in Nat /\ DOMAIN f = 1..Len(f)
    BY <1>1, LenProperties
<1>3. DOMAIN f = 1..N
    OBVIOUS
<1> DEFINE M == Len(f)
<1>4. M \in Nat /\ 1..M = 1..N
    BY <1>2, <1>3
<1> HIDE DEF M
<1>5. M = N
    <2>1. M # 0 => M \in 1..N
        BY <1>4
    <2>2. N # 0 => N \in 1..M
        BY <1>4
    <2> QED
        BY <1>4, <2>1, <2>2
<1> QED
    BY <1>1, <1>5 DEF M

Moves(a, b, c) == (a \o b) \o c = a \o (b \o c)
Moves2(a, b, c, d) == ((a \o b) \o c) \o d = a \o ((b \o c) \o d)

LEMMA Shifted ==
    ASSUME NEW Of, NEW a \in Seq(Of), NEW b \in Seq(Of), NEW c \in Seq(Of) PROVE Moves(a, b, c)
BY ConcatAssociative DEF Moves

LEMMA Moved ==
    ASSUME NEW Of, NEW a \in Seq(Of), NEW b \in Seq(Of), NEW c \in Seq(Of), NEW d \in Seq(Of)
    PROVE  Moves2(a, b, c, d)
<1>1. (a \o b) \o c = a \o (b \o c)
    BY ConcatAssociative
<1>2. b \o c \in Seq(Of)
    BY ConcatProperties
<1>3. (a \o (b \o c)) \o d = a \o ((b \o c) \o d)
    BY <1>2, ConcatAssociative
<1> QED
    BY <1>1, <1>3 DEF Moves2

LEMMA AppendJoined == ASSUME NEW Of, NEW a \in Seq(Of), NEW x \in Of PROVE Append(a, x) = a \o <<x>> /\ <<x>> \in Seq(Of)
<1>1. Append(a, x) = a \o <<x>>
    BY AppendIsConcat
<1>2. <<x>> \in Seq(Of)
    OBVIOUS
<1> QED
    BY <1>1, <1>2

\* Two documents that differ in a member differ nowhere else.
Framed(Of, parts, others, i, U, text, new) ==
    \E rest \in Seq(Of) :
       text = (Lead(U, i) \o parts[i]) \o rest /\ new = (Lead(U, i) \o others[i]) \o rest

LEMMA FramedIs ==
    ASSUME NEW Sym, Atoms(Sym), NEW parts \in Seq(Seq(Sym)), NEW others \in Seq(Seq(Sym)),
           Len(others) = Len(parts), NEW i \in 1..Len(parts),
           \A n \in 1..Len(parts) : n # i => others[n] = parts[n],
           NEW U, NEW V, NEW text, NEW new, Built(Sym, parts, U, text), Built(Sym, others, V, new)
    PROVE  Framed(Sym, parts, others, i, U, text, new)
<1> DEFINE N == Len(parts)
           c == <<"comma">>
           r == <<"rbrace">>
           C == Lead(U, i)
           x == C \o parts[i]
           y == C \o others[i]
<1>1. /\ N \in Nat /\ U[0] = V[0] /\ text = Append(U[N], "rbrace") /\ new = Append(V[N], "rbrace")
      /\ \A n \in 0..N : U[n] \in Seq(Sym) /\ V[n] \in Seq(Sym)
      /\ \A n \in 1..N : U[n] = Lead(U, n) \o parts[n] /\ V[n] = Lead(V, n) \o others[n]
    BY DEF Built
<1>2. \A n \in 1..N : parts[n] \in Seq(Sym) /\ others[n] \in Seq(Sym)
    BY ElementOfSeq
<1>3. c \in Seq(Sym) /\ r \in Seq(Sym) /\ \A u \in Seq(Sym) : Append(u, "comma") = u \o c /\ Append(u, "rbrace") = u \o r
    <2>1. "comma" \in Sym /\ "rbrace" \in Sym
        BY DEF Atoms
    <2>2. \A u \in Seq(Sym) : Append(u, "comma") = u \o c /\ <<"comma">> \in Seq(Sym)
        BY <2>1, AppendJoined
    <2>3. \A u \in Seq(Sym) : Append(u, "rbrace") = u \o r /\ <<"rbrace">> \in Seq(Sym)
        BY <2>1, AppendJoined
    <2>4. U[0] \in Seq(Sym)
        BY <1>1
    <2> QED
        BY <2>2, <2>3, <2>4
<1>4. \A n \in 1..N : n # 1 => Lead(U, n) = Append(U[n - 1], "comma") /\ Lead(V, n) = Append(V[n - 1], "comma")
    BY DEF Lead
<1>5. Lead(U, 1) = U[0] /\ Lead(V, 1) = V[0]
    BY DEF Lead
<1> HIDE DEF N, c, r
<1> DEFINE same == {n \in 0..N : n < i => U[n] = V[n]}
<1>6. 0 \in same
    BY <1>1
<1>7. ASSUME NEW n \in 0..N, n + 1 \in 0..N, n \in same PROVE n + 1 \in same
    <2> SUFFICES ASSUME n + 1 < i PROVE U[n + 1] = V[n + 1]
        BY <1>7
    <2>1. n + 1 \in 1..N /\ (n + 1) - 1 = n /\ n + 1 # i /\ i \in Nat /\ n < i
        BY <1>1, <1>7
    <2>2. U[n] = V[n]
        BY <1>7, <2>1
    <2>3. Lead(U, n + 1) = Lead(V, n + 1)
        BY <2>1, <2>2, <1>1 DEF Lead
    <2>4. others[n + 1] = parts[n + 1]
        BY <2>1 DEF N
    <2> QED
        BY <1>1, <2>1, <2>3, <2>4
<1> HIDE DEF same
<1>8. 0..N \subseteq same
    BY <1>1, <1>6, <1>7, CountingUp
<1>9. i \in 1..N /\ i - 1 \in 0..N /\ i - 1 < i /\ i \in Nat
    BY <1>1 DEF N
<1>10. C = Lead(V, i)
    <2>1. U[i - 1] = V[i - 1]
        BY <1>8, <1>9 DEF same
    <2> QED
        BY <1>1, <2>1 DEF Lead
<1>11. C \in Seq(Sym)
    <2>1. CASE i = 1
        <3>1. 0 \in 0..N
            BY <1>1
        <3> QED
            BY <1>1, <1>5, <2>1, <3>1
    <2>2. CASE i # 1
        <3>1. U[i - 1] \in Seq(Sym)
            BY <1>1, <1>9
        <3>2. C = U[i - 1] \o c
            BY <1>3, <1>4, <1>9, <2>2, <3>1
        <3> QED
            BY <1>3, <3>1, <3>2, ConcatProperties
    <2> QED
        BY <2>1, <2>2
<1> HIDE DEF C
<1>12. parts[i] \in Seq(Sym) /\ others[i] \in Seq(Sym)
    BY <1>2, <1>9
<1>13. x \in Seq(Sym) /\ y \in Seq(Sym) /\ U[i] = x /\ V[i] = y
    <2>1. U[i] = C \o parts[i] /\ V[i] = C \o others[i]
        BY <1>1, <1>9, <1>10 DEF C
    <2> QED
        BY <1>11, <1>12, <2>1, ConcatProperties
<1> HIDE DEF x, y
<1> DEFINE Rest(n) == \E rest \in Seq(Sym) : U[n] = x \o rest /\ V[n] = y \o rest
           good == {n \in 0..N : n >= i => Rest(n)}
<1>14. 0 \in good
    BY <1>1, <1>9
<1>15. ASSUME NEW n \in 0..N, n + 1 \in 0..N, n \in good PROVE n + 1 \in good
    <2> SUFFICES ASSUME n + 1 >= i PROVE Rest(n + 1)
        BY <1>15
    <2>1. n + 1 \in 1..N /\ (n + 1) - 1 = n
        BY <1>1, <1>15
    <2>2. CASE n + 1 = i
        <3> DEFINE none == <<>>
        <3>1. none \in Seq(Sym)
            BY EmptySeq
        <3>2. x = x \o none /\ y = y \o none
            BY <1>13, ConcatEmptySeq
        <3> HIDE DEF none
        <3>3. U[n + 1] = x \o none /\ V[n + 1] = y \o none
            BY <1>13, <2>2, <3>2
        <3> QED
            BY <3>1, <3>3
    <2>3. CASE n + 1 # i
        <3>1. n >= i /\ n + 1 # 1 /\ n + 1 # i
            BY <1>9, <2>1, <2>3
        <3>2. Rest(n)
            BY <1>15, <3>1
        <3>3. PICK rest \in Seq(Sym) : U[n] = x \o rest /\ V[n] = y \o rest
            BY <3>2
        <3> DEFINE p == parts[n + 1]
        <3>4. p \in Seq(Sym) /\ others[n + 1] = p
            BY <1>2, <2>1, <3>1 DEF N
        <3>5. U[n] \in Seq(Sym) /\ V[n] \in Seq(Sym)
            BY <1>1, <1>15
        <3>6. Lead(U, n + 1) = Append(U[n], "comma") /\ Lead(V, n + 1) = Append(V[n], "comma")
            BY <1>4, <2>1, <3>1
        <3>7. U[n + 1] = ((x \o rest) \o c) \o p /\ V[n + 1] = ((y \o rest) \o c) \o p
            BY <1>1, <1>3, <2>1, <3>3, <3>4, <3>5, <3>6
        <3> HIDE DEF p
        <3> x \in Seq(Sym) /\ y \in Seq(Sym) /\ c \in Seq(Sym) /\ p \in Seq(Sym)
            BY <1>3, <1>13, <3>4
        <3>8. Moves2(x, rest, c, p)
            BY Moved
        <3>9. Moves2(y, rest, c, p)
            BY Moved
        <3> DEFINE more == (rest \o c) \o p
        <3>10. more \in Seq(Sym)
            <4>1. rest \o c \in Seq(Sym)
                BY <1>3, ConcatProperties
            <4> QED
                BY <3>4, <4>1, ConcatProperties
        <3>11. U[n + 1] = x \o more /\ V[n + 1] = y \o more
            BY <3>7, <3>8, <3>9 DEF Moves2
        <3> HIDE DEF more
        <3> QED
            BY <3>10, <3>11
    <2> QED
        BY <2>2, <2>3
<1> HIDE DEF good, Rest
<1>16. 0..N \subseteq good
    BY <1>1, <1>14, <1>15, CountingUp
<1>17. Rest(N)
    <2>1. N \in 0..N /\ N >= i
        BY <1>1, <1>9
    <2> QED
        BY <1>16, <2>1 DEF good
<1>18. PICK rest \in Seq(Sym) : U[N] = x \o rest /\ V[N] = y \o rest
    BY <1>17 DEF Rest
<1>19. U[N] \in Seq(Sym) /\ V[N] \in Seq(Sym)
    <2>1. N \in 0..N
        BY <1>1
    <2> QED
        BY <1>1, <2>1
<1>20. text = (x \o rest) \o r /\ new = (y \o rest) \o r
    BY <1>1, <1>3, <1>18, <1>19
<1>21. (x \o rest) \o r = x \o (rest \o r) /\ (y \o rest) \o r = y \o (rest \o r)
    <2> x \in Seq(Sym) /\ y \in Seq(Sym) /\ r \in Seq(Sym)
        BY <1>3, <1>13
    <2>1. Moves(x, rest, r)
        BY Shifted
    <2>2. Moves(y, rest, r)
        BY Shifted
    <2> QED
        BY <2>1, <2>2 DEF Moves
<1> DEFINE more == rest \o r
<1>22. more \in Seq(Sym)
    BY <1>3, ConcatProperties
<1>23. text = x \o more /\ new = y \o more
    BY <1>20, <1>21
<1> HIDE DEF more
<1>24. \E end \in Seq(Sym) : text = x \o end /\ new = y \o end
    BY <1>22, <1>23
<1> QED
    BY <1>24 DEF Framed, x, y, C

\* What is cut out of a text that was put together.
Glued(text, a, b, c) == text = (a \o b) \o c
CutsBack(text, a, b, c) ==
    SubSeq(text, 1, Len(a)) = a /\ SubSeq(text, Len(a) + Len(b) + 1, Len(text)) = c

LEMMA CutOut ==
    ASSUME NEW Of, NEW a \in Seq(Of), NEW b \in Seq(Of), NEW c \in Seq(Of), NEW text,
           Glued(text, a, b, c), Len(a) >= 1, Len(c) >= 1
    PROVE  CutsBack(text, a, b, c)
<1>0. text = (a \o b) \o c
    BY DEF Glued
<1>1. Len(a) \in Nat /\ Len(b) \in Nat /\ Len(c) \in Nat
    BY LenProperties
<1> DEFINE x == a \o b
           w == b \o c
           p == Len(a)
           q == Len(b)
           s == Len(c)
<1>2. x \in Seq(Of) /\ Len(x) = p + q /\ w \in Seq(Of)
    BY ConcatProperties
<1>3. text = x \o c /\ Len(text) = (p + q) + s
    BY <1>0, <1>2, ConcatProperties
<1>4. text = a \o w
    <2>1. Moves(a, b, c)
        BY Shifted
    <2> QED
        BY <1>0, <2>1 DEF Moves
<1>5. p \in Nat /\ q \in Nat /\ s \in Nat /\ p >= 1 /\ s >= 1
    BY <1>1
<1> HIDE DEF x, w, p, q, s
<1>6. SubSeq(text, 1, p) = a
    <2>1. 1 \in 1..Len(a) /\ p \in 1..Len(a)
        BY <1>5 DEF p
    <2>2. SubSeq(a \o w, 1, p) = SubSeq(a, 1, p)
        BY <1>2, <2>1, SubSeqOfConcat1
    <2>3. SubSeq(a, 1, p) = a
        BY SubSeqFull DEF p
    <2> QED
        BY <1>4, <2>2, <2>3
<1>7. SubSeq(text, p + q + 1, Len(text)) = c
    <2>1. /\ p + q + 1 \in Len(x) + 1..Len(x) + Len(c) /\ (p + q) + s \in Len(x) + 1..Len(x) + Len(c)
        BY <1>2, <1>5 DEF s
    <2>2. SubSeq(x \o c, p + q + 1, (p + q) + s) = SubSeq(c, (p + q + 1) - Len(x), ((p + q) + s) - Len(x))
        BY <1>2, <2>1, SubSeqOfConcat2
    <2>3. (p + q + 1) - Len(x) = 1 /\ ((p + q) + s) - Len(x) = s
        BY <1>2, <1>5
    <2>4. SubSeq(c, 1, s) = c
        BY SubSeqFull DEF s
    <2> QED
        BY <1>3, <2>2, <2>3, <2>4
<1> QED
    BY <1>6, <1>7 DEF p, q, CutsBack

\* A document as a client writes one: it names its model once.
Legible(Sym, doc) ==
    /\ Len(doc) \in Nat /\ DOMAIN doc = 1..Len(doc)
    /\ \A n \in 1..Len(doc) : Member(Sym, doc[n])
    /\ \A n, i \in 1..Len(doc) : Ours(doc[n]) /\ Ours(doc[i]) => n = i

\* The parts of a document.
LEMMA PartsOf ==
    ASSUME NEW Sym, Atoms(Sym), NEW doc, Legible(Sym, doc), NEW parts,
           parts = [i \in DOMAIN doc |-> A!Written(doc[i])]
    PROVE  /\ parts \in Seq(Seq(Sym)) /\ Len(parts) = Len(doc)
           /\ \A n \in 1..Len(doc) : parts[n] = A!Written(doc[n]) /\ Spelled(Sym, doc[n], parts[n])
<1> DEFINE N == Len(doc)
<1>1. N \in Nat /\ DOMAIN doc = 1..N /\ \A n \in 1..N : Member(Sym, doc[n])
    BY DEF Legible
<1>2. \A n \in 1..N : parts[n] = A!Written(doc[n])
    BY <1>1
<1>3. ASSUME NEW n \in 1..N PROVE Spelled(Sym, doc[n], A!Written(doc[n]))
    BY <1>1, WrittenIs DEF Atoms
<1>4. \A n \in 1..N : A!Written(doc[n]) \in Seq(Sym)
    BY <1>3 DEF Spelled
<1> HIDE DEF N
<1>5. parts \in [1..N -> Seq(Sym)]
    BY <1>1, <1>4
<1>6. parts \in Seq(Seq(Sym)) /\ Len(parts) = N
    BY <1>1, <1>5, ListIs
<1> QED
    BY <1>2, <1>3, <1>6 DEF N

LEMMA BuiltIn ==
    ASSUME NEW Sym, NEW All, Sym \subseteq All, NEW parts, NEW U, NEW text, Built(Sym, parts, U, text)
    PROVE  Built(All, parts, U, text)
<1>1. \A n \in 0..Len(parts) : U[n] \in Seq(All)
    BY SeqMonotonic DEF Built
<1> QED
    BY <1>1 DEF Built

\* The edit is that of the member that is ours.
LEMMA RewritesOurs ==
    ASSUME NEW Sym, Atoms(Sym), "ff" \notin Sym, NULL \notin Nat \X Nat,
           NEW doc, Legible(Sym, doc), NEW served, served # NULL
    PROVE  A!RewriteModel(A!Rendered(doc), served) = A!Edited(doc, served)
<1> DEFINE N == Len(doc)
           parts == [i \in DOMAIN doc |-> A!Written(doc[i])]
           others == [i \in DOMAIN doc |-> A!Renamed(doc[i], served)]
           T == A!Braced(parts)
           E == A!Braced(others)
           named == A!Text("model") \o <<"colon", "sp">> \o A!Text(served)
<1>1. A!Rendered(doc) = T /\ A!Edited(doc, served) = E
    BY DEF A!Rendered, A!Edited
<1>2. /\ N \in Nat /\ DOMAIN doc = 1..N /\ Len(doc) = N
      /\ \A n \in 1..N : Member(Sym, doc[n])
      /\ \A n, i \in 1..N : Ours(doc[n]) /\ Ours(doc[i]) => n = i
    BY DEF Legible
<1>3. /\ parts \in Seq(Seq(Sym)) /\ Len(parts) = N
      /\ \A n \in 1..N : parts[n] = A!Written(doc[n]) /\ Spelled(Sym, doc[n], parts[n])
    <2> DEFINE p == parts
    <2>1. p = [i \in DOMAIN doc |-> A!Written(doc[i])]
        OBVIOUS
    <2> HIDE DEF p
    <2>2. /\ p \in Seq(Seq(Sym)) /\ Len(p) = Len(doc)
          /\ \A n \in 1..Len(doc) : p[n] = A!Written(doc[n]) /\ Spelled(Sym, doc[n], p[n])
        BY <2>1, PartsOf
    <2> QED
        BY <2>2 DEF p
<1>4. \A n \in 1..N : others[n] = IF Ours(doc[n]) THEN named ELSE parts[n]
    <2>1. \A n \in 1..N : A!IsText(doc[n].value) <=> doc[n].value[1] = "q"
        <3> SUFFICES ASSUME NEW n \in 1..N PROVE A!IsText(doc[n].value) <=> doc[n].value[1] = "q"
            OBVIOUS
        <3>1. Head(doc[n].value) = doc[n].value[1]
            OBVIOUS
        <3> QED
            BY <3>1 DEF A!IsText
    <2>2. \A n \in 1..N : others[n] = A!Renamed(doc[n], served) /\ parts[n] = A!Written(doc[n])
        BY <1>2
    <2> HIDE DEF others, parts
    <2> QED
        BY <2>1, <2>2 DEF A!Renamed, Ours
<1>5. others \in [1..N -> {others[n] : n \in 1..N}] /\ parts = [n \in 1..N |-> parts[n]]
      /\ others = [n \in 1..N |-> others[n]]
    BY <1>2
<1> HIDE DEF parts, others, named, N
<1>6. PICK U : Built(Sym, parts, U, T)
    BY <1>3, BracedIs
<1> HIDE DEF T
<1>7. Laid(Sym, parts, U, T)
    BY <1>3, <1>6, LaidOut
<1>8. T \in Seq(Sym)
    BY <1>7 DEF Laid
<1>9. Document(Sym, doc, parts, U, T, A!Walk(T))
    <2>1. Walked(T, A!Walk(T))
        BY <1>8, WalkIs
    <2> QED
        BY <1>2, <1>3, <1>7, <2>1 DEF Document
<1>10. Located(doc, parts, U, T)
    <2>1. \A n, i \in 1..Len(parts) : Ours(doc[n]) /\ Ours(doc[i]) => n = i
        BY <1>2, <1>3
    <2> QED
        BY <1>9, <2>1, FoundIs
<1>11. A!RewriteModel(T, served) = A!Replaced(T, A!FindTopLevelModel(T), served)
    <2>1. ~A!Contains(T, "ff")
        <3>1. \A k \in 1..Len(T) : T[k] # "ff"
            BY <1>8, ElementOfSeq
        <3> QED
            BY <3>1 DEF A!Contains
    <2> QED
        BY <2>1 DEF A!RewriteModel
<1>12. CASE \A n \in 1..N : ~Ours(doc[n])
    <2>1. A!FindTopLevelModel(T) = NULL
        BY <1>3, <1>10, <1>12 DEF Located
    <2>2. others = parts
        <3>1. \A n \in 1..N : others[n] = parts[n]
            BY <1>4, <1>12
        <3> QED
            BY <1>5, <3>1
    <2>3. A!Replaced(T, NULL, served) = T
        BY DEF A!Replaced
    <2> QED
        BY <1>1, <1>11, <2>1, <2>2, <2>3 DEF T
<1>13. CASE ~ \A n \in 1..N : ~Ours(doc[n])
    <2>1. PICK n \in 1..N : Ours(doc[n]) /\ A!FindTopLevelModel(T) = <<Ahead(U, n) + 1, Ahead(U, n) + Len(parts[n])>>
        BY <1>3, <1>10, <1>13 DEF Located
    <2> DEFINE All == Sym \cup {"model", served}
               a == Lead(U, n)
               b == parts[n]
               t1 == A!Text("model")
               t2 == <<"colon", "sp">>
               t3 == A!Text(served)
    <2>2. t1 \in Seq(All) /\ t2 \in Seq(All) /\ t3 \in Seq(All)
        <3>1. "q" \in All /\ "colon" \in All /\ "sp" \in All /\ "model" \in All /\ served \in All
            BY DEF Atoms
        <3> HIDE DEF All
        <3> QED
            BY <3>1 DEF A!Text
    <2>3. named = (t1 \o t2) \o t3
        BY DEF named
    <2>4. Sym \subseteq All /\ Atoms(All)
        BY DEF Atoms
    <2> HIDE DEF All, t1, t2, t3
    <2>5. t1 \o t2 \in Seq(All)
        BY <2>2, ConcatProperties
    <2>6. named \in Seq(All)
        BY <2>2, <2>3, <2>5, ConcatProperties
    <2>7. others[n] = named /\ \A i \in 1..N : i # n => others[i] = parts[i]
        BY <1>2, <1>4, <2>1
    <2>8. \A i \in 1..N : parts[i] \in Seq(All)
        <3>1. \A i \in 1..N : parts[i] \in Seq(Sym)
            BY <1>3, ElementOfSeq
        <3> QED
            BY <2>4, <3>1, SeqMonotonic
    <2>9. parts \in Seq(Seq(All)) /\ others \in Seq(Seq(All)) /\ Len(others) = N
        <3>1. parts \in [1..N -> Seq(All)]
            BY <1>5, <2>8
        <3>2. \A i \in 1..N : others[i] \in Seq(All)
            BY <2>6, <2>7, <2>8
        <3>3. others \in [1..N -> Seq(All)]
            BY <1>5, <3>2
        <3> QED
            BY <1>2, <3>1, <3>3, ListIs
    <2>10. Built(All, parts, U, T)
        BY <1>6, <2>4, BuiltIn
    <2>11. PICK V : Built(All, others, V, E)
        BY <2>4, <2>9, BracedIs
    <2> HIDE DEF E
    <2>12. Framed(All, parts, others, n, U, T, E)
        <3>1. n \in 1..Len(parts) /\ Len(others) = Len(parts)
              /\ \A i \in 1..Len(parts) : i # n => others[i] = parts[i]
            BY <1>3, <2>7, <2>9
        <3> QED
            BY <2>4, <2>9, <2>10, <2>11, <3>1, FramedIs
    <2>13. PICK rest \in Seq(All) : T = (a \o b) \o rest /\ E = (a \o named) \o rest
        BY <2>7, <2>12 DEF Framed
    <2>14. a \in Seq(All) /\ b \in Seq(All)
        <3>1. Leads(Sym, parts, U, n)
            BY <1>3, <1>6, LeadsOn
        <3>2. a \in Seq(Sym)
            BY <3>1 DEF Leads
        <3> QED
            BY <2>4, <2>8, <3>2, SeqMonotonic
    <2>15. Len(a) = Ahead(U, n) /\ Ahead(U, n) \in Nat /\ Ahead(U, n) >= 1 /\ Len(b) \in Nat
           /\ Ahead(U, n) + Len(b) < Len(T)
        <3>1. n \in 1..Len(parts)
            BY <1>3
        <3>2. Ahead(U, n) \in Nat /\ Ahead(U, n) >= 1 /\ Len(b) \in Nat
              /\ Len(U[n]) = Ahead(U, n) + Len(b) /\ Len(U[n]) < Len(T)
            BY <1>7, <3>1 DEF Laid
        <3>3. Len(a) = Ahead(U, n)
            BY DEF Ahead
        <3> QED
            BY <3>2, <3>3
    <2> HIDE DEF a, b
    <2>16. Len(rest) >= 1
        <3>1. a \o b \in Seq(All) /\ Len(a \o b) = Len(a) + Len(b)
            BY <2>14, ConcatProperties
        <3>2. Len(T) = Len(a \o b) + Len(rest)
            BY <2>13, <3>1, ConcatProperties
        <3>3. Len(rest) \in Nat
            BY LenProperties
        <3> DEFINE r == Len(rest)
                   x == Len(T)
                   y == Len(b)
                   z == Len(a)
        <3>4. x = (z + y) + r /\ r \in Nat /\ z + y < x /\ z \in Nat /\ y \in Nat
            BY <2>15, <3>1, <3>2, <3>3
        <3> HIDE DEF r, x, y, z
        <3>5. r >= 1
            BY <3>4
        <3> QED
            BY <3>5 DEF r
    <2>17. SubSeq(T, 1, Len(a)) = a /\ SubSeq(T, Len(a) + Len(b) + 1, Len(T)) = rest
        <3>1. Glued(T, a, b, rest)
            BY <2>13 DEF Glued
        <3>2. Len(a) >= 1
            BY <2>15
        <3>3. CutsBack(T, a, b, rest)
            BY <2>14, <2>16, <3>1, <3>2, CutOut
        <3> QED
            BY <3>3 DEF CutsBack
    <2> DEFINE at == <<Ahead(U, n) + 1, Ahead(U, n) + Len(b)>>
    <2>18. at # NULL /\ at[1] - 1 = Len(a) /\ at[2] + 1 = Len(a) + Len(b) + 1
        <3>1. at \in Nat \X Nat
            BY <2>15
        <3>2. at # NULL
            BY <3>1
        <3>3. (Ahead(U, n) + 1) - 1 = Len(a) /\ (Ahead(U, n) + Len(b)) + 1 = Len(a) + Len(b) + 1
            BY <2>15
        <3> QED
            BY <3>2, <3>3
    <2>19. A!FindTopLevelModel(T) = at
        BY <2>1 DEF b
    <2> HIDE DEF at
    <2>20. A!Replaced(T, at, served)
              = SubSeq(T, 1, at[1] - 1) \o t1 \o t2 \o t3 \o SubSeq(T, at[2] + 1, Len(T))
        BY <2>18 DEF A!Replaced, t1, t2, t3
    <2>21. A!Replaced(T, at, served) = (((a \o t1) \o t2) \o t3) \o rest
        BY <2>17, <2>18, <2>20
    <2>22. ((a \o t1) \o t2) \o t3 = a \o ((t1 \o t2) \o t3)
        <3>1. Moves2(a, t1, t2, t3)
            BY <2>2, <2>14, Moved
        <3> QED
            BY <3>1 DEF Moves2
    <2>23. A!Replaced(T, at, served) = E
        BY <2>3, <2>13, <2>21, <2>22
    <2> QED
        BY <1>1, <1>11, <2>19, <2>23
<1> QED
    BY <1>12, <1>13

-----------------------------------------------------------------------------
(* the headers *)

LEMMA SetGrows ==
    ASSUME NEW Of, NEW s \in Seq(Of), NEW x \in Of
    PROVE  A!ToSet(Append(s, x)) = A!ToSet(s) \cup {x}
<1> DEFINE N == Len(s)
           w == Append(s, x)
<1>1. N \in Nat /\ DOMAIN s = 1..N
    BY LenProperties
<1>2. w \in Seq(Of) /\ Len(w) = N + 1 /\ (\A k \in 1..N : w[k] = s[k]) /\ w[N + 1] = x
    BY AppendProperties
<1> HIDE DEF N, w
<1>3. DOMAIN w = 1..N + 1
    BY <1>2, LenProperties
<1>4. \A k \in 1..N + 1 : k \in 1..N \/ k = N + 1
    BY <1>1
<1>5. \A k \in 1..N : k \in 1..N + 1
    BY <1>1
<1>6. N + 1 \in 1..N + 1
    BY <1>1
<1>7. A!ToSet(w) = {w[k] : k \in 1..N + 1} /\ A!ToSet(s) = {s[k] : k \in 1..N}
    BY <1>1, <1>3 DEF A!ToSet
<1>8. \A y : y \in {w[k] : k \in 1..N + 1} <=> y \in {s[k] : k \in 1..N} \/ y = x
    BY <1>2, <1>4, <1>5, <1>6
<1>9. A!ToSet(w) = A!ToSet(s) \cup {x}
    BY <1>7, <1>8
<1> QED
    BY <1>9 DEF w

\* The flags that go on are those that are not the subscription's.
LEMMA FlagsKept ==
    ASSUME NEW Flags, NEW raw \in Seq(Flags), A!ForwardableBetas(raw) # NULL
    PROVE  A!ToSet(A!ForwardableBetas(raw)) = A!ToSet(raw) \ A!NotForwarded
<1> DEFINE none == <<>>
           N == Len(raw)
           States == Seq(Flags)
           Op(acc, n) == IF raw[n] \in A!NotForwarded THEN acc ELSE Append(acc, raw[n])
           step == [x \in States \X (1..N) |-> Op(x[1], x[2])]
           Meets(f) == f = [n \in 0..N |-> IF n = 0 THEN none ELSE IF raw[n] \in A!NotForwarded THEN f[n - 1] ELSE Append(f[n - 1], raw[n])]
           read == CHOOSE f : Meets(f)
<1>1. N \in Nat /\ none \in States
    BY LenProperties, EmptySeq
<1>2. \A acc \in States, n \in 1..N : Op(acc, n) \in States
    <2> SUFFICES ASSUME NEW acc \in Seq(Flags), NEW n \in 1..N
                 PROVE  (IF raw[n] \in A!NotForwarded THEN acc ELSE Append(acc, raw[n])) \in Seq(Flags)
        OBVIOUS
    <2>1. raw[n] \in Flags
        BY ElementOfSeq
    <2>2. Append(acc, raw[n]) \in Seq(Flags)
        BY <2>1, AppendProperties
    <2> QED
        BY <2>2
<1>3. A!ForwardableBetas(raw) = IF raw = NULL \/ read[N] = none THEN NULL ELSE read[N]
    BY DEF A!ForwardableBetas
<1>4. \A f : Meets(f) <=> f = [n \in 0..N |-> IF n = 0 THEN none ELSE Op(f[n - 1], n)]
    OBVIOUS
<1> HIDE DEF N, States, Op, none
<1>5. step \in [States \X (1..N) -> States]
    BY <1>2
<1> HIDE DEF step
<1>6. PICK f \in [0..N -> States] : Follows(f, N, none, step)
    BY <1>1, <1>5, Recursion, Zenon
<1> USE DEF step
<1>7. f[0] = none /\ \A n \in 1..N : f[n] = step[<<f[n - 1], n>>]
    BY <1>6 DEF Follows
<1> HIDE DEF Meets
<1>8. Meets(f)
    <2>1. \A n \in 1..N : f[n] = Op(f[n - 1], n)
        <3> SUFFICES ASSUME NEW n \in 1..N PROVE f[n] = Op(f[n - 1], n)
            OBVIOUS
        <3>1. n \in 0..N /\ n # 0 /\ n - 1 \in 0..N
            BY <1>1
        <3>2. <<f[n - 1], n>> \in States \X (1..N)
            BY <3>1
        <3>3. f[n] = step[<<f[n - 1], n>>]
            BY <1>7, <3>1
        <3> QED
            BY <3>2, <3>3
    <2>2. f[0] = none
        BY <1>1, <1>7
    <2>3. \A n \in 0..N : f[n] = IF n = 0 THEN none ELSE Op(f[n - 1], n)
        BY <1>1, <2>1, <2>2
    <2>4. f = [n \in 0..N |-> IF n = 0 THEN none ELSE Op(f[n - 1], n)]
        BY <2>3
    <2> QED
        BY <1>4, <2>4
<1>9. Meets(read)
    BY <1>8
<1> HIDE DEF read
<1>10. read[0] = none /\ \A n \in 1..N : read[n] = Op(read[n - 1], n)
    <2>1. read = [n \in 0..N |-> IF n = 0 THEN none ELSE Op(read[n - 1], n)]
        BY <1>4, <1>9
    <2>2. \A n \in 0..N : read[n] = IF n = 0 THEN none ELSE Op(read[n - 1], n)
        BY <2>1
    <2> QED
        BY <1>1, <2>2
<1>11. read \in [0..N -> States]
    <2> DEFINE typed == {n \in 0..N : read[n] \in States}
    <2>1. 0 \in typed
        BY <1>1, <1>10
    <2>2. ASSUME NEW n \in 0..N, n + 1 \in 0..N, n \in typed PROVE n + 1 \in typed
        <3>1. n + 1 \in 1..N /\ (n + 1) - 1 = n
            BY <2>2, <1>1
        <3>2. read[n + 1] = Op(read[n], n + 1)
            BY <1>10, <3>1
        <3> QED
            BY <1>2, <2>2, <3>1, <3>2
    <2> HIDE DEF typed
    <2>3. 0..N \subseteq typed
        BY <1>1, <2>1, <2>2, CountingUp
    <2>4. \A n \in 0..N : read[n] \in States
        BY <2>3 DEF typed
    <2>5. read = [n \in 0..N |-> read[n]]
        BY <1>4, <1>9
    <2> QED
        BY <2>4, <2>5

<1>12. A!ForwardableBetas(raw) = read[N]
    BY <1>3
<1>13. \A n \in 0..N : read[n] \in Seq(Flags)
    BY <1>11 DEF States
<1>14. \A n \in 1..N : read[n] = IF raw[n] \in A!NotForwarded THEN read[n - 1] ELSE Append(read[n - 1], raw[n])
    BY <1>10 DEF Op
<1> HIDE DEF Op
<1> DEFINE Upto(n) == {raw[k] : k \in 1..n}
           good == {n \in 0..N : A!ToSet(read[n]) = Upto(n) \ A!NotForwarded}
<1>15. 0 \in good
    <2>1. A!ToSet(<<>>) = {} /\ Upto(0) = {}
        BY DEF A!ToSet
    <2> QED
        BY <1>1, <1>10, <2>1 DEF none
<1>16. ASSUME NEW n \in 0..N, n + 1 \in 0..N, n \in good PROVE n + 1 \in good
    <2>1. n + 1 \in 1..N /\ (n + 1) - 1 = n /\ n \in Nat
        BY <1>1, <1>16
    <2>2. Upto(n + 1) = Upto(n) \cup {raw[n + 1]}
        <3>1. \A k \in 1..n + 1 : k \in 1..n \/ k = n + 1
            BY <2>1
        <3>2. (\A k \in 1..n : k \in 1..n + 1) /\ n + 1 \in 1..n + 1
            BY <2>1
        <3> QED
            BY <3>1, <3>2
    <2>3. A!ToSet(read[n]) = Upto(n) \ A!NotForwarded
        BY <1>16
    <2> HIDE DEF Upto
    <2>4. CASE raw[n + 1] \in A!NotForwarded
        <3>1. read[n + 1] = read[n]
            BY <1>14, <2>1, <2>4
        <3>2. A!ToSet(read[n + 1]) = Upto(n + 1) \ A!NotForwarded
            BY <2>2, <2>3, <2>4, <3>1
        <3> QED
            BY <1>16, <3>2
    <2>5. CASE raw[n + 1] \notin A!NotForwarded
        <3>1. read[n + 1] = Append(read[n], raw[n + 1])
            BY <1>14, <2>1, <2>5
        <3>2. raw[n + 1] \in Flags
            BY <2>1, ElementOfSeq DEF N
        <3>3. A!ToSet(Append(read[n], raw[n + 1])) = A!ToSet(read[n]) \cup {raw[n + 1]}
            BY <1>13, <1>16, <3>2, SetGrows
        <3>4. A!ToSet(read[n + 1]) = Upto(n + 1) \ A!NotForwarded
            BY <2>2, <2>3, <2>5, <3>1, <3>3
        <3> QED
            BY <1>16, <3>4
    <2> QED
        BY <2>4, <2>5
<1> HIDE DEF good
<1>17. 0..N \subseteq good
    BY <1>1, <1>15, <1>16, CountingUp
<1>18. A!ToSet(read[N]) = Upto(N) \ A!NotForwarded
    <2>1. N \in 0..N
        BY <1>1
    <2> QED
        BY <1>17, <2>1 DEF good
<1>19. A!ToSet(raw) = Upto(N)
    <2>1. DOMAIN raw = 1..N
        BY LenProperties DEF N
    <2> QED
        BY <2>1 DEF A!ToSet
<1> QED
    BY <1>12, <1>18, <1>19

\* What is asked of an adapter.
Posed(Flags, req) ==
    /\ req = [path |-> req.path, body |-> req.body, servedModel |-> req.servedModel, betas |-> req.betas,
              stream |-> req.stream, secret |-> req.secret, baseUrl |-> req.baseUrl]
    /\ req.betas = NULL \/ req.betas \in Seq(Flags)

Credentials == {"authorization", "x-api-key"}

LEMMA AnthropicSends ==
    ASSUME NEW Flags, NEW req, req.betas = NULL \/ req.betas \in Seq(Flags)
    PROVE  LET headers == A!AnthropicHeaders(req) IN
           /\ DOMAIN headers \cap Credentials = {"x-api-key"} /\ headers["x-api-key"] = req.secret
           /\ "anthropic-beta" \in DOMAIN headers =>
                 A!ToSet(headers["anthropic-beta"]) = A!ToSet(req.betas) \ A!NotForwarded
<1> DEFINE betas == A!ForwardableBetas(req.betas)
           names == A!CommonHeaders \cup {"x-api-key", "anthropic-version"}
                        \cup IF betas = NULL THEN {} ELSE {"anthropic-beta"}
           headers == A!AnthropicHeaders(req)
<1>1. headers = [name \in names |-> CASE name = "x-api-key" -> req.secret
                                      [] name = "anthropic-version" -> "2023-06-01"
                                      [] name = "anthropic-beta" -> betas
                                      [] OTHER -> A!Common(req, name)]
    BY DEF A!AnthropicHeaders
<1> HIDE DEF headers, betas
<1>2. DOMAIN headers = names
    BY <1>1
<1>3. /\ "x-api-key" \in names /\ "authorization" \notin names
      /\ ("anthropic-beta" \in names => betas # NULL)
    BY DEF A!CommonHeaders
<1> HIDE DEF names
<1>4. headers["x-api-key"] = req.secret /\ ("anthropic-beta" \in names => headers["anthropic-beta"] = betas)
    BY <1>1, <1>3
<1>5. DOMAIN headers \cap Credentials = {"x-api-key"}
    BY <1>2, <1>3 DEF Credentials
<1>6. betas # NULL => A!ToSet(betas) = A!ToSet(req.betas) \ A!NotForwarded
    <2>1. req.betas = NULL => betas = NULL
        BY DEF betas, A!ForwardableBetas
    <2> QED
        BY <2>1, FlagsKept DEF betas
<1>7. "anthropic-beta" \in DOMAIN headers => A!ToSet(headers["anthropic-beta"]) = A!ToSet(req.betas) \ A!NotForwarded
    BY <1>2, <1>3, <1>4, <1>6
<1> QED
    BY <1>4, <1>5, <1>7, <1>3 DEF headers

LEMMA FireworksSends ==
    ASSUME NEW req
    PROVE  LET headers == A!FireworksHeaders(req) IN
           /\ DOMAIN headers \cap Credentials = {"authorization"} /\ headers["authorization"] = req.secret
           /\ "anthropic-beta" \notin DOMAIN headers
<1> DEFINE headers == A!FireworksHeaders(req)
           names == A!CommonHeaders \cup {"authorization"}
<1>1. headers = [name \in names |-> IF name = "authorization" THEN req.secret ELSE A!Common(req, name)]
    BY DEF A!FireworksHeaders
<1> HIDE DEF headers
<1>2. "authorization" \in names /\ "x-api-key" \notin names /\ "anthropic-beta" \notin names
    BY DEF A!CommonHeaders
<1> HIDE DEF names
<1>3. DOMAIN headers = names /\ headers["authorization"] = req.secret
    BY <1>1, <1>2
<1>4. DOMAIN headers \cap Credentials = {"authorization"}
    BY <1>2, <1>3 DEF Credentials
<1> QED
    BY <1>2, <1>3, <1>4 DEF headers

(***************************************************************************)
(* Whatever a client writes and whatever it is served as, what leaves      *)
(* differs in its own model and in nothing else, and is paid with the      *)
(* server's credential.                                                    *)
(***************************************************************************)
THEOREM OnlyTheModelChanges ==
    ASSUME NEW Sym, Atoms(Sym), "ff" \notin Sym, NULL \notin Nat \X Nat,
           NEW doc, Legible(Sym, doc), NEW Flags, NEW req, Posed(Flags, req),
           NEW adapter \in {"anthropic", "fireworks"}
    PROVE  A!SubstitutesOnlyTheModel(adapter, doc, req)
<1> DEFINE sent == [req EXCEPT !.body = A!Rendered(doc)]
           plan == A!Plan(adapter, sent)
           h == plan.headers
<1>1. /\ sent.path = req.path /\ sent.body = A!Rendered(doc) /\ sent.servedModel = req.servedModel
      /\ sent.betas = req.betas /\ sent.secret = req.secret /\ sent.baseUrl = req.baseUrl
    <2> DEFINE r == [path |-> req.path, body |-> req.body, servedModel |-> req.servedModel, betas |-> req.betas,
                     stream |-> req.stream, secret |-> req.secret, baseUrl |-> req.baseUrl]
    <2>1. req = r
        BY DEF Posed
    <2>2. sent = [r EXCEPT !.body = A!Rendered(doc)]
        BY <2>1
    <2> QED
        BY <2>2
<1> HIDE DEF sent
<1>2. /\ plan.url = sent.baseUrl \o sent.path /\ plan.body = A!RewriteModel(sent.body, sent.servedModel)
      /\ (adapter = "anthropic" => h = A!AnthropicHeaders(sent))
      /\ (adapter # "anthropic" => h = A!FireworksHeaders(sent))
    BY DEF A!Plan, A!AnthropicPlan, A!FireworksPlan, A!JoinUpstreamUrl
<1> HIDE DEF plan
<1>3. plan.body = IF req.servedModel = NULL THEN A!Rendered(doc) ELSE A!Edited(doc, req.servedModel)
    <2>1. CASE req.servedModel = NULL
        BY <1>1, <1>2, <2>1 DEF A!RewriteModel
    <2>2. CASE req.servedModel # NULL
        <3> DEFINE served == req.servedModel
        <3>1. served # NULL
            BY <2>2
        <3> HIDE DEF served
        <3>2. A!RewriteModel(A!Rendered(doc), served) = A!Edited(doc, served)
            BY <3>1, RewritesOurs
        <3> QED
            BY <1>1, <1>2, <2>2, <3>2 DEF served
    <2> QED
        BY <2>1, <2>2
<1>4. plan.url = req.baseUrl \o req.path
    BY <1>1, <1>2
<1>5. /\ \E name \in Credentials : DOMAIN h \cap Credentials = {name} /\ h[name] = req.secret
      /\ "anthropic-beta" \in DOMAIN h =>
            A!ToSet(h["anthropic-beta"]) = A!ToSet(req.betas) \ A!NotForwarded /\ adapter = "anthropic"
    <2>1. CASE adapter = "anthropic"
        <3>1. sent.betas = NULL \/ sent.betas \in Seq(Flags)
            BY <1>1 DEF Posed
        <3>2. h = A!AnthropicHeaders(sent)
            BY <1>2, <2>1
        <3>3. /\ DOMAIN h \cap Credentials = {"x-api-key"} /\ h["x-api-key"] = req.secret
              /\ ("anthropic-beta" \in DOMAIN h => A!ToSet(h["anthropic-beta"]) = A!ToSet(req.betas) \ A!NotForwarded)
            BY <1>1, <3>1, <3>2, AnthropicSends
        <3>4. "x-api-key" \in Credentials
            BY DEF Credentials
        <3> QED
            BY <2>1, <3>3, <3>4
    <2>2. CASE adapter # "anthropic"
        <3>1. h = A!FireworksHeaders(sent)
            BY <1>2, <2>2
        <3>2. /\ DOMAIN h \cap Credentials = {"authorization"} /\ h["authorization"] = req.secret
              /\ "anthropic-beta" \notin DOMAIN h
            BY <1>1, <3>1, FireworksSends
        <3>3. "authorization" \in Credentials
            BY DEF Credentials
        <3> QED
            BY <3>2, <3>3
    <2> QED
        BY <2>1, <2>2
<1>6. A!NotForwarded = {"", A!OauthBeta} /\ Credentials = {"authorization", "x-api-key"}
    BY Zenon DEF A!NotForwarded, Credentials
<1>7. A!Honest(plan, adapter, doc, req)
    BY <1>3, <1>4, <1>5, <1>6, Zenon DEF A!Honest
<1> QED
    BY <1>7 DEF A!SubstitutesOnlyTheModel, plan, sent

-----------------------------------------------------------------------------
(* values that are whole *)

\* What they are made of.
Atomic ==
    {"q", "bs", "sp", "model", "x", "a", "n", "colon", "comma"} \cup
    {"lbrace", "rbrace", "lbracket", "rbracket"}

\* Where a walk may be: outside of a string, in one, or behind a backslash.
At(d) == [str |-> FALSE, esc |-> FALSE, depth |-> d]
Reading(d) == [str |-> TRUE, esc |-> FALSE, depth |-> d]
Escaping(d) == [str |-> TRUE, esc |-> TRUE, depth |-> d]

LEMMA OutsideIs == A!Outside = At(0)
BY DEF A!Outside, At

LEMMA Goes ==
    /\ \A d \in Int : A!Step(At(d), "q") = Reading(d) /\ A!Step(Reading(d), "q") = At(d)
    /\ \A d \in Int : A!Step(Reading(d), "bs") = Escaping(d) /\ \A ch : A!Step(Escaping(d), ch) = Reading(d)
    /\ \A d \in Int : \A ch : ch \notin {"q", "bs"} => A!Step(Reading(d), ch) = Reading(d)
    /\ A!Step(At(0), "n") = At(0) /\ A!Step(At(1), "comma") = At(1)
    /\ A!Step(At(0), "lbrace") = At(1) /\ A!Step(At(0), "lbracket") = At(1) /\ A!Step(At(1), "lbrace") = At(2)
    /\ A!Step(At(1), "rbrace") = At(0) /\ A!Step(At(1), "rbracket") = At(0) /\ A!Step(At(2), "rbrace") = At(1)
    /\ A!Step(At(1), "colon") = At(1) /\ A!Step(At(2), "colon") = At(2)
<1>0. ASSUME NEW d \in Int, NEW ch
      PROVE  A!Step(At(d), ch) = [str |-> (ch = "q"), esc |-> FALSE, depth |-> d + A!Deeper(ch)]
    <2>1. At(d) \in Stands /\ ~At(d).str /\ ~At(d).esc /\ At(d).esc \in BOOLEAN /\ At(d).depth = d
        BY DEF At, Stands
    <2>2. A!Step(At(d), ch) = [str |-> (ch = "q"), esc |-> At(d).esc, depth |-> At(d).depth + A!Deeper(ch)]
        BY <2>1, StepOutside
    <2>3. At(d).esc = FALSE /\ At(d).depth = d
        BY DEF At
    <2> QED
        BY <2>2, <2>3
<1>1. \A d \in Int : A!Step(At(d), "q") = Reading(d) /\ A!Step(Reading(d), "q") = At(d)
    <2> SUFFICES ASSUME NEW d \in Int PROVE A!Step(At(d), "q") = Reading(d) /\ A!Step(Reading(d), "q") = At(d)
        OBVIOUS
    <2>1. A!Deeper("q") = 0 /\ d + 0 = d
        BY DEF A!Deeper
    <2>2. A!Step(At(d), "q") = [str |-> TRUE, esc |-> FALSE, depth |-> d]
        BY <1>0, <2>1
    <2>3. A!Step(Reading(d), "q") = At(d)
        BY DEF A!Step, Reading, At
    <2> QED
        BY <2>2, <2>3 DEF Reading
<1>2. \A d : A!Step(Reading(d), "bs") = Escaping(d) /\ \A ch : A!Step(Escaping(d), ch) = Reading(d)
    BY DEF A!Step, Reading, Escaping
<1>3. \A d : \A ch : ch \notin {"q", "bs"} => A!Step(Reading(d), ch) = Reading(d)
    BY DEF A!Step, Reading
<1>4. \A d \in Int : \A ch : ch # "q" => A!Step(At(d), ch) = At(d + A!Deeper(ch))
    BY <1>0 DEF At
<1>5. /\ A!Deeper("n") = 0 /\ A!Deeper("comma") = 0 /\ A!Deeper("colon") = 0
      /\ A!Deeper("lbrace") = 1 /\ A!Deeper("lbracket") = 1
      /\ A!Deeper("rbrace") = -1 /\ A!Deeper("rbracket") = -1
    BY DEF A!Deeper
<1>6. /\ A!Step(At(0), "n") = At(0 + 0) /\ A!Step(At(1), "comma") = At(1 + 0)
      /\ A!Step(At(0), "lbrace") = At(0 + 1) /\ A!Step(At(0), "lbracket") = At(0 + 1) /\ A!Step(At(1), "lbrace") = At(1 + 1)
      /\ A!Step(At(1), "rbrace") = At(1 + -1) /\ A!Step(At(1), "rbracket") = At(1 + -1) /\ A!Step(At(2), "rbrace") = At(2 + -1)
      /\ A!Step(At(1), "colon") = At(1 + 0) /\ A!Step(At(2), "colon") = At(2 + 0)
    BY <1>4, <1>5
<1> QED
    BY <1>1, <1>2, <1>3, <1>6

LEMMA SaysA == Whole(Atomic, A!Text("a"))
<1> DEFINE v == A!Text("a")
           at == A!Walk(v)
<1>1. v = <<"q", "a", "q">>
    BY DEF A!Text
<1> HIDE DEF v
<1>2. v \in Seq(Atomic) /\ Len(v) = 3
    BY <1>1 DEF Atomic
<1>3. Walked(v, at)
    BY <1>2, WalkIs
<1> HIDE DEF at
<1>4. \A n \in 1..3 : at[n + 1] = A!Step(at[n], v[n])
    BY <1>2, <1>3 DEF Walked
<1>5. at[1] = At(0)
    BY <1>3, OutsideIs DEF Walked
<1>6. at[2] = Reading(0)
    <2>1. at[2] = A!Step(at[1], v[1]) /\ v[1] = "q"
        BY <1>1, <1>4
    <2> QED
        BY <2>1, <1>5, Goes
<1>7. at[3] = Reading(0)
    <2>1. at[3] = A!Step(at[2], v[2]) /\ v[2] = "a"
        BY <1>1, <1>4
    <2> QED
        BY <2>1, <1>6, Goes
<1>8. at[4] = At(0)
    <2>1. at[4] = A!Step(at[3], v[3]) /\ v[3] = "q"
        BY <1>1, <1>4
    <2> QED
        BY <2>1, <1>7, Goes
<1>9. \A k \in 2..3 : at[k].depth >= 0 /\ (at[k].str \/ at[k].depth >= 1)
    <2> SUFFICES ASSUME NEW k \in 2..3 PROVE at[k].depth >= 0 /\ (at[k].str \/ at[k].depth >= 1)
        OBVIOUS
    <2>1. k = 2 \/ k = 3
        OBVIOUS
    <2> QED
        BY <2>1, <1>5, <1>6, <1>7, <1>8 DEF At, Reading, Escaping
<1>10. v[1] # "sp"
    BY <1>1
<1>11. Whole(Atomic, v)
    BY <1>2, <1>9, <1>8, <1>10, OutsideIs DEF Whole, at
<1> QED
    BY <1>11 DEF v

LEMMA SaysModel == Whole(Atomic, A!Text("model"))
<1> DEFINE v == A!Text("model")
           at == A!Walk(v)
<1>1. v = <<"q", "model", "q">>
    BY DEF A!Text
<1> HIDE DEF v
<1>2. v \in Seq(Atomic) /\ Len(v) = 3
    BY <1>1 DEF Atomic
<1>3. Walked(v, at)
    BY <1>2, WalkIs
<1> HIDE DEF at
<1>4. \A n \in 1..3 : at[n + 1] = A!Step(at[n], v[n])
    BY <1>2, <1>3 DEF Walked
<1>5. at[1] = At(0)
    BY <1>3, OutsideIs DEF Walked
<1>6. at[2] = Reading(0)
    <2>1. at[2] = A!Step(at[1], v[1]) /\ v[1] = "q"
        BY <1>1, <1>4
    <2> QED
        BY <2>1, <1>5, Goes
<1>7. at[3] = Reading(0)
    <2>1. at[3] = A!Step(at[2], v[2]) /\ v[2] = "model"
        BY <1>1, <1>4
    <2> QED
        BY <2>1, <1>6, Goes
<1>8. at[4] = At(0)
    <2>1. at[4] = A!Step(at[3], v[3]) /\ v[3] = "q"
        BY <1>1, <1>4
    <2> QED
        BY <2>1, <1>7, Goes
<1>9. \A k \in 2..3 : at[k].depth >= 0 /\ (at[k].str \/ at[k].depth >= 1)
    <2> SUFFICES ASSUME NEW k \in 2..3 PROVE at[k].depth >= 0 /\ (at[k].str \/ at[k].depth >= 1)
        OBVIOUS
    <2>1. k = 2 \/ k = 3
        OBVIOUS
    <2> QED
        BY <2>1, <1>5, <1>6, <1>7, <1>8 DEF At, Reading, Escaping
<1>10. v[1] # "sp"
    BY <1>1
<1>11. Whole(Atomic, v)
    BY <1>2, <1>9, <1>8, <1>10, OutsideIs DEF Whole, at
<1> QED
    BY <1>11 DEF v

LEMMA QuotedIsWhole == Whole(Atomic, <<"q", "bs", "q", "model", "bs", "q", "colon", "bs", "q", "a", "bs", "q", "q">>)
<1> DEFINE v == <<"q", "bs", "q", "model", "bs", "q", "colon", "bs", "q", "a", "bs", "q", "q">>
           at == A!Walk(v)
<1>1. v = <<"q", "bs", "q", "model", "bs", "q", "colon", "bs", "q", "a", "bs", "q", "q">>
    OBVIOUS
<1> HIDE DEF v
<1>2. v \in Seq(Atomic) /\ Len(v) = 13
    BY <1>1 DEF Atomic
<1>3. Walked(v, at)
    BY <1>2, WalkIs
<1> HIDE DEF at
<1>4. \A n \in 1..13 : at[n + 1] = A!Step(at[n], v[n])
    BY <1>2, <1>3 DEF Walked
<1>5. at[1] = At(0)
    BY <1>3, OutsideIs DEF Walked
<1>6. at[2] = Reading(0)
    <2>1. at[2] = A!Step(at[1], v[1]) /\ v[1] = "q"
        BY <1>1, <1>4
    <2> QED
        BY <2>1, <1>5, Goes
<1>7. at[3] = Escaping(0)
    <2>1. at[3] = A!Step(at[2], v[2]) /\ v[2] = "bs"
        BY <1>1, <1>4
    <2> QED
        BY <2>1, <1>6, Goes
<1>8. at[4] = Reading(0)
    <2>1. at[4] = A!Step(at[3], v[3]) /\ v[3] = "q"
        BY <1>1, <1>4
    <2> QED
        BY <2>1, <1>7, Goes
<1>9. at[5] = Reading(0)
    <2>1. at[5] = A!Step(at[4], v[4]) /\ v[4] = "model"
        BY <1>1, <1>4
    <2> QED
        BY <2>1, <1>8, Goes
<1>10. at[6] = Escaping(0)
    <2>1. at[6] = A!Step(at[5], v[5]) /\ v[5] = "bs"
        BY <1>1, <1>4
    <2> QED
        BY <2>1, <1>9, Goes
<1>11. at[7] = Reading(0)
    <2>1. at[7] = A!Step(at[6], v[6]) /\ v[6] = "q"
        BY <1>1, <1>4
    <2> QED
        BY <2>1, <1>10, Goes
<1>12. at[8] = Reading(0)
    <2>1. at[8] = A!Step(at[7], v[7]) /\ v[7] = "colon"
        BY <1>1, <1>4
    <2> QED
        BY <2>1, <1>11, Goes
<1>13. at[9] = Escaping(0)
    <2>1. at[9] = A!Step(at[8], v[8]) /\ v[8] = "bs"
        BY <1>1, <1>4
    <2> QED
        BY <2>1, <1>12, Goes
<1>14. at[10] = Reading(0)
    <2>1. at[10] = A!Step(at[9], v[9]) /\ v[9] = "q"
        BY <1>1, <1>4
    <2> QED
        BY <2>1, <1>13, Goes
<1>15. at[11] = Reading(0)
    <2>1. at[11] = A!Step(at[10], v[10]) /\ v[10] = "a"
        BY <1>1, <1>4
    <2> QED
        BY <2>1, <1>14, Goes
<1>16. at[12] = Escaping(0)
    <2>1. at[12] = A!Step(at[11], v[11]) /\ v[11] = "bs"
        BY <1>1, <1>4
    <2> QED
        BY <2>1, <1>15, Goes
<1>17. at[13] = Reading(0)
    <2>1. at[13] = A!Step(at[12], v[12]) /\ v[12] = "q"
        BY <1>1, <1>4
    <2> QED
        BY <2>1, <1>16, Goes
<1>18. at[14] = At(0)
    <2>1. at[14] = A!Step(at[13], v[13]) /\ v[13] = "q"
        BY <1>1, <1>4
    <2> QED
        BY <2>1, <1>17, Goes
<1>19. \A k \in 2..13 : at[k].depth >= 0 /\ (at[k].str \/ at[k].depth >= 1)
    <2> SUFFICES ASSUME NEW k \in 2..13 PROVE at[k].depth >= 0 /\ (at[k].str \/ at[k].depth >= 1)
        OBVIOUS
    <2>1. k = 2 \/ k = 3 \/ k = 4 \/ k = 5 \/ k = 6 \/ k = 7 \/ k = 8 \/ k = 9 \/ k = 10 \/ k = 11 \/ k = 12 \/ k = 13
        OBVIOUS
    <2> QED
        BY <2>1, <1>5, <1>6, <1>7, <1>8, <1>9, <1>10, <1>11, <1>12, <1>13, <1>14, <1>15, <1>16, <1>17, <1>18 DEF At, Reading, Escaping
<1>20. v[1] # "sp"
    BY <1>1
<1>21. Whole(Atomic, v)
    BY <1>2, <1>19, <1>18, <1>20, OutsideIs DEF Whole, at
<1> QED
    BY <1>21 DEF v

LEMMA SlashedIsWhole == Whole(Atomic, <<"q", "x", "bs", "bs", "q">>)
<1> DEFINE v == <<"q", "x", "bs", "bs", "q">>
           at == A!Walk(v)
<1>1. v = <<"q", "x", "bs", "bs", "q">>
    OBVIOUS
<1> HIDE DEF v
<1>2. v \in Seq(Atomic) /\ Len(v) = 5
    BY <1>1 DEF Atomic
<1>3. Walked(v, at)
    BY <1>2, WalkIs
<1> HIDE DEF at
<1>4. \A n \in 1..5 : at[n + 1] = A!Step(at[n], v[n])
    BY <1>2, <1>3 DEF Walked
<1>5. at[1] = At(0)
    BY <1>3, OutsideIs DEF Walked
<1>6. at[2] = Reading(0)
    <2>1. at[2] = A!Step(at[1], v[1]) /\ v[1] = "q"
        BY <1>1, <1>4
    <2> QED
        BY <2>1, <1>5, Goes
<1>7. at[3] = Reading(0)
    <2>1. at[3] = A!Step(at[2], v[2]) /\ v[2] = "x"
        BY <1>1, <1>4
    <2> QED
        BY <2>1, <1>6, Goes
<1>8. at[4] = Escaping(0)
    <2>1. at[4] = A!Step(at[3], v[3]) /\ v[3] = "bs"
        BY <1>1, <1>4
    <2> QED
        BY <2>1, <1>7, Goes
<1>9. at[5] = Reading(0)
    <2>1. at[5] = A!Step(at[4], v[4]) /\ v[4] = "bs"
        BY <1>1, <1>4
    <2> QED
        BY <2>1, <1>8, Goes
<1>10. at[6] = At(0)
    <2>1. at[6] = A!Step(at[5], v[5]) /\ v[5] = "q"
        BY <1>1, <1>4
    <2> QED
        BY <2>1, <1>9, Goes
<1>11. \A k \in 2..5 : at[k].depth >= 0 /\ (at[k].str \/ at[k].depth >= 1)
    <2> SUFFICES ASSUME NEW k \in 2..5 PROVE at[k].depth >= 0 /\ (at[k].str \/ at[k].depth >= 1)
        OBVIOUS
    <2>1. k = 2 \/ k = 3 \/ k = 4 \/ k = 5
        OBVIOUS
    <2> QED
        BY <2>1, <1>5, <1>6, <1>7, <1>8, <1>9, <1>10 DEF At, Reading, Escaping
<1>12. v[1] # "sp"
    BY <1>1
<1>13. Whole(Atomic, v)
    BY <1>2, <1>11, <1>10, <1>12, OutsideIs DEF Whole, at
<1> QED
    BY <1>13 DEF v

LEMMA InnerIsWhole == Whole(Atomic, <<"lbrace", "q", "model", "q", "colon", "q", "a", "q", "rbrace">>)
<1> DEFINE v == <<"lbrace", "q", "model", "q", "colon", "q", "a", "q", "rbrace">>
           at == A!Walk(v)
<1>1. v = <<"lbrace", "q", "model", "q", "colon", "q", "a", "q", "rbrace">>
    OBVIOUS
<1> HIDE DEF v
<1>2. v \in Seq(Atomic) /\ Len(v) = 9
    BY <1>1 DEF Atomic
<1>3. Walked(v, at)
    BY <1>2, WalkIs
<1> HIDE DEF at
<1>4. \A n \in 1..9 : at[n + 1] = A!Step(at[n], v[n])
    BY <1>2, <1>3 DEF Walked
<1>5. at[1] = At(0)
    BY <1>3, OutsideIs DEF Walked
<1>6. at[2] = At(1)
    <2>1. at[2] = A!Step(at[1], v[1]) /\ v[1] = "lbrace"
        BY <1>1, <1>4
    <2> QED
        BY <2>1, <1>5, Goes
<1>7. at[3] = Reading(1)
    <2>1. at[3] = A!Step(at[2], v[2]) /\ v[2] = "q"
        BY <1>1, <1>4
    <2> QED
        BY <2>1, <1>6, Goes
<1>8. at[4] = Reading(1)
    <2>1. at[4] = A!Step(at[3], v[3]) /\ v[3] = "model"
        BY <1>1, <1>4
    <2> QED
        BY <2>1, <1>7, Goes
<1>9. at[5] = At(1)
    <2>1. at[5] = A!Step(at[4], v[4]) /\ v[4] = "q"
        BY <1>1, <1>4
    <2> QED
        BY <2>1, <1>8, Goes
<1>10. at[6] = At(1)
    <2>1. at[6] = A!Step(at[5], v[5]) /\ v[5] = "colon"
        BY <1>1, <1>4
    <2> QED
        BY <2>1, <1>9, Goes
<1>11. at[7] = Reading(1)
    <2>1. at[7] = A!Step(at[6], v[6]) /\ v[6] = "q"
        BY <1>1, <1>4
    <2> QED
        BY <2>1, <1>10, Goes
<1>12. at[8] = Reading(1)
    <2>1. at[8] = A!Step(at[7], v[7]) /\ v[7] = "a"
        BY <1>1, <1>4
    <2> QED
        BY <2>1, <1>11, Goes
<1>13. at[9] = At(1)
    <2>1. at[9] = A!Step(at[8], v[8]) /\ v[8] = "q"
        BY <1>1, <1>4
    <2> QED
        BY <2>1, <1>12, Goes
<1>14. at[10] = At(0)
    <2>1. at[10] = A!Step(at[9], v[9]) /\ v[9] = "rbrace"
        BY <1>1, <1>4
    <2> QED
        BY <2>1, <1>13, Goes
<1>15. \A k \in 2..9 : at[k].depth >= 0 /\ (at[k].str \/ at[k].depth >= 1)
    <2> SUFFICES ASSUME NEW k \in 2..9 PROVE at[k].depth >= 0 /\ (at[k].str \/ at[k].depth >= 1)
        OBVIOUS
    <2>1. k = 2 \/ k = 3 \/ k = 4 \/ k = 5 \/ k = 6 \/ k = 7 \/ k = 8 \/ k = 9
        OBVIOUS
    <2> QED
        BY <2>1, <1>5, <1>6, <1>7, <1>8, <1>9, <1>10, <1>11, <1>12, <1>13, <1>14 DEF At, Reading, Escaping
<1>16. v[1] # "sp"
    BY <1>1
<1>17. Whole(Atomic, v)
    BY <1>2, <1>15, <1>14, <1>16, OutsideIs DEF Whole, at
<1> QED
    BY <1>17 DEF v

LEMMA NumberIsWhole == Whole(Atomic, <<"n">>)
<1> DEFINE v == <<"n">>
           at == A!Walk(v)
<1>1. v = <<"n">>
    OBVIOUS
<1> HIDE DEF v
<1>2. v \in Seq(Atomic) /\ Len(v) = 1
    BY <1>1 DEF Atomic
<1>3. Walked(v, at)
    BY <1>2, WalkIs
<1> HIDE DEF at
<1>4. \A n \in 1..1 : at[n + 1] = A!Step(at[n], v[n])
    BY <1>2, <1>3 DEF Walked
<1>5. at[1] = At(0)
    BY <1>3, OutsideIs DEF Walked
<1>6. at[2] = At(0)
    <2>1. at[2] = A!Step(at[1], v[1]) /\ v[1] = "n"
        BY <1>1, <1>4
    <2> QED
        BY <2>1, <1>5, Goes
<1>7. \A k \in 2..1 : at[k].depth >= 0 /\ (at[k].str \/ at[k].depth >= 1)
    <2> SUFFICES ASSUME NEW k \in 2..1 PROVE at[k].depth >= 0 /\ (at[k].str \/ at[k].depth >= 1)
        OBVIOUS
    <2>1. FALSE
        OBVIOUS
    <2> QED
        BY <2>1, <1>5, <1>6 DEF At, Reading, Escaping
<1>8. v[1] # "sp"
    BY <1>1
<1>9. Whole(Atomic, v)
    BY <1>2, <1>7, <1>6, <1>8, OutsideIs DEF Whole, at
<1> QED
    BY <1>9 DEF v

LEMMA ListedIsWhole == Whole(Atomic, <<"lbracket", "lbrace", "q", "model", "q", "colon", "q", "a", "q", "rbrace", "comma", "q", "model", "q", "rbracket">>)
<1> DEFINE v == <<"lbracket", "lbrace", "q", "model", "q", "colon", "q", "a", "q", "rbrace", "comma", "q", "model", "q", "rbracket">>
           at == A!Walk(v)
<1>1. v = <<"lbracket", "lbrace", "q", "model", "q", "colon", "q", "a", "q", "rbrace", "comma", "q", "model", "q", "rbracket">>
    OBVIOUS
<1> HIDE DEF v
<1>2. v \in Seq(Atomic) /\ Len(v) = 15
    BY <1>1 DEF Atomic
<1>3. Walked(v, at)
    BY <1>2, WalkIs
<1> HIDE DEF at
<1>4. \A n \in 1..15 : at[n + 1] = A!Step(at[n], v[n])
    BY <1>2, <1>3 DEF Walked
<1>5. at[1] = At(0)
    BY <1>3, OutsideIs DEF Walked
<1>6. at[2] = At(1)
    <2>1. at[2] = A!Step(at[1], v[1]) /\ v[1] = "lbracket"
        BY <1>1, <1>4
    <2> QED
        BY <2>1, <1>5, Goes
<1>7. at[3] = At(2)
    <2>1. at[3] = A!Step(at[2], v[2]) /\ v[2] = "lbrace"
        BY <1>1, <1>4
    <2> QED
        BY <2>1, <1>6, Goes
<1>8. at[4] = Reading(2)
    <2>1. at[4] = A!Step(at[3], v[3]) /\ v[3] = "q"
        BY <1>1, <1>4
    <2> QED
        BY <2>1, <1>7, Goes
<1>9. at[5] = Reading(2)
    <2>1. at[5] = A!Step(at[4], v[4]) /\ v[4] = "model"
        BY <1>1, <1>4
    <2> QED
        BY <2>1, <1>8, Goes
<1>10. at[6] = At(2)
    <2>1. at[6] = A!Step(at[5], v[5]) /\ v[5] = "q"
        BY <1>1, <1>4
    <2> QED
        BY <2>1, <1>9, Goes
<1>11. at[7] = At(2)
    <2>1. at[7] = A!Step(at[6], v[6]) /\ v[6] = "colon"
        BY <1>1, <1>4
    <2> QED
        BY <2>1, <1>10, Goes
<1>12. at[8] = Reading(2)
    <2>1. at[8] = A!Step(at[7], v[7]) /\ v[7] = "q"
        BY <1>1, <1>4
    <2> QED
        BY <2>1, <1>11, Goes
<1>13. at[9] = Reading(2)
    <2>1. at[9] = A!Step(at[8], v[8]) /\ v[8] = "a"
        BY <1>1, <1>4
    <2> QED
        BY <2>1, <1>12, Goes
<1>14. at[10] = At(2)
    <2>1. at[10] = A!Step(at[9], v[9]) /\ v[9] = "q"
        BY <1>1, <1>4
    <2> QED
        BY <2>1, <1>13, Goes
<1>15. at[11] = At(1)
    <2>1. at[11] = A!Step(at[10], v[10]) /\ v[10] = "rbrace"
        BY <1>1, <1>4
    <2> QED
        BY <2>1, <1>14, Goes
<1>16. at[12] = At(1)
    <2>1. at[12] = A!Step(at[11], v[11]) /\ v[11] = "comma"
        BY <1>1, <1>4
    <2> QED
        BY <2>1, <1>15, Goes
<1>17. at[13] = Reading(1)
    <2>1. at[13] = A!Step(at[12], v[12]) /\ v[12] = "q"
        BY <1>1, <1>4
    <2> QED
        BY <2>1, <1>16, Goes
<1>18. at[14] = Reading(1)
    <2>1. at[14] = A!Step(at[13], v[13]) /\ v[13] = "model"
        BY <1>1, <1>4
    <2> QED
        BY <2>1, <1>17, Goes
<1>19. at[15] = At(1)
    <2>1. at[15] = A!Step(at[14], v[14]) /\ v[14] = "q"
        BY <1>1, <1>4
    <2> QED
        BY <2>1, <1>18, Goes
<1>20. at[16] = At(0)
    <2>1. at[16] = A!Step(at[15], v[15]) /\ v[15] = "rbracket"
        BY <1>1, <1>4
    <2> QED
        BY <2>1, <1>19, Goes
<1>21. \A k \in 2..15 : at[k].depth >= 0 /\ (at[k].str \/ at[k].depth >= 1)
    <2> SUFFICES ASSUME NEW k \in 2..15 PROVE at[k].depth >= 0 /\ (at[k].str \/ at[k].depth >= 1)
        OBVIOUS
    <2>1. k = 2 \/ k = 3 \/ k = 4 \/ k = 5 \/ k = 6 \/ k = 7 \/ k = 8 \/ k = 9 \/ k = 10 \/ k = 11 \/ k = 12 \/ k = 13 \/ k = 14 \/ k = 15
        OBVIOUS
    <2> QED
        BY <2>1, <1>5, <1>6, <1>7, <1>8, <1>9, <1>10, <1>11, <1>12, <1>13, <1>14, <1>15, <1>16, <1>17, <1>18, <1>19, <1>20 DEF At, Reading, Escaping
<1>22. v[1] # "sp"
    BY <1>1
<1>23. Whole(Atomic, v)
    BY <1>2, <1>21, <1>20, <1>22, OutsideIs DEF Whole, at
<1> QED
    BY <1>23 DEF v
=============================================================================
