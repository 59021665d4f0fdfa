--------------------------- MODULE ProcessProofs ---------------------------
(***************************************************************************)
(* Proofs about the processes that come and go: about Cluster, whose       *)
(* workers send the primary their records, and about MeteringWriter, which *)
(* stores them whatever interrupts it.  The two share no state; each is    *)
(* proved for its own specification.                                       *)
(***************************************************************************)
EXTENDS Cluster, MeteringWriter, FiniteSetTheorems, TLAPS

-----------------------------------------------------------------------------
(***************************************************************************)
(* Proofs about Cluster, for any set of workers and requests and any       *)
(* number of exits: a record is in one place at a time, and a clean stop   *)
(* loses nothing.                                                          *)
(***************************************************************************)

(***************************************************************************)
(* OnePlace, place by place.  What a worker holds is in a function from    *)
(* workers, what the primary has in a set.                                 *)
(***************************************************************************)
NeverBoth(f, g) == \A v, w \in Worker : f[v] \cap g[w] = {}
NeverIn(f, s)   == \A w \in Worker : f[w] \cap s = {}

Apart ==
    /\ Disjoint(open) /\ Disjoint(local) /\ Disjoint(link) /\ Disjoint(pipe)
    /\ NeverBoth(open, local) /\ NeverBoth(open, link) /\ NeverBoth(open, pipe)
    /\ NeverBoth(local, link) /\ NeverBoth(local, pipe) /\ NeverBoth(link, pipe)
    /\ \A f \in {open, local, link, pipe} : \A s \in {queue, stored, lost} : NeverIn(f, s)
    /\ queue \cap stored = {} /\ queue \cap lost = {} /\ stored \cap lost = {}

(***************************************************************************)
(* A worker that closed its sink has nothing left in it, and one that has  *)
(* exited has nothing left but what is in its pipe, which the primary has  *)
(* read when it notices the exit.                                          *)
(***************************************************************************)
Emptied ==
    \A w \in Worker :
        /\ worker[w] = "leaving" => local[w] = {} /\ (calm => open[w] = {})
        /\ worker[w] \in {"dead", "gone", "respawn"} =>
              open[w] = {} /\ local[w] = {} /\ link[w] = {}
        /\ worker[w] \in {"gone", "respawn"} => pipe[w] = {}

(***************************************************************************)
(* While nothing has gone wrong nothing is lost, and the primary closes    *)
(* its sink only when it has noticed every exit.                           *)
(***************************************************************************)
CalmSoFar ==
    calm => /\ lost = {}
            /\ primary \in {"closing", "exited"} =>
                  \A w \in Worker : worker[w] \in {"gone", "respawn"}
            /\ primary = "exited" => queue = {}

Whereabouts == TypeOK /\ Apart /\ Emptied /\ CalmSoFar

-----------------------------------------------------------------------------

LEMMA HeldMember ==
    ASSUME NEW f, NEW x
    PROVE  x \in Held(f) <=> \E w \in Worker : x \in f[w]
  BY DEF Held

LEMMA ApartIsOnePlace == TypeOK /\ Apart => OnePlace
PROOF
<1> SUFFICES ASSUME TypeOK, Apart
             PROVE  OnePlace
  OBVIOUS
<1> DEFINE stage == <<Held(open), Held(local), Held(link), Held(pipe), queue, stored, lost>>
<1>1. /\ Held(open) \cap Held(local) = {} /\ Held(open) \cap Held(link) = {}
      /\ Held(open) \cap Held(pipe) = {} /\ Held(local) \cap Held(link) = {}
      /\ Held(local) \cap Held(pipe) = {} /\ Held(link) \cap Held(pipe) = {}
  BY HeldMember DEF Apart, NeverBoth
<1>2. \A f \in {open, local, link, pipe} : \A s \in {queue, stored, lost} : Held(f) \cap s = {}
  BY HeldMember DEF Apart, NeverIn
<1>3. queue \cap stored = {} /\ queue \cap lost = {} /\ stored \cap lost = {}
  BY DEF Apart
<1> HIDE DEF stage
<1>4. /\ DOMAIN stage = 1..7
      /\ stage[1] = Held(open) /\ stage[2] = Held(local) /\ stage[3] = Held(link)
      /\ stage[4] = Held(pipe) /\ stage[5] = queue /\ stage[6] = stored /\ stage[7] = lost
  BY DEF stage
<1>5. \A i, j \in DOMAIN stage : i < j => stage[i] \cap stage[j] = {}
  BY <1>1, <1>2, <1>3, <1>4
<1>6. \A i, j \in DOMAIN stage : i # j => stage[i] \cap stage[j] = {}
  BY <1>4, <1>5
<1> QED
  BY <1>6 DEF OnePlace, Apart, stage

LEMMA WhereaboutsInit == Init => Whereabouts
  BY ClusterAssumption
     DEF Init, Whereabouts, TypeOK, Apart, Emptied, CalmSoFar, Disjoint, NeverBoth, NeverIn

-----------------------------------------------------------------------------

(***************************************************************************)
(* A record that moves on within one worker, or from a worker to the       *)
(* primary, leaves the place it was in, and nobody else has it.            *)
(***************************************************************************)
LEMMA RecordMoves ==
    ASSUME Whereabouts, NEW w \in Worker,
           \/ \E r \in Request : Accept(w, r) \/ RequestEnds(w, r)
           \/ \E sent \in (SUBSET local[w]) \ {{}} : Flush(w, sent)
           \/ SendCompletes(w) \/ Receive(w)
    PROVE  Whereabouts'
PROOF
<1> USE DEF Whereabouts
<1>1. ASSUME NEW r \in Request, Accept(w, r)
      PROVE  Whereabouts'
  <2>1. TypeOK'
    BY <1>1 DEF TypeOK, Accept
  <2>2. Apart'
    BY <1>1, HeldMember DEF TypeOK, Accept, Apart, Disjoint, NeverBoth, NeverIn, Sent
  <2>3. Emptied' /\ CalmSoFar'
    BY <1>1 DEF TypeOK, Accept, Emptied, CalmSoFar
  <2> QED
    BY <2>1, <2>2, <2>3
<1>2. ASSUME NEW r \in Request, RequestEnds(w, r)
      PROVE  Whereabouts'
  <2>1. TypeOK'
    BY <1>2 DEF TypeOK, RequestEnds
  <2>2. Apart'
    BY <1>2 DEF TypeOK, RequestEnds, Apart, Disjoint, NeverBoth, NeverIn
  <2>3. Emptied' /\ CalmSoFar'
    BY <1>2 DEF TypeOK, RequestEnds, Emptied, CalmSoFar, running
  <2> QED
    BY <2>1, <2>2, <2>3
<1>3. ASSUME NEW sent \in SUBSET local[w], Flush(w, sent)
      PROVE  Whereabouts'
  <2>1. TypeOK'
    BY <1>3 DEF TypeOK, Flush
  <2>2. Apart'
    BY <1>3 DEF TypeOK, Flush, Apart, Disjoint, NeverBoth, NeverIn
  <2>3. Emptied' /\ CalmSoFar'
    BY <1>3 DEF TypeOK, Flush, Emptied, CalmSoFar
  <2> QED
    BY <2>1, <2>2, <2>3
<1>4. CASE SendCompletes(w)
  <2>1. TypeOK'
    BY <1>4 DEF TypeOK, SendCompletes
  <2>2. Apart'
    BY <1>4 DEF TypeOK, SendCompletes, Apart, Disjoint, NeverBoth, NeverIn
  <2>3. Emptied' /\ CalmSoFar'
    BY <1>4 DEF TypeOK, SendCompletes, Emptied, CalmSoFar, running
  <2> QED
    BY <2>1, <2>2, <2>3
<1>5. CASE Receive(w)
  <2>1. TypeOK'
    BY <1>5 DEF TypeOK, Receive
  <2>2. Apart'
    BY <1>5 DEF TypeOK, Receive, Apart, Disjoint, NeverBoth, NeverIn
  <2>3. Emptied' /\ CalmSoFar'
    BY <1>5 DEF TypeOK, Receive, Emptied, CalmSoFar
  <2> QED
    BY <2>1, <2>2, <2>3
<1> QED
  BY <1>1, <1>2, <1>3, <1>4, <1>5

(***************************************************************************)
(* What a process held when it ended is lost, once.  Nothing is lost with  *)
(* a worker that had emptied itself.                                       *)
(***************************************************************************)
LEMMA DeathMoves ==
    ASSUME Whereabouts, NEW dying \in SUBSET Worker, Die(dying),
           UNCHANGED <<pipe, queue, stored>>
    PROVE  /\ open' \in [Worker -> SUBSET Request] /\ local' \in [Worker -> SUBSET Request]
           /\ link' \in [Worker -> SUBSET Request] /\ pipe' \in [Worker -> SUBSET Request]
           /\ lost' \subseteq Request
           /\ Apart'
           /\ (\A w \in dying : open[w] = {} /\ local[w] = {} /\ link[w] = {}) => lost' = lost
PROOF
<1> USE DEF Whereabouts, TypeOK
<1>0. \A x : x \in lost' <=> \/ x \in lost
                             \/ \E w \in dying : x \in open[w] \/ x \in local[w] \/ x \in link[w]
  BY DEF Die
<1>1. /\ open' \in [Worker -> SUBSET Request] /\ local' \in [Worker -> SUBSET Request]
      /\ link' \in [Worker -> SUBSET Request] /\ pipe' \in [Worker -> SUBSET Request]
  BY DEF Die
<1>2. lost' \subseteq Request
  BY <1>0
<1>3. \A w \in Worker : /\ open'[w] = IF w \in dying THEN {} ELSE open[w]
                        /\ local'[w] = IF w \in dying THEN {} ELSE local[w]
                        /\ link'[w] = IF w \in dying THEN {} ELSE link[w]
                        /\ pipe'[w] = pipe[w]
  BY DEF Die
<1>4. Apart'
  <2>1. /\ Disjoint(open') /\ Disjoint(local') /\ Disjoint(link') /\ Disjoint(pipe')
        /\ NeverBoth(open', local') /\ NeverBoth(open', link') /\ NeverBoth(open', pipe')
        /\ NeverBoth(local', link') /\ NeverBoth(local', pipe') /\ NeverBoth(link', pipe')
    BY <1>3 DEF Apart, Disjoint, NeverBoth
  <2>2. \A s \in {queue', stored'} : /\ NeverIn(open', s) /\ NeverIn(local', s)
                                     /\ NeverIn(link', s) /\ NeverIn(pipe', s)
    BY <1>3 DEF Apart, NeverIn
  <2>3. /\ NeverIn(open', lost') /\ NeverIn(local', lost')
        /\ NeverIn(link', lost') /\ NeverIn(pipe', lost')
    BY <1>0, <1>3 DEF Apart, Disjoint, NeverBoth, NeverIn
  <2>4. queue' \cap stored' = {} /\ queue' \cap lost' = {} /\ stored' \cap lost' = {}
    BY <1>0 DEF Apart, NeverIn
  <2> QED
    BY <2>1, <2>2, <2>3, <2>4 DEF Apart, Disjoint, NeverBoth, NeverIn
<1>5. (\A w \in dying : open[w] = {} /\ local[w] = {} /\ link[w] = {}) => lost' = lost
  BY <1>0
<1> QED
  BY <1>1, <1>2, <1>4, <1>5

(***************************************************************************)
(* A worker stops: on a signal, drained or at the end of its grace, by     *)
(* itself or by a crash, and is replaced.                                  *)
(***************************************************************************)
LEMMA WorkerStops ==
    ASSUME Whereabouts, NEW w \in Worker,
           \/ Signal(w) \/ Drained(w) \/ GraceExpires(w)
           \/ Exit(w) \/ ExitHasty(w) \/ Crash(w)
           \/ NoticeExit(w) \/ Fork(w)
    PROVE  Whereabouts'
PROOF
<1> USE ClusterAssumption DEF Whereabouts
<1>1. CASE Signal(w)
  BY <1>1 DEF Signal, places, TypeOK, Apart, Disjoint, NeverBoth, NeverIn, Emptied, CalmSoFar
<1>2. CASE Drained(w) \/ GraceExpires(w)
  <2>1. /\ worker[w] = "draining" /\ CloseSink(w)
        /\ UNCHANGED <<primary, open, pipe, queue, stored, lost, exits>>
        /\ calm' = (calm /\ open[w] = {})
    BY <1>2 DEF Drained, GraceExpires, TypeOK
  <2>2. TypeOK'
    BY <2>1 DEF TypeOK, CloseSink
  <2>3. Apart'
    BY <2>1 DEF TypeOK, CloseSink, Apart, Disjoint, NeverBoth, NeverIn
  <2>4. Emptied' /\ CalmSoFar'
    BY <2>1 DEF TypeOK, CloseSink, Emptied, CalmSoFar
  <2> QED
    BY <2>2, <2>3, <2>4
<1>3. CASE Exit(w) \/ ExitHasty(w) \/ Crash(w)
  <2>1. /\ running(w) /\ Die({w}) /\ UNCHANGED <<primary, pipe, queue, stored>>
        /\ calm' => calm /\ worker[w] = "leaving" /\ link[w] = {} /\ open[w] = {}
        /\ calm' \in BOOLEAN
        /\ primary = "serving" => exits < MaxExits
        /\ exits' = IF primary = "serving" THEN exits + 1 ELSE exits
    <3>1. CASE Exit(w)
      BY <3>1 DEF Exit, TypeOK, running
    <3>2. CASE ExitHasty(w) \/ Crash(w)
      BY <3>2 DEF ExitHasty, Crash, running
    <3> QED
      BY <1>3, <3>1, <3>2
  <2>bound. exits' \in 0..MaxExits
    BY <2>1 DEF TypeOK
  <2>2. worker' = [v \in Worker |-> IF v \in {w} THEN "dead" ELSE worker[v]]
    BY <2>1 DEF Die
  <2>3. /\ open' \in [Worker -> SUBSET Request] /\ local' \in [Worker -> SUBSET Request]
        /\ link' \in [Worker -> SUBSET Request] /\ pipe' \in [Worker -> SUBSET Request]
        /\ lost' \subseteq Request
        /\ Apart'
        /\ open[w] = {} /\ local[w] = {} /\ link[w] = {} => lost' = lost
    BY <2>1, DeathMoves
  <2>4. TypeOK'
    BY <2>1, <2>bound, <2>2, <2>3 DEF TypeOK
  <2>5. Emptied'
    BY <2>1, <2>2 DEF TypeOK, Die, Emptied, running
  <2>6. CalmSoFar'
    BY <2>1, <2>2, <2>3 DEF TypeOK, Emptied, CalmSoFar, running
  <2> QED
    BY <2>3, <2>4, <2>5, <2>6
<1>4. CASE NoticeExit(w) \/ Fork(w)
  <2>1. TypeOK'
    BY <1>4 DEF NoticeExit, Fork, places, TypeOK
  <2>2. Apart'
    BY <1>4 DEF NoticeExit, Fork, places, Apart, Disjoint, NeverBoth, NeverIn
  <2>3. Emptied' /\ CalmSoFar'
    BY <1>4 DEF NoticeExit, Fork, places, TypeOK, Emptied, CalmSoFar, shuttingDown
  <2> QED
    BY <2>1, <2>2, <2>3
<1> QED
  BY <1>1, <1>2, <1>3, <1>4

(***************************************************************************)
(* The primary stores a batch, stops, or dies.                             *)
(***************************************************************************)
LEMMA PrimaryMoves ==
    ASSUME Whereabouts,
           \/ \E sent \in (SUBSET queue) \ {{}} : Store(sent)
           \/ Shutdown \/ WorkersGone \/ ForceStop \/ PrimaryExits \/ PrimaryCrash
    PROVE  Whereabouts'
PROOF
<1> USE ClusterAssumption DEF Whereabouts
<1>1. ASSUME NEW sent \in SUBSET queue, Store(sent)
      PROVE  Whereabouts'
  <2>1. TypeOK' /\ Emptied' /\ CalmSoFar'
    BY <1>1 DEF Store, TypeOK, Emptied, CalmSoFar
  <2>2. Apart'
    BY <1>1 DEF Store, TypeOK, Apart, Disjoint, NeverBoth, NeverIn
  <2> QED
    BY <2>1, <2>2
<1>2. CASE Shutdown
  <2>1. TypeOK' /\ Emptied' /\ CalmSoFar'
    BY <1>2 DEF Shutdown, places, TypeOK, Emptied, CalmSoFar
  <2>2. Apart'
    BY <1>2 DEF Shutdown, places, Apart, Disjoint, NeverBoth, NeverIn
  <2> QED
    BY <2>1, <2>2
<1>3. CASE WorkersGone
  <2>1. TypeOK' /\ Emptied'
    BY <1>3 DEF WorkersGone, places, TypeOK, Emptied
  <2>2. \A w \in Worker : worker[w] \in {"gone", "respawn"}
    BY <1>3 DEF WorkersGone, live, running, TypeOK
  <2>3. CalmSoFar'
    BY <1>3, <2>2 DEF WorkersGone, places, CalmSoFar
  <2>4. Apart'
    BY <1>3 DEF WorkersGone, places, Apart, Disjoint, NeverBoth, NeverIn
  <2> QED
    BY <2>1, <2>3, <2>4
<1>4. CASE ForceStop
  <2> DEFINE killed == {w \in Worker : running(w)}
  <2>1. /\ Die(killed) /\ killed \in SUBSET Worker
        /\ primary' = "closing" /\ calm' = FALSE
        /\ UNCHANGED <<pipe, queue, stored, exits>>
    BY <1>4 DEF ForceStop
  <2>2. \A w \in Worker : w \in killed <=> running(w)
    OBVIOUS
  <2> HIDE DEF killed
  <2>3. worker' = [v \in Worker |-> IF v \in killed THEN "dead" ELSE worker[v]]
    BY <2>1 DEF Die
  <2>4. /\ open' \in [Worker -> SUBSET Request] /\ local' \in [Worker -> SUBSET Request]
        /\ link' \in [Worker -> SUBSET Request] /\ pipe' \in [Worker -> SUBSET Request]
        /\ lost' \subseteq Request
        /\ Apart'
    BY <2>1, DeathMoves
  <2>5. TypeOK'
    BY <2>1, <2>3, <2>4 DEF TypeOK
  <2>6. Emptied' /\ CalmSoFar'
    BY <2>1, <2>2, <2>3 DEF TypeOK, Die, Emptied, CalmSoFar, running
  <2> QED
    BY <2>4, <2>5, <2>6
<1>5. CASE PrimaryExits
  <2>1. \A x : x \in lost' <=> x \in lost \/ \E w \in Worker : x \in pipe[w]
    BY <1>5, HeldMember DEF PrimaryExits
  <2>2. TypeOK'
    BY <1>5, <2>1 DEF PrimaryExits, TypeOK
  <2>3. Emptied'
    BY <1>5 DEF PrimaryExits, TypeOK, Emptied
  <2>4. CalmSoFar'
    BY <1>5, <2>1 DEF PrimaryExits, TypeOK, Emptied, CalmSoFar
  <2>5. Apart'
    BY <1>5, <2>1 DEF PrimaryExits, TypeOK, Apart, Disjoint, NeverBoth, NeverIn
  <2> QED
    BY <2>2, <2>3, <2>4, <2>5
<1>6. CASE PrimaryCrash
  <2>1. lost' \subseteq Request /\ lost' \cap stored = {}
    BY <1>6, HeldMember DEF PrimaryCrash, Sent, TypeOK
  <2>2. TypeOK'
    BY <1>6, <2>1 DEF PrimaryCrash, TypeOK
  <2>3. Emptied' /\ CalmSoFar'
    BY <1>6 DEF PrimaryCrash, Emptied, CalmSoFar
  <2>4. Apart'
    BY <1>6, <2>1 DEF PrimaryCrash, Apart, Disjoint, NeverBoth, NeverIn
  <2> QED
    BY <2>2, <2>3, <2>4
<1> QED
  BY <1>1, <1>2, <1>3, <1>4, <1>5, <1>6

LEMMA WhereaboutsNext == Whereabouts /\ [Next]_vars => Whereabouts'
PROOF
<1> SUFFICES ASSUME Whereabouts, [Next]_vars
             PROVE  Whereabouts'
  OBVIOUS
<1>1. CASE UNCHANGED vars
  BY <1>1 DEF vars, places, Whereabouts, TypeOK, Apart, Disjoint, NeverBoth, NeverIn,
              Emptied, CalmSoFar
<1>2. CASE Next
  BY <1>2, RecordMoves, WorkerStops, PrimaryMoves DEF Next
<1> QED
  BY <1>1, <1>2

-----------------------------------------------------------------------------

(***************************************************************************)
(* No two processes, and no process and the store, hold the same record,   *)
(* through crashes, kills and respawns (cluster/primary.ts, worker.ts).    *)
(***************************************************************************)
THEOREM RecordInOnePlace == Spec => []OnePlace
PROOF
<1>1. Whereabouts => OnePlace
  BY ApartIsOnePlace DEF Whereabouts
<1> QED
  BY <1>1, WhereaboutsInit, WhereaboutsNext, PTL DEF Spec

(***************************************************************************)
(* A cluster that has stopped without a crash, a kill or a deadline has    *)
(* stored every request its workers accepted (primary.ts:171).             *)
(***************************************************************************)
THEOREM CleanStopStoresAll == Spec => []CleanStopLosesNothing
PROOF
<1>1. Whereabouts => CleanStopLosesNothing
  <2> SUFFICES ASSUME Whereabouts, primary = "exited", calm
               PROVE  Sent = stored
    BY DEF CleanStopLosesNothing
  <2>1. /\ lost = {} /\ queue = {}
        /\ \A w \in Worker : open[w] = {} /\ local[w] = {} /\ link[w] = {} /\ pipe[w] = {}
    BY DEF Whereabouts, Emptied, CalmSoFar
  <2>2. Held(open) = {} /\ Held(local) = {} /\ Held(link) = {} /\ Held(pipe) = {}
    BY <2>1, HeldMember
  <2> QED
    BY <2>1, <2>2 DEF Sent
<1> QED
  BY <1>1, WhereaboutsInit, WhereaboutsNext, PTL DEF Spec

-----------------------------------------------------------------------------
(***************************************************************************)
(* Proofs about MeteringWriter, for any records and whatever user and      *)
(* model they have: the rollups agree with the rows, nothing is counted    *)
(* twice, and a batch becomes durable whole.                               *)
(***************************************************************************)

(***************************************************************************)
(* The rows of R that fall in cell c; a pair of rows and rollups whose     *)
(* cells count each row at most once, or exactly once.                     *)
(***************************************************************************)
Filed(R, c)   == {r \in R : c \in Keys(r)}
AtMost(R, U)  == \A c \in Cells : U[c] <= Cardinality(Filed(R, c))
Exactly(R, U) == \A c \in Cells : U[c] = Cardinality(Filed(R, c))

(***************************************************************************)
(* The inductive invariant.  Both what this connection sees and what a     *)
(* rollback would restore count correctly; an open transaction has added   *)
(* to the rows exactly the well-formed records the loop has passed; and a  *)
(* loop that runs without its transaction knows that it has lapsed.        *)
(***************************************************************************)
Counted ==
    /\ AtMost(rows, rollup) /\ AtMost(saved.rows, saved.rollup)
    /\ ~torn => Exactly(rows, rollup) /\ Exactly(saved.rows, saved.rollup)

InFlight ==
    /\ inTx => writing /\ rows = saved.rows \cup ((batch \ todo) \ Bad)
    /\ todo # {} => inTx \/ lapsed

Told == PublishedStored

WInv == WriterTypeOK /\ Counted /\ InFlight /\ Told

-----------------------------------------------------------------------------

LEMMA FiledFinite ==
    ASSUME NEW R \in SUBSET Rec, NEW c
    PROVE  IsFiniteSet(Filed(R, c)) /\ Cardinality(Filed(R, c)) \in Nat
PROOF
<1>1. IsFiniteSet(Rec)
  BY WriterAssumption
<1>2. Filed(R, c) \subseteq Rec
  BY DEF Filed
<1> QED
  BY <1>1, <1>2, FS_Subset, FS_CardinalityType

(***************************************************************************)
(* One more row adds one to the cells it falls in and nothing elsewhere,   *)
(* however many of its four keys coincide (write.ts:333).                  *)
(***************************************************************************)
LEMMA OneMoreRow ==
    ASSUME NEW R \in SUBSET Rec, NEW r \in Rec \ R, NEW c
    PROVE  Cardinality(Filed(R \cup {r}, c)) =
               IF c \in Keys(r) THEN Cardinality(Filed(R, c)) + 1
                                ELSE Cardinality(Filed(R, c))
PROOF
<1>1. IsFiniteSet(Filed(R, c)) /\ r \notin Filed(R, c)
  BY FiledFinite DEF Filed
<1>2. CASE c \in Keys(r)
  <2>1. Filed(R \cup {r}, c) = Filed(R, c) \cup {r}
    BY <1>2 DEF Filed
  <2> QED
    BY <1>1, <1>2, <2>1, FS_AddElement
<1>3. CASE c \notin Keys(r)
  <2>1. Filed(R \cup {r}, c) = Filed(R, c)
    BY <1>3 DEF Filed
  <2> QED
    BY <1>3, <2>1
<1> QED
  BY <1>2, <1>3

(***************************************************************************)
(* A row stored with some of its rollups keeps the cells from counting too *)
(* much, and one stored with all of them keeps them exact.                 *)
(***************************************************************************)
LEMMA RowCounted ==
    ASSUME NEW R \in SUBSET Rec, NEW U \in [Cells -> Nat], NEW r \in Rec \ R,
           NEW done \in SUBSET Keys(r)
    PROVE  /\ Increment(U, r, done) \in [Cells -> Nat]
           /\ AtMost(R, U) => AtMost(R \cup {r}, Increment(U, r, done))
           /\ Exactly(R, U) /\ done = Keys(r) => Exactly(R \cup {r}, Increment(U, r, done))
PROOF
<1>1. Increment(U, r, done) \in [Cells -> Nat]
  BY DEF Increment
<1>2. \A c \in Cells : Increment(U, r, done)[c] = IF c \in done THEN U[c] + 1 ELSE U[c]
  BY DEF Increment
<1>3. \A c \in Cells : /\ Cardinality(Filed(R, c)) \in Nat
                       /\ Cardinality(Filed(R \cup {r}, c)) =
                            IF c \in Keys(r) THEN Cardinality(Filed(R, c)) + 1
                                             ELSE Cardinality(Filed(R, c))
  BY FiledFinite, OneMoreRow
<1>4. AtMost(R, U) => AtMost(R \cup {r}, Increment(U, r, done))
  <2> SUFFICES ASSUME AtMost(R, U), NEW c \in Cells
               PROVE  Increment(U, r, done)[c] <= Cardinality(Filed(R \cup {r}, c))
    BY DEF AtMost
  <2>1. /\ U[c] <= Cardinality(Filed(R, c)) /\ U[c] \in Nat
        /\ Cardinality(Filed(R, c)) \in Nat
    BY <1>3 DEF AtMost
  <2>2. CASE c \in Keys(r)
    <3>1. Cardinality(Filed(R \cup {r}, c)) = Cardinality(Filed(R, c)) + 1
      BY <1>3, <2>2
    <3>2. Increment(U, r, done)[c] = U[c] + 1 \/ Increment(U, r, done)[c] = U[c]
      BY <1>2
    <3> QED
      BY <2>1, <3>1, <3>2
  <2>3. CASE c \notin Keys(r)
    BY <1>2, <1>3, <2>1, <2>3
  <2> QED
    BY <2>2, <2>3
<1>5. Exactly(R, U) /\ done = Keys(r) => Exactly(R \cup {r}, Increment(U, r, done))
  BY <1>2, <1>3 DEF Exactly
<1> QED
  BY <1>1, <1>4, <1>5

LEMMA WInvInit == WriterInit => WInv
PROOF
<1> SUFFICES ASSUME WriterInit
             PROVE  WInv
  OBVIOUS
<1>1. \A c : Filed({}, c) = {}
  BY DEF Filed
<1>2. Exactly({}, [c \in Cells |-> 0]) /\ AtMost({}, [c \in Cells |-> 0])
  BY <1>1, FS_EmptySet DEF Exactly, AtMost
<1>3. /\ rows = {} /\ rollup = [c \in Cells |-> 0]
      /\ saved.rows = {} /\ saved.rollup = [c \in Cells |-> 0]
  BY DEF WriterInit
<1>4. Counted
  BY <1>2, <1>3 DEF Counted
<1>5. WriterTypeOK
  <2>1. rollup \in [Cells -> Nat] /\ saved.rollup \in [Cells -> Nat]
    BY <1>3
  <2> QED
    BY <1>3, <2>1 DEF WriterInit, WriterTypeOK
<1>6. InFlight /\ Told
  BY DEF WriterInit, InFlight, Told, PublishedStored, durableRows
<1> QED
  BY <1>4, <1>5, <1>6 DEF WInv

-----------------------------------------------------------------------------

(***************************************************************************)
(* Outside the loop: a record arrives, a transaction is refused, opened or *)
(* waited for, another connection takes the lock.                          *)
(***************************************************************************)
LEMMA Outside ==
    ASSUME WInv,
           \/ \E r \in Rec : Arrive(r)
           \/ BeginRefused \/ BeginBusy \/ OtherConnection
           \/ \E b \in (SUBSET waiting) \ {{}} : Begin(b)
           \/ UNCHANGED writerVars
    PROVE  WInv'
PROOF
<1> USE DEF WInv, dbVars, callVars, sinkVars, writing
<1>1. CASE \/ \E r \in Rec : Arrive(r)
           \/ BeginRefused \/ BeginBusy \/ OtherConnection \/ UNCHANGED writerVars
  <2>1. WriterTypeOK'
    <3>1. CASE \/ \E r \in Rec : Arrive(r)
               \/ BeginRefused \/ BeginBusy
      BY <3>1 DEF WriterTypeOK, Arrive, BeginRefused, BeginBusy
    <3>2. CASE OtherConnection
      BY <3>2 DEF WriterTypeOK, OtherConnection
    <3>3. CASE UNCHANGED writerVars
      BY <3>3 DEF WriterTypeOK, writerVars
    <3> QED
      BY <1>1, <3>1, <3>2, <3>3
  <2>2. UNCHANGED <<rows, rollup, saved, inTx, lapsed, torn, batch, todo, published>>
    BY <1>1 DEF Arrive, BeginRefused, BeginBusy, OtherConnection, writerVars
  <2>3. Counted'
    BY <2>2 DEF Counted, AtMost, Exactly
  <2>4. InFlight' /\ Told'
    BY <2>2 DEF InFlight, Told, PublishedStored, durableRows
  <2> QED
    BY <2>1, <2>3, <2>4
<1>2. ASSUME NEW b \in (SUBSET waiting) \ {{}}, Begin(b)
      PROVE  WInv'
  <2>1. /\ UNCHANGED <<rows, rollup, torn, published>>
        /\ saved'.rows = rows /\ saved'.rollup = rollup
        /\ inTx' = TRUE /\ batch' = b /\ todo' = b /\ ~inTx
    BY <1>2 DEF Begin, InFlight
  <2>2. WriterTypeOK'
    BY <1>2, <2>1 DEF WriterTypeOK, Begin
  <2>3. Counted'
    BY <2>1 DEF Counted, AtMost, Exactly
  <2>4. InFlight' /\ Told'
    BY <2>1 DEF InFlight, Told, PublishedStored, durableRows
  <2> QED
    BY <2>2, <2>3, <2>4
<1> QED
  BY <1>1, <1>2

(***************************************************************************)
(* A turn of the loop: the record is skipped, written with its rollups, or *)
(* its statement fails, with the transaction or after it.                  *)
(***************************************************************************)
LEMMA Turn ==
    ASSUME WInv, NEW r \in Rec, SkipRecord(r) \/ WriteRecord(r) \/ StatementFails(r)
    PROVE  WInv'
PROOF
<1> USE DEF WInv, dbVars, callVars, sinkVars, writing
<1>1. CASE SkipRecord(r)
  <2>1. WriterTypeOK' /\ InFlight' /\ Told'
    BY <1>1 DEF SkipRecord, WriterTypeOK, InFlight, Told, PublishedStored, durableRows
  <2>2. Counted'
    BY <1>1 DEF SkipRecord, Counted, AtMost, Exactly
  <2> QED
    BY <2>1, <2>2
<1>2. CASE WriteRecord(r)
  <2>1. /\ Increment(rollup, r, Keys(r)) \in [Cells -> Nat]
        /\ AtMost(rows, rollup) => AtMost(rows', rollup')
        /\ Exactly(rows, rollup) => Exactly(rows', rollup')
    BY <1>2, RowCounted DEF WriteRecord, WriterTypeOK
  <2>2. WriterTypeOK'
    BY <1>2, <2>1 DEF WriteRecord, WriterTypeOK
  <2>3. Counted'
    BY <1>2, <2>1 DEF WriteRecord, Counted, AtMost, Exactly
  <2>4. InFlight' /\ Told'
    BY <1>2 DEF WriteRecord, WriterTypeOK, InFlight, Told, PublishedStored, durableRows
  <2> QED
    BY <2>2, <2>3, <2>4
<1>3. CASE StatementFails(r)
  <2>1. /\ r \in todo /\ todo' = todo \ {r} /\ inTx' = FALSE /\ lapsed' = TRUE
        /\ r \notin rows
        /\ UNCHANGED <<saved, batch, published>>
        /\ UNCHANGED <<depth, fault, waiting, locked>>
    BY <1>3 DEF StatementFails
  <2>2. CASE inTx /\ rows' = saved.rows /\ rollup' = saved.rollup /\ torn' = torn
    BY <2>1, <2>2 DEF WriterTypeOK, Counted, AtMost, Exactly, InFlight, Told, PublishedStored, durableRows
  <2>3. CASE ~inTx /\ UNCHANGED <<rows, rollup, torn>>
    BY <2>1, <2>3 DEF WriterTypeOK, Counted, AtMost, Exactly, InFlight, Told, PublishedStored, durableRows
  <2>4. ASSUME ~inTx, rows' = rows \cup {r}, torn' = TRUE,
               NEW done \in SUBSET Keys(r), rollup' = Increment(rollup, r, done)
        PROVE  WInv'
    <3>1. rollup' \in [Cells -> Nat] /\ (AtMost(rows, rollup) => AtMost(rows', rollup'))
      BY <2>1, <2>4, RowCounted DEF WriterTypeOK
    <3>2. WriterTypeOK'
      BY <2>1, <2>4, <3>1 DEF WriterTypeOK
    <3>3. Counted'
      BY <2>1, <2>4, <3>1 DEF Counted, AtMost
    <3>4. InFlight' /\ Told'
      BY <2>1, <2>4 DEF InFlight, Told, PublishedStored, durableRows
    <3> QED
      BY <3>2, <3>3, <3>4
  <2> QED
    BY <1>3, <2>2, <2>3, <2>4 DEF StatementFails
<1> QED
  BY <1>1, <1>2, <1>3

(***************************************************************************)
(* The end of a batch: committed, thrown, or lost with the process.        *)
(***************************************************************************)
LEMMA BatchEnds ==
    ASSUME WInv, Commit \/ CommitThrows \/ ProcessCrash
    PROVE  WInv'
PROOF
<1> USE DEF WInv, dbVars, callVars, sinkVars, writing
<1>1. CASE Commit
  <2>1. WriterTypeOK' /\ InFlight'
    BY <1>1 DEF Commit, WriterTypeOK, InFlight
  <2>2. Counted'
    BY <1>1 DEF Commit, Counted, AtMost, Exactly
  <2>3. Told'
    BY <1>1 DEF Commit, InFlight, Told, PublishedStored, durableRows
  <2> QED
    BY <2>1, <2>2, <2>3
<1>2. CASE CommitThrows
  <2>1. WriterTypeOK' /\ InFlight' /\ Told'
    BY <1>2 DEF CommitThrows, WriterTypeOK, InFlight, Told, PublishedStored, durableRows
  <2>2. Counted'
    BY <1>2 DEF CommitThrows, Counted, AtMost, Exactly
  <2> QED
    BY <2>1, <2>2
<1>3. CASE ProcessCrash
  <2>1. saved'.rows = rows' /\ saved'.rollup = rollup'
    BY <1>3 DEF ProcessCrash
  <2>2. WriterTypeOK' /\ InFlight' /\ Told'
    BY <1>3, <2>1 DEF ProcessCrash, WriterTypeOK, InFlight, Told, PublishedStored, durableRows
  <2>3. Counted'
    BY <1>3, <2>1 DEF ProcessCrash, Counted, AtMost, Exactly
  <2> QED
    BY <2>2, <2>3
<1> QED
  BY <1>1, <1>2, <1>3

LEMMA WInvNext == WInv /\ [WriterNext]_writerVars => WInv'
  BY Outside, Turn, BatchEnds DEF WriterNext

-----------------------------------------------------------------------------

LEMMA DurableCounts ==
    ASSUME WInv
    PROVE  AtMost(durableRows, durableRollup) /\ (~torn => Exactly(durableRows, durableRollup))
  BY DEF WInv, Counted, durableRows, durableRollup

(***************************************************************************)
(* The hourly rollups equal the rows they summarise at every moment a      *)
(* reader or a crash may look, unless a row was left half done (write.ts). *)
(***************************************************************************)
THEOREM RollupsAgreeAlways == WriterSpec => []RollupsAgree
PROOF
<1>1. WInv => RollupsAgree
  BY DurableCounts DEF RollupsAgree, Agree, Exactly, RowsIn, Filed
<1> QED
  BY <1>1, WInvInit, WInvNext, PTL DEF WriterSpec

(***************************************************************************)
(* No row is counted twice, however often its batch is retried, and the    *)
(* live feed is told of nothing that is not stored (fest.ts:229).          *)
(***************************************************************************)
THEOREM NothingTwice == WriterSpec => []StoredOnce
PROOF
<1>1. WInv => StoredOnce
  BY DurableCounts DEF StoredOnce, NoDoubleCount, AtMost, RowsIn, Filed, WInv, Told
<1> QED
  BY <1>1, WInvInit, WInvNext, PTL DEF WriterSpec

(***************************************************************************)
(* A batch becomes durable whole while its transaction lives, a durable    *)
(* row stays, and the sink lets go only of what is stored (db.ts:109).     *)
(***************************************************************************)
THEOREM BatchesAreWhole == WriterSpec => AllOrNothing
PROOF
<1>1. ASSUME WInv, [WriterNext]_writerVars
      PROVE  [BatchAtomic /\ ReleasedStored]_writerVars
  <2> USE DEF WInv, dbVars, callVars, sinkVars, writing
  <2>kept. ASSUME durableRows' = durableRows, waiting \subseteq waiting'
           PROVE  BatchAtomic /\ ReleasedStored
    BY <2>kept DEF BatchAtomic, ReleasedStored
  <2>1. ASSUME NEW r \in Rec, Arrive(r) \/ SkipRecord(r)
        PROVE  BatchAtomic /\ ReleasedStored
    BY <2>1, <2>kept DEF Arrive, SkipRecord, durableRows
  <2>2. ASSUME NEW r \in Rec, WriteRecord(r)
        PROVE  BatchAtomic /\ ReleasedStored
    <3>1. /\ r \in todo /\ rows' = rows \cup {r}
          /\ UNCHANGED <<saved, inTx, waiting>>
      BY <2>2 DEF WriteRecord
    <3>2. CASE inTx
      BY <2>kept, <3>1, <3>2 DEF durableRows
    <3>3. CASE ~inTx
      <4>1. lapsed
        BY <1>1, <3>1, <3>3 DEF InFlight
      <4>2. durableRows \subseteq durableRows'
        BY <3>1, <3>3 DEF durableRows
      <4> QED
        BY <3>1, <4>1, <4>2 DEF BatchAtomic, ReleasedStored
    <3> QED
      BY <3>2, <3>3
  <2>3. ASSUME NEW r \in Rec, StatementFails(r)
        PROVE  BatchAtomic /\ ReleasedStored
    <3>1. /\ r \in todo /\ inTx' = FALSE /\ UNCHANGED <<saved, waiting>>
      BY <2>3 DEF StatementFails
    <3>2. CASE inTx
      <4>1. rows' = saved.rows
        BY <2>3, <3>2 DEF StatementFails
      <4> QED
        BY <2>kept, <3>1, <3>2, <4>1 DEF durableRows
    <3>3. CASE ~inTx
      <4>1. lapsed
        BY <1>1, <3>1, <3>3 DEF InFlight
      <4>2. rows \subseteq rows'
        BY <2>3, <3>3 DEF StatementFails
      <4>3. durableRows \subseteq durableRows'
        BY <3>1, <3>3, <4>2 DEF durableRows
      <4> QED
        BY <3>1, <4>1, <4>3 DEF BatchAtomic, ReleasedStored
    <3> QED
      BY <3>2, <3>3
  <2>4. CASE BeginRefused \/ BeginBusy \/ OtherConnection
    BY <2>4, <2>kept DEF BeginRefused, BeginBusy, OtherConnection, durableRows
  <2>5. ASSUME NEW b \in (SUBSET waiting) \ {{}}, Begin(b)
        PROVE  BatchAtomic /\ ReleasedStored
    <3>1. ~inTx /\ inTx' /\ saved'.rows = rows /\ waiting' = waiting
      BY <1>1, <2>5 DEF Begin, InFlight
    <3> QED
      BY <2>kept, <3>1 DEF durableRows
  <2>6. CASE Commit
    <3>1. /\ inTx /\ todo = {} /\ inTx' = FALSE
          /\ UNCHANGED <<rows, saved>>
          /\ waiting' = waiting \ batch
      BY <2>6 DEF Commit
    <3>2. durableRows = saved.rows /\ durableRows' = rows
      BY <3>1 DEF durableRows
    <3>3. rows = saved.rows \cup (batch \ Bad)
      BY <1>1, <3>1 DEF InFlight
    <3> QED
      BY <3>1, <3>2, <3>3 DEF BatchAtomic, ReleasedStored
  <2>7. CASE CommitThrows
    BY <2>7, <2>kept DEF CommitThrows, durableRows
  <2>8. CASE ProcessCrash
    <3>1. durableRows' = durableRows /\ waiting' = {}
      BY <2>8 DEF ProcessCrash, durableRows
    <3> QED
      BY <3>1 DEF BatchAtomic, ReleasedStored
  <2> QED
    BY <1>1, <2>1, <2>2, <2>3, <2>4, <2>5, <2>6, <2>7, <2>8 DEF WriterNext
<1> QED
  BY <1>1, WInvInit, WInvNext, PTL DEF WriterSpec, AllOrNothing
=============================================================================
