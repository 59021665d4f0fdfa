--------------------------- MODULE MeteringWriter ---------------------------
(***************************************************************************)
(* The metering write path: writeBatch of server/store/write.ts inside     *)
(* Store.transaction of server/store/db.ts, called from the onBatch of the *)
(* usage sink (server/bin/fest.ts, server/cluster/primary.ts).             *)
(*                                                                         *)
(* One connection writes metering; every statement runs synchronously on   *)
(* the main thread, so nothing else of this process happens between BEGIN  *)
(* and COMMIT.  What can happen there is a statement that fails, a death   *)
(* of the process, and, before BEGIN, another connection (a CLI command, a *)
(* backup, a cluster worker) holding the write lock past busy_timeout.     *)
(*                                                                         *)
(* SQLite itself is modelled from how this code uses it: a statement that  *)
(* runs out of disk rolls the whole transaction back, after which the      *)
(* connection is in autocommit mode and every further statement is its own *)
(* transaction.  The sink is reduced to the set of records it still holds: *)
(* onBatch takes some of them, and they leave the set unless it throws.    *)
(***************************************************************************)
EXTENDS Integers, FiniteSets

CONSTANTS
    Rec,         \* usage records, each with an id of its own
    Bad,         \* the malformed ones, for which a parameter or the insert throws
    UserOf,      \* record -> its userId, All when unattributed
    ModelOf,     \* record -> its servedModel, All when unresolved
    All,         \* the '' sentinel of a rollup dimension
    DiskMayFill  \* whether a statement may fail for want of disk

Dimension(f) == {f[r] : r \in Rec} \cup {All}
Cells == Dimension(UserOf) \X Dimension(ModelOf)

ASSUME WriterAssumption ==
    /\ Bad \subseteq Rec
    /\ IsFiniteSet(Rec)
    /\ DOMAIN UserOf = Rec /\ DOMAIN ModelOf = Rec
    /\ DiskMayFill \in BOOLEAN

VARIABLES
    rows,       \* requests, as this connection sees it
    rollup,     \* usage_hourly.requests per cell, as this connection sees it
    saved,      \* what a rollback restores: rows and rollup at BEGIN
    inTx,       \* whether SQLite has a transaction open on this connection
    lapsed,     \* whether the running batch has lost its transaction
    torn,       \* whether a row was ever stored without all of its rollups
    depth,      \* Store.transaction's re-entrancy guard
    batch,      \* the records given to writeBatch, {} when none is running
    todo,       \* the records of the batch still to be written
    waiting,    \* records in the sink's memory
    published,  \* records sent to the live feed
    fault,      \* how the latest transaction() call threw, "none" if it did not
    locked      \* whether another connection holds the write lock

dbVars   == <<rows, rollup, saved, inTx, lapsed, torn>>
callVars == <<depth, batch, todo, fault>>
sinkVars == <<waiting, published>>
writerVars == <<dbVars, callVars, sinkVars, locked>>

writing == batch # {}

-----------------------------------------------------------------------------

WriterInit ==
    /\ rows = {}
    /\ rollup = [c \in Cells |-> 0]
    /\ saved = [rows |-> {}, rollup |-> [c \in Cells |-> 0]]
    /\ inTx = FALSE
    /\ lapsed = FALSE
    /\ torn = FALSE
    /\ depth = 0
    /\ batch = {}
    /\ todo = {}
    /\ waiting = {}
    /\ published = {}
    /\ fault = "none"
    /\ locked = FALSE

(***************************************************************************)
(* The four keys of rollupParams, (user, model), (user, ''), ('', model)   *)
(* and ('', ''), de-duplicated, and the upsert that adds one to each.      *)
(***************************************************************************)
Keys(r) == {UserOf[r], All} \X {ModelOf[r], All}

\* bug: the upserts run once for each of the four keys, duplicates included
IncrementFourTimes(counts, r, cells) ==
    LET keys == <<<<UserOf[r], ModelOf[r]>>, <<UserOf[r], All>>,
                  <<All, ModelOf[r]>>, <<All, All>>>>
    IN  [c \in Cells |-> counts[c] + Cardinality({i \in 1..4 : keys[i] = c /\ c \in cells})]

Increment(counts, r, cells) ==
    [c \in Cells |-> IF c \in cells THEN counts[c] + 1 ELSE counts[c]]

(***************************************************************************)
(* A request finishes: its record enters the sink.                         *)
(***************************************************************************)
Arrive(r) ==
    /\ r \notin waiting \cup rows \cup batch \cup published
    /\ waiting' = waiting \cup {r}
    /\ UNCHANGED <<published, dbVars, callVars, locked>>

(***************************************************************************)
(* Store.transaction up to fn().  A call made while depth is 1 is refused. *)
(* depth is set before BEGIN IMMEDIATE and outside the try, so a BEGIN     *)
(* that gives up waiting for the lock leaves it set.                       *)
(***************************************************************************)
BeginRefused ==
    /\ ~writing
    /\ waiting # {}
    /\ depth > 0
    /\ fault' = "reentrant"
    /\ UNCHANGED <<depth, batch, todo, dbVars, sinkVars, locked>>

BeginBusy ==
    /\ ~writing
    /\ waiting # {}
    /\ depth = 0
    /\ locked
    /\ depth' = 1
    /\ fault' = "busy"
    /\ UNCHANGED <<batch, todo, dbVars, sinkVars, locked>>

Begin(b) ==
    /\ ~writing
    /\ depth = 0
    /\ ~locked
    /\ depth' = 1
    /\ inTx' = TRUE
    /\ lapsed' = FALSE
    /\ saved' = [rows |-> rows, rollup |-> rollup]
    /\ batch' = b
    /\ todo' = b
    /\ UNCHANGED <<rows, rollup, torn, fault, sinkVars, locked>>

\* bug: the rollups run before the insert that would reject a known id
SkipRecordAfterRollups(r) ==
    /\ r \in todo
    /\ r \in Bad \cup rows
    /\ todo' = todo \ {r}
    /\ rollup' = IF r \in Bad THEN rollup ELSE Increment(rollup, r, Keys(r))
    /\ UNCHANGED <<rows, saved, inTx, lapsed, torn, depth, batch, fault, sinkVars, locked>>

(***************************************************************************)
(* One turn of writeBatch's loop.  The parameters are built first, then    *)
(* the row is inserted, then its rollups; an error skips the record: a     *)
(* malformed one, or one whose id is already there.                        *)
(***************************************************************************)
SkipRecord(r) ==
    /\ r \in todo
    /\ r \in Bad \cup rows
    /\ todo' = todo \ {r}
    /\ UNCHANGED <<dbVars, depth, batch, fault, sinkVars, locked>>

WriteRecord(r) ==
    /\ r \in todo
    /\ r \notin Bad \cup rows
    /\ todo' = todo \ {r}
    /\ rows' = rows \cup {r}
    /\ rollup' = Increment(rollup, r, Keys(r))
    /\ UNCHANGED <<saved, inTx, lapsed, torn, depth, batch, fault, sinkVars, locked>>

(***************************************************************************)
(* A statement of r's turn fails for want of disk.  Inside the transaction *)
(* SQLite rolls everything back; in autocommit mode what r's earlier       *)
(* statements did stays.  Either way the error is caught per record and    *)
(* the loop goes on.                                                       *)
(***************************************************************************)
StatementFails(r) ==
    /\ DiskMayFill
    /\ r \in todo
    /\ r \notin Bad \cup rows
    /\ todo' = todo \ {r}
    /\ inTx' = FALSE
    /\ lapsed' = TRUE
    /\ \/ /\ inTx
          /\ rows' = saved.rows
          /\ rollup' = saved.rollup
          /\ UNCHANGED torn
       \/ /\ ~inTx
          /\ UNCHANGED <<rows, rollup, torn>>
       \/ /\ ~inTx
          /\ rows' = rows \cup {r}
          /\ torn' = TRUE
          /\ \E done \in SUBSET Keys(r) :
                /\ done # Keys(r)
                /\ rollup' = Increment(rollup, r, done)
    /\ UNCHANGED <<saved, depth, batch, fault, sinkVars, locked>>

(***************************************************************************)
(* COMMIT succeeds; the sink lets go of the batch and the whole of it is   *)
(* published to the live feed.                                             *)
(***************************************************************************)
Commit ==
    /\ writing
    /\ todo = {}
    /\ inTx
    /\ inTx' = FALSE
    /\ depth' = 0
    /\ batch' = {}
    /\ fault' = "none"
    /\ waiting' = waiting \ batch
    /\ published' = published \cup batch
    /\ UNCHANGED <<rows, rollup, saved, lapsed, torn, todo, locked>>

\* bug: the error is swallowed, and the sink lets go of the batch
CommitThrowsUnseen ==
    /\ writing
    /\ todo = {}
    /\ ~inTx \/ DiskMayFill
    /\ rows' = IF inTx THEN saved.rows ELSE rows
    /\ rollup' = IF inTx THEN saved.rollup ELSE rollup
    /\ inTx' = FALSE
    /\ depth' = 0
    /\ batch' = {}
    /\ fault' = "rethrown"
    /\ waiting' = waiting \ batch
    /\ UNCHANGED <<saved, lapsed, torn, todo, published, locked>>

(***************************************************************************)
(* COMMIT throws, because the disk is full or because SQLite has already   *)
(* rolled the transaction back and none is active.  ROLLBACK follows, the  *)
(* error is rethrown and the sink puts the batch back in its queue.        *)
(***************************************************************************)
CommitThrows ==
    /\ writing
    /\ todo = {}
    /\ ~inTx \/ DiskMayFill
    /\ rows' = IF inTx THEN saved.rows ELSE rows
    /\ rollup' = IF inTx THEN saved.rollup ELSE rollup
    /\ inTx' = FALSE
    /\ depth' = 0
    /\ batch' = {}
    /\ fault' = "rethrown"
    /\ UNCHANGED <<saved, lapsed, torn, todo, sinkVars, locked>>

(***************************************************************************)
(* The process dies and is started again: an open transaction is undone by *)
(* SQLite's recovery, and everything in memory is gone.                    *)
(***************************************************************************)
ProcessCrash ==
    /\ rows' = IF inTx THEN saved.rows ELSE rows
    /\ rollup' = IF inTx THEN saved.rollup ELSE rollup
    /\ saved' = [rows |-> rows', rollup |-> rollup']
    /\ inTx' = FALSE
    /\ lapsed' = FALSE
    /\ depth' = 0
    /\ batch' = {}
    /\ todo' = {}
    /\ fault' = "none"
    /\ waiting' = {}
    /\ UNCHANGED <<torn, published, locked>>

(***************************************************************************)
(* Another connection takes the write lock, when no transaction of ours    *)
(* has it, and gives it back.                                              *)
(***************************************************************************)
OtherConnection ==
    /\ ~writing
    /\ locked' = ~locked
    /\ UNCHANGED <<dbVars, callVars, sinkVars>>

WriterNext ==
    \/ \E r \in Rec : Arrive(r) \/ SkipRecord(r) \/ WriteRecord(r) \/ StatementFails(r)
    \/ BeginRefused
    \/ BeginBusy
    \/ \E b \in (SUBSET waiting) \ {{}} : Begin(b)
    \/ Commit
    \/ CommitThrows
    \/ ProcessCrash
    \/ OtherConnection

WriterSpec == WriterInit /\ [][WriterNext]_writerVars

-----------------------------------------------------------------------------

WriterTypeOK ==
    /\ rows \subseteq Rec
    /\ rollup \in [Cells -> Nat]
    /\ saved.rows \subseteq Rec
    /\ saved.rollup \in [Cells -> Nat]
    /\ inTx \in BOOLEAN
    /\ lapsed \in BOOLEAN /\ torn \in BOOLEAN
    /\ ~(inTx /\ lapsed)
    /\ depth \in {0, 1}
    /\ batch \subseteq Rec
    /\ todo \subseteq batch
    /\ waiting \subseteq Rec
    /\ published \subseteq Rec
    /\ fault \in {"none", "reentrant", "busy", "rethrown"}
    /\ locked \in BOOLEAN

(* What another connection would read, and what survives a crash.          *)
durableRows   == IF inTx THEN saved.rows ELSE rows
durableRollup == IF inTx THEN saved.rollup ELSE rollup

RowsIn(c) == {r \in durableRows : c \in Keys(r)}

(***************************************************************************)
(* Every cell of the rollups counts exactly the stored rows that fall in   *)
(* it, whatever is retried, skipped or cut short, unless a batch that has  *)
(* lost its transaction has left a row half done.                          *)
(***************************************************************************)
Agree == \A c \in Cells : durableRollup[c] = Cardinality(RowsIn(c))

RollupsAgree == ~torn => Agree

(***************************************************************************)
(* No row is counted twice, however often its batch is retried: the insert *)
(* comes first, and the unique id stops the rollups of a row already       *)
(* there, one that was left half done as well.  And what the live feed was *)
(* told is stored (fest.ts:229 "the feed may lag the truth, but it must    *)
(* not contradict it"), unless it is a malformed record, which the writer  *)
(* skips and the publisher does not.                                       *)
(***************************************************************************)
NoDoubleCount == \A c \in Cells : durableRollup[c] <= Cardinality(RowsIn(c))
PublishedStored == published \subseteq durableRows \cup Bad

StoredOnce == WriterTypeOK /\ NoDoubleCount /\ PublishedStored

(***************************************************************************)
(* While its transaction lives, a batch becomes durable whole, less its    *)
(* malformed records, and a row that is durable stays so; and a record     *)
(* leaves the sink's memory only for the database, unless it is malformed  *)
(* or the process died with it.                                            *)
(***************************************************************************)
BatchAtomic ==
    /\ durableRows \subseteq durableRows'
    /\ durableRows' # durableRows =>
          lapsed \/ durableRows' = durableRows \cup (batch \ Bad)
ReleasedStored ==
    \A r \in waiting \ waiting' : r \in Bad \/ r \in durableRows' \/ waiting' = {}

AllOrNothing == [][BatchAtomic /\ ReleasedStored]_writerVars
=============================================================================
