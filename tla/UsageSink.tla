----------------------------- MODULE UsageSink ------------------------------
(***************************************************************************)
(* The usage sink of server/ingest/sink.ts: the bounded queue between the  *)
(* request path, which calls record(), and the durable store, which is     *)
(* written in batches by onBatch.                                          *)
(*                                                                         *)
(* Records are numbered in the order record() accepts them, so a record is *)
(* a natural number and "older" is "<".  The store is part of the          *)
(* environment: it is up or down, and onBatch throws exactly when it is    *)
(* down.  hasTrail is `path !== null`: the single process and the cluster  *)
(* primary append every batch to a JSONL trail, and that append is the one *)
(* await of a flush; a cluster worker has no trail, and its flush runs to  *)
(* the end before the event loop turns.                                    *)
(***************************************************************************)
EXTENDS Integers, Sequences

CONSTANTS
    MaxQueue,    \* opts.maxQueue, 10 000 in production
    MaxBatch,    \* opts.maxBatch, 200 in production
    MaxRecords,  \* bound of the model: calls of record()
    MaxErrors    \* bound of the model: the error counters stop counting here

ASSUME SinkAssumption ==
    /\ MaxQueue \in Nat \ {0}
    /\ MaxBatch \in Nat \ {0}
    /\ MaxRecords \in Nat
    /\ MaxErrors \in Nat

VARIABLES
    queue,        \* records waiting for a flush, oldest first
    batch,        \* records of the flush in flight, <<>> when inFlight is null
    persisted,    \* whether onBatch accepted the latest batch
    written,      \* SinkStats.written
    dropped,      \* SinkStats.dropped
    writeErrors,  \* SinkStats.writeErrors
    trailErrors,  \* SinkStats.trailErrors
    closer,       \* where close() is: "open" until it is called
    before,       \* close()'s local: the queue length before its last flush
    accepted,     \* how many records record() has taken
    refused,      \* how many records reached record() after close()
    hasTrail,     \* opts.path # null
    stored,       \* the system of record, in the order onBatch wrote it
    storeUp       \* whether onBatch would succeed now

queueVars   == <<queue, dropped>>
flushVars   == <<batch, persisted, written, writeErrors, stored>>
closeVars   == <<closer, before>>
arrivalVars == <<accepted, refused>>
vars == <<queueVars, flushVars, closeVars, arrivalVars, trailErrors, hasTrail, storeUp>>

Least(a, b) == IF a <= b THEN a ELSE b
Count(n)    == IF n < MaxErrors THEN n + 1 ELSE n
closed      == closer # "open"
inFlight    == batch # <<>>

-----------------------------------------------------------------------------
(* What the operations below would be with a bug: substituted for them one *)
(* at a time, each must break the property it is listed with.              *)

\* a batch that no longer fits is dropped without being counted
ConcludeDropsSilently(q, b, ok, d) ==
    /\ written' = IF ok THEN written + Len(b) ELSE written
    /\ queue' = IF ~ok /\ Len(q) + Len(b) <= MaxQueue THEN b \o q ELSE q
    /\ dropped' = d

\* a failed batch is put back behind the records that arrived meanwhile
ConcludeAtTheBack(q, b, ok, d) ==
    LET fits == Len(q) + Len(b) <= MaxQueue
    IN  /\ written' = IF ok THEN written + Len(b) ELSE written
        /\ queue' = IF ~ok /\ fits THEN q \o b ELSE q
        /\ dropped' = IF ~ok /\ ~fits THEN d + Len(b) ELSE d

\* a full queue sheds its oldest record without counting it
ShedUncounted == dropped

-----------------------------------------------------------------------------

Init ==
    /\ queue = <<>>
    /\ batch = <<>>
    /\ persisted = TRUE
    /\ written = 0
    /\ dropped = 0
    /\ writeErrors = 0
    /\ trailErrors = 0
    /\ closer = "open"
    /\ before = 0
    /\ accepted = 0
    /\ refused = 0
    /\ stored = <<>>
    /\ storeUp = TRUE
    /\ hasTrail \in BOOLEAN

(***************************************************************************)
(* The batch a flush splices off the queue q, and what it leaves there.    *)
(***************************************************************************)
Taken(q) == SubSeq(q, 1, Least(MaxBatch, Len(q)))
Left(q)  == SubSeq(q, Least(MaxBatch, Len(q)) + 1, Len(q))

(***************************************************************************)
(* The end of doFlush: batch b is counted as written, put back in front of *)
(* the queue q, or dropped when it no longer fits.  d is the drop counter  *)
(* so far.                                                                 *)
(***************************************************************************)
Conclude(q, b, ok, d) ==
    LET fits == Len(q) + Len(b) <= MaxQueue
    IN  /\ written' = IF ok THEN written + Len(b) ELSE written
        /\ queue'   = IF ~ok /\ fits THEN b \o q ELSE q
        /\ dropped' = IF ~ok /\ ~fits THEN d + Len(b) ELSE d

(***************************************************************************)
(* doFlush up to its first await: splice the batch off q, call onBatch.    *)
(* Without a trail there is no await and the flush also concludes.         *)
(***************************************************************************)
DoFlush(q, d) ==
    /\ persisted' = storeUp
    /\ stored' = IF storeUp THEN stored \o Taken(q) ELSE stored
    /\ writeErrors' = IF storeUp THEN writeErrors ELSE Count(writeErrors)
    /\ \/ /\ hasTrail
          /\ batch' = Taken(q)
          /\ queue' = Left(q)
          /\ dropped' = d
          /\ UNCHANGED written
       \/ /\ ~hasTrail
          /\ batch' = <<>>
          /\ Conclude(Left(q), Taken(q), storeUp, d)

(***************************************************************************)
(* record(): a full queue sheds its oldest record, the new one is pushed,  *)
(* and a queue of MaxBatch starts a flush unless one is in flight.         *)
(***************************************************************************)
Pushed == Append(IF Len(queue) >= MaxQueue THEN Tail(queue) ELSE queue, accepted + 1)
Shed   == IF Len(queue) >= MaxQueue THEN dropped + 1 ELSE dropped

Record ==
    /\ ~closed
    /\ accepted + refused < MaxRecords
    /\ accepted' = accepted + 1
    /\ \/ /\ Len(Pushed) >= MaxBatch
          /\ ~inFlight
          /\ DoFlush(Pushed, Shed)
       \/ /\ Len(Pushed) < MaxBatch \/ inFlight
          /\ queue' = Pushed
          /\ dropped' = Shed
          /\ UNCHANGED flushVars
    /\ UNCHANGED <<refused, closeVars, trailErrors, hasTrail, storeUp>>

(***************************************************************************)
(* record() after close(): the early return on `closed`.                   *)
(***************************************************************************)
RecordAfterClose ==
    /\ closed
    /\ accepted + refused < MaxRecords
    /\ refused' = refused + 1
    /\ UNCHANGED <<accepted, queueVars, flushVars, closeVars, trailErrors, hasTrail, storeUp>>

\* the timer waits for a full batch
TimerFlushFullBatch ==
    /\ ~closed
    /\ ~inFlight
    /\ Len(queue) >= MaxBatch
    /\ DoFlush(queue, dropped)
    /\ UNCHANGED <<closeVars, arrivalVars, trailErrors, hasTrail, storeUp>>

(***************************************************************************)
(* The interval timer, cleared by close(); flush() joins a flush already   *)
(* in flight and does nothing for an empty queue.                          *)
(***************************************************************************)
TimerFlush ==
    /\ ~closed
    /\ ~inFlight
    /\ queue # <<>>
    /\ DoFlush(queue, dropped)
    /\ UNCHANGED <<closeVars, arrivalVars, trailErrors, hasTrail, storeUp>>

(***************************************************************************)
(* The awaited appendFile settles, one way or the other, and the flush     *)
(* concludes with the queue as it is by then.                              *)
(***************************************************************************)
TrailSettled ==
    /\ inFlight
    /\ trailErrors' \in {trailErrors, Count(trailErrors)}
    /\ Conclude(queue, batch, persisted, dropped)
    /\ batch' = <<>>
    /\ UNCHANGED <<persisted, writeErrors, stored, closeVars, arrivalVars, hasTrail, storeUp>>

(***************************************************************************)
(* close(): stop the timer, wait for a flush in flight, then flush until   *)
(* the queue is empty or a flush has not shrunk it.                        *)
(***************************************************************************)
Close ==
    /\ closer = "open"
    /\ closer' = "joining"
    /\ UNCHANGED <<before, queueVars, flushVars, arrivalVars, trailErrors, hasTrail, storeUp>>

NoProgress == closer = "draining" /\ Len(queue) >= before

CloseRound ==
    /\ closer \in {"joining", "draining"}
    /\ ~inFlight
    /\ queue # <<>>
    /\ ~NoProgress
    /\ closer' = "draining"
    /\ before' = Len(queue)
    /\ DoFlush(queue, dropped)
    /\ UNCHANGED <<arrivalVars, trailErrors, hasTrail, storeUp>>

CloseDone ==
    /\ closer \in {"joining", "draining"}
    /\ ~inFlight
    /\ queue = <<>> \/ NoProgress
    /\ closer' = "closed"
    /\ UNCHANGED <<before, queueVars, flushVars, arrivalVars, trailErrors, hasTrail, storeUp>>

(***************************************************************************)
(* The store starts or stops refusing batches: a locked database, a full   *)
(* disk, or for a worker's sink the loss of the channel to the primary.    *)
(***************************************************************************)
StoreChanges ==
    /\ storeUp' = ~storeUp
    /\ UNCHANGED <<queueVars, flushVars, closeVars, arrivalVars, trailErrors, hasTrail>>

Next ==
    \/ Record
    \/ RecordAfterClose
    \/ TimerFlush
    \/ TrailSettled
    \/ Close
    \/ CloseRound
    \/ CloseDone
    \/ StoreChanges

Spec == Init /\ [][Next]_vars

(***************************************************************************)
(* The timer keeps firing until close(), an append settles, and close() is *)
(* resumed when what it awaits has settled.  Nothing obliges a request to  *)
(* arrive, the process to be stopped, or the store to recover.             *)
(***************************************************************************)
Fairness ==
    /\ WF_vars(TimerFlush)
    /\ WF_vars(TrailSettled)
    /\ WF_vars(CloseRound)
    /\ WF_vars(CloseDone)

FairSpec == Spec /\ Fairness

-----------------------------------------------------------------------------

(***************************************************************************)
(* The types of the sink's state.                                          *)
(***************************************************************************)
TypeOK ==
    /\ queue \in Seq(Nat)
    /\ batch \in Seq(Nat)
    /\ persisted \in BOOLEAN
    /\ written \in Nat
    /\ dropped \in Nat
    /\ writeErrors \in Nat
    /\ trailErrors \in Nat
    /\ closer \in {"open", "joining", "draining", "closed"}
    /\ before \in Nat
    /\ accepted \in Nat
    /\ refused \in Nat
    /\ stored \in Seq(Nat)
    /\ storeUp \in BOOLEAN
    /\ hasTrail \in BOOLEAN

(* The records of the flush in flight that are only in memory.             *)
Unwritten == IF persisted THEN <<>> ELSE batch

(***************************************************************************)
(* The queue never outgrows its limit, whatever the store does: neither a  *)
(* burst of record() nor a batch put back in front of records that arrived *)
(* while it was in flight may exceed it (sink.ts:131-138, 147-151).        *)
(***************************************************************************)
QueueBounded == Len(queue) <= MaxQueue

(***************************************************************************)
(* Every record accepted is in exactly one place: the store, the flush in  *)
(* flight, the queue, or the drop counter.  `written` lags the store by    *)
(* the batch whose trail append is still awaited, and by nothing else, so  *)
(* the numbers of stats() account for every record.                        *)
(***************************************************************************)
LossAccounted ==
    /\ accepted = Len(stored) + Len(Unwritten) + Len(queue) + dropped
    /\ Len(stored) = written + (IF persisted THEN Len(batch) ELSE 0)

(***************************************************************************)
(* Read in the order store, flush in flight, queue, the records are        *)
(* strictly increasing: the store receives them in the order the requests  *)
(* finished, a batch that failed keeps its place when it is put back, and  *)
(* no record is written twice, not even when its trail append fails.  A    *)
(* record that was dropped is older than every one still queued, although  *)
(* drops happen both at the front of the queue and to a whole batch whose  *)
(* write failed.  And close() returns with records still queued only if    *)
(* the store refused the last batch it was offered: a flush that was       *)
(* already in flight is not mistaken for a store that refuses.             *)
(***************************************************************************)
Increasing(s) == \A i, j \in 1..Len(s) : i < j => s[i] < s[j]
Elements(s) == {s[i] : i \in 1..Len(s)}
Lost == (1..accepted) \ (Elements(stored) \cup Elements(Unwritten) \cup Elements(queue))

InOrder == Increasing(stored \o Unwritten \o queue)
DropsOldest == \A lost \in Lost, kept \in Elements(queue) : lost < kept
CloseDrains == closer = "closed" => queue = <<>> \/ ~persisted

QueueHonest == InOrder /\ DropsOldest /\ CloseDrains

(***************************************************************************)
(* If the store is eventually up for good, a record in memory is stored or *)
(* counted as dropped, unless close() gave it up; and a process told to    *)
(* stop does stop: close() returns even if the store never accepts another *)
(* batch.                                                                  *)
(***************************************************************************)
Pending(r) == r \in Elements(queue) \cup Elements(Unwritten)

EventuallySettled ==
    <>[]storeUp =>
        \A r \in 1..MaxRecords : Pending(r) ~> (~Pending(r) \/ closer = "closed")
CloseReturns == (closer = "joining") ~> (closer = "closed")

Settles == EventuallySettled /\ CloseReturns

-----------------------------------------------------------------------------

(***************************************************************************)
(* What the sink promises its callers, as the ledger of MeteringLedger.    *)
(***************************************************************************)
Ledger == INSTANCE MeteringLedger
            WITH stored <- Elements(stored), lost <- Lost

LedgerSpec == Ledger!Spec
=============================================================================
