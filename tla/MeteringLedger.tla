--------------------------- MODULE MeteringLedger ---------------------------
(***************************************************************************)
(* What the metering path promises, without queues, batches or retries:    *)
(* records are accepted one at a time, each is settled at most once, by    *)
(* being stored or by being lost, and every loss is counted.  Records are  *)
(* numbered in the order they were accepted.                               *)
(***************************************************************************)
EXTENDS Integers, FiniteSets

VARIABLES
    accepted,  \* how many records have been accepted
    stored,    \* the records in the system of record
    lost,      \* the records given up
    dropped    \* the counter an operator sees

vars == <<accepted, stored, lost, dropped>>

Init ==
    /\ accepted = 0
    /\ stored = {}
    /\ lost = {}
    /\ dropped = 0

(***************************************************************************)
(* One step may accept a record, store some and lose some.  What is stored *)
(* is older than what stays unsettled, and what is lost is counted.        *)
(***************************************************************************)
Settle ==
    /\ accepted' \in {accepted, accepted + 1}
    /\ LET open == (1..accepted') \ (stored \cup lost)
       IN  \E written, shed \in SUBSET open :
             /\ written \cap shed = {}
             /\ \A w \in written, u \in open \ (written \cup shed) : w < u
             /\ stored' = stored \cup written
             /\ lost' = lost \cup shed
             /\ dropped' = dropped + Cardinality(shed)

Spec == Init /\ [][Settle]_vars
=============================================================================
