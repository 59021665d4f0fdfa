\* Both kinds of sink: with a trail (the single process, the cluster primary), whose
\* flush waits for the append, and without (a worker).  Batches of two, a queue of
\* three, enough records to overflow it behind a flush in flight.
SPECIFICATION FairSpec
CONSTANTS
    MaxQueue = 3
    MaxBatch = 2
    MaxRecords = 7
    MaxErrors = 1
INVARIANTS
    LossAccounted
    QueueHonest
PROPERTIES
    LedgerSpec
    Settles
\* close() ends the sink's work
CHECK_DEADLOCK FALSE
