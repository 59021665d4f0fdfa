\* Two workers, two requests, and up to two worker exits while the primary serves.
SPECIFICATION FairSpec
CONSTANTS
    Worker = {w1, w2}
    Request = {r1, r2}
    MaxExits = 2
INVARIANTS
    OnePlace
    CleanStopLosesNothing
PROPERTIES
    WorkersComeBack
    StopEnds
\* a stopped cluster stays stopped
CHECK_DEADLOCK FALSE
