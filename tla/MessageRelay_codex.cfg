\* A wire with a terminal event (Codex) at a gateway that requires identity.
SPECIFICATION FairRelay
CONSTANTS
    RequireIdentity = TRUE
    WireSaysTerminal = TRUE
    HighWater = 2
    MaxChunks = 4
INVARIANTS
    RecordedOnce
    RecordTruthful
PROPERTIES
    PatientClientAnswered
\* a handler stops when its request is done
CHECK_DEADLOCK FALSE
