\* Malformed records, a contended write lock, a disk that fills, retries and crashes.
SPECIFICATION WriterSpec
CONSTANTS
    attributed = attributed
    unattributed = unattributed
    unknown = unknown
    bad = bad
    user = user
    model = model
    All = All
    Rec = {attributed, unattributed, unknown, bad}
    Bad = {bad}
    UserOf <- MCUserOf
    ModelOf <- MCModelOf
    DiskMayFill = TRUE
INVARIANTS
    RollupsAgree
    StoredOnce
PROPERTIES
    AllOrNothing
