SPECIFICATION Spec
CONSTANTS
    Users = {ada, bob}
    Workers = {w1, w2}
    Slots = {s1, s2}
    Commands = {c1}
    MaxAttempts = 1
    MaxGuessed = 1
    MaxChanges = 2
    MaxSessions = 1
    Flags = {"admin"}
    Idle = Idle
INVARIANTS
    SessionsEndWithTheirPassword
    GuessesBounded
PROPERTIES
    RolesChangeOnPurpose
SYMMETRY Symmetry
CHECK_DEADLOCK FALSE
