\* Three processes of two releases migrate one database; the second file is broken at first.
SPECIFICATION Spec
CONSTANTS
    serve = serve
    command = command
    older = older
    Process = {serve, command, older}
    Shipped <- MCShipped
    Broken = {2}
INVARIANTS
    ReadyIsMigrated
