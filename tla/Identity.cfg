SPECIFICATION IdentitySpec
CONSTANTS
    Developers = {ada, bob}
    Nobody = nobody
    NoAnswer = noanswer
    Error = error
    Interval = 2
    MaxLogins = 2
    MaxTokens = 2
    MaxClock = 4
INVARIANTS
    LastUsedFresh
PROPERTIES
    FirstAnswerDecides
