SPECIFICATION Spec
CONSTANTS
    NULL = NULL
    Null = Null
    Done = Done
    Unparseable = Unparseable
    Malformed = Malformed
    Broken = Broken
    NotJson = NotJson
    Down = Down
    BaseTier = BaseTier
    PriorityTier = PriorityTier
    Workers = {w1, w2}
    MaxClock = 4
    PlainName <- PlainNames
    Thresholds = {1, 3}
    Resolving = {"good"}
    FestTokens = {"good", "dead"}
    TagSegments = {"~t"}
    MaxEventChars = 3
    Interesting = {"message", "usage"}
    Models = {"opus", "sonnet", "alias", "gpt"}
    Anthropic = {"opus", "sonnet", "alias"}
    BaseModels = {"opus", "sonnet"}
INVARIANT EitherWay
