SPECIFICATION Spec
CONSTANTS
    Models <- MCModels
    Anthropic <- MCAnthropic
    NoModel = NoModel
    Nobody = Nobody
    Tables <- MCTables
    Secrets <- MCSecrets
    RequireIdentity = FALSE
INVARIANTS
    PlanPaysItsOwn
    NeverServedElsewhere
    RecordSaysWhoPaid
