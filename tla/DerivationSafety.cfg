\* Two processes and one configuration: stale claims, resets, takeovers.
CONSTANTS
    Workers = {w1, w2}
    Settings = {{"llm", "sum", "ext"}}
    MaxAttempts = 2
    MaxGens = 2
    MaxClaims = 2
SYMMETRY Symmetry
SPECIFICATION Spec
INVARIANTS
    TypeOK
    HeadsAgree
    RemovedStaysWithdrawn
    CompletedIsPublished
    LostAckIsSafe
PROPERTIES
    StaleClaimHarmless
    ClaimIsSettled
    LifecycleIsMonotone
    NoPublicationAfterRemoval
    ReadersSpec
CHECK_DEADLOCK FALSE
