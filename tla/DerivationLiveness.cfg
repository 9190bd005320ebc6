\* One process under weak fairness of its dispatch steps, which may restart with
\* other provider settings: waiting for a provider, reactivation, partial
\* summaries, manual reprocessing.
CONSTANTS
    Workers = {w1}
    Settings = {{}, {"llm", "sum", "ext"}}
    MaxAttempts = 2
    MaxGens = 2
    MaxClaims = 2
SPECIFICATION FairSpec
INVARIANTS
    NoFalseVerdict
PROPERTIES
    DispatchEnds
CHECK_DEADLOCK FALSE
