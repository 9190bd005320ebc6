\* Promises that do not hold.  TLC stops at the first that is violated; without
\* its line it finds the other.
CONSTANTS
    Workers = {w1}
    Settings = {{}, {"llm", "sum", "ext"}}
    MaxAttempts = 2
    MaxGens = 1
    MaxClaims = 2
SPECIFICATION Spec
INVARIANTS
    PendingIsEligible
    MissingProviderNeverFails
CHECK_DEADLOCK FALSE
