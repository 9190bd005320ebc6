\* Promises that do not hold, with one process, so that no two dispatches
\* overlap.  TLC stops at the first that is violated; without its line it finds
\* the next.
SPECIFICATION ObservedSpec
CONSTANTS
    Workers = {w1}
    Settings = {{}, {"llm", "sum", "ext"}}
    MaxAttempts = 2
    MaxClaims = 2
INVARIANTS
    CompletedNotRerun
    DeletionConverges
PROPERTY
    GateAuditIsNonFatal
CHECK_DEADLOCK FALSE
