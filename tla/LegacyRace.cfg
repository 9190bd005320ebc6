\* two processes, one of which may be taken for dead; either may restart with
\* and without providers
SPECIFICATION ObservedSpec
CONSTANTS
    Workers = {w1, w2}
    Settings = {{}, {"llm", "sum", "ext"}}
    MaxAttempts = 2
    MaxClaims = 2
SYMMETRY Symmetry
INVARIANTS
    TypeOK
    ReconciledUnlessSkipped
    PartialIsAudited
    AuthorizedFirst
    OneOfEach
CHECK_DEADLOCK FALSE
