\* Promises that do not hold, in the instance of RecallSafety.  TLC stops at the
\* first that is violated; without its line it finds the next.
CONSTANTS
    a = a
    b = b
    Sources = {a, b}
    Spaces = {"p", "q"}
    Memory <- SmallMemory
    Embedded <- SmallEmbedded
    Links <- SmallLinks
    SpacesOf <- SmallSpacesOf
    Rankings <- SmallRankings
    Readers = {r1, r2}
    Budgets = {4}
    Asked <- SmallRequests
    Limit = 2
    TokenBudgets = {2, 9}
    ModelBudgets = {4, 8}
    MaxRequests = 2
    MaxChanges = 2
    MaxRank = 3
    RRF_K = 60
    RRF_Worst = 2
    RRF_TopN = 2
    CharsPerToken = 2
    MandatoryChars = 4
    WarningChars = 1
    OptionalChars <- SmallOptional
    NoticeChars = 1
    OverflowChars = 3
SPECIFICATION Spec
SYMMETRY Symmetry
INVARIANTS
    AgreementOutranks
    CacheHonorsDeletion
    LinkedBelowDirect
CHECK_DEADLOCK FALSE
