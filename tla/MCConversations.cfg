INIT Init
NEXT Next
CONSTANTS
    MaxHistory = 7
    MaxMessages = 4
    MaxTools = 3
    MaxChunks = 7
    Catalogue = {"a"}
    NumSpecs = 3
    MaxWorkers = 2
    MaxInterrupts = 2
    Conversations = {1, 2, 3}
    MaxTurns = 3
    MaxPlans = 2
    MinTurns = 1
    MaxApprovals = 3
    MaxLosses = 1
    MaxListed = 2
    MaxCurated = 1
    Docs = {"guide", "tips"}
    SafeDocs = {"guide", "tips"}
    Designated <- MCDesignated
    Lines <- MCLines
    MaxLines = 5
    Editions <- MCEditions
    StepIds = {"a", "b", "c"}
    SectionIds = {"S1", "S2"}
    RunScopes = {"r1", "r2"}
    MaxResults = 2
    MaxRecords = 4
INVARIANTS HistoryIsTranslated StreamIsWellFormed RoundsAreSound WalkthroughIsSound
PROPERTIES HandoffIsFaithful
CHECK_DEADLOCK FALSE
