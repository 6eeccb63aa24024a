INIT Init
NEXT Next
CONSTANTS
    None = None
    Null = Null
    Claudes = {c1, c2}
    Uuids = {u1, u2}
    Plans = {1, 2}
    VerifyType = "completion_promise"
    MaxIterations = 2
    TimeLimit = TRUE
    MaxTurns = 1
    MaxEvents = 6
    MaxHookFaults = 1
    Bundles = {"tdd", "workflow"}
    Supervisors = {u1, u2}
    Terminals = {c1, c2}
    MaxCommands = 4
    Hooks = {c1, c2}
    Edits <- MCEdits
    Branches <- MCBranches
    MaxChecks = 2
    MaxPolicyFaults = 1
    MaxFiles = 3
    CommandsWhileChecking = 2
SYMMETRY Symmetry
INVARIANTS CapturesAreKept CommandsTakeEffect VerdictsAreSound DiffVerdictIsOrderFree
PROPERTIES VerificationEnds
CHECK_DEADLOCK FALSE
