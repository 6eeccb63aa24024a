INIT SumInit
NEXT SumNext
CONSTANTS
    None = None
    Scopes = {project, local}
    Targets = {"t1", "g"}
    Gated = {"g"}
    Releases <- MCReleases
    Sources <- MCSources
    Entries = {"e1", "e2"}
    Template <- MCTemplate
    PresetEnv = TRUE
    MaxCommands = 3
    MaxUserEdits = 1
    GcSessions = {"a", "b", "n"}
    GcRoots = {"r1", "r2", "r3"}
    RootOf <- MCRootOf
    ProjectOf <- MCProjectOf
    Inside <- MCInside
    Contexts <- MCContexts
    MaxGcEvents = 2
    Managers = {k1, k2}
    BackendPorts = {1, 2}
    Services = {s1, s2, s3}
    MaxManaged = 3
    MaxBackendFaults = 1
    MaxServiceCrashes = 1
    x = x
    u = u
    v = v
    d = d
    Procs = {x, u, v, d}
    OpOf <- MCOperations
    MaxFaults = 1
    MaxCrashes = 1
SYMMETRY MCSymmetry
INVARIANTS BackendsAreReachable TypeOK FailedCallsRestoreNothing
PROPERTIES UserThingsSurvive NothingIsLeftBehind CleanIsSafe Implements
CHECK_DEADLOCK FALSE
