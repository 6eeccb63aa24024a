\* One call after the other; each may die or fail anywhere.
SPECIFICATION Spec
CONSTANTS
    p = p
    r = r
    s = s
    Main = Main
    None = None
    Calls = {c1, c2}
    Names = {p, r, s}
    Existing <- MCParentAndFork
    Running <- MCRunning
    Resumed <- MCResumed
    Suffixed <- MCSuffixed
    Ops = {"start", "startWorktree", "resume", "autoResume", "relaunch", "fork", "forceFork", "delete", "forceDelete", "list", "orphan"}
    Modes = {"same", "worktree", "into"}
    CopiedConfig = {"ignored"}
    MaxOpen = 1
    MaxFaults = 2
    MaxCrashes = 1
SYMMETRY MCSymmetry
INVARIANTS StoreIsConsistent AllOrNothing
PROPERTIES ForceForkIsSafe
CHECK_DEADLOCK FALSE
