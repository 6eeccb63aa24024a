\* Two calls interleave, with each other and with edits.
SPECIFICATION Spec
CONSTANTS
    p = p
    r = r
    s = s
    Main = Main
    None = None
    Calls = {c1, c2}
    Names = {p, r, s}
    Existing <- MCParentAndFork
    Running <- MCRunning
    Resumed <- MCResumed
    Suffixed <- MCSuffixed
    Ops = {"startWorktree", "autoResume", "fork", "forceFork", "delete", "forceDelete", "list", "edit"}
    Modes = {"same", "worktree", "into"}
    CopiedConfig = {"ignored"}
    MaxOpen = 2
    MaxFaults = 1
    MaxCrashes = 0
SYMMETRY MCSymmetry
INVARIANTS NameWonOnce
PROPERTIES PruneOnlyStale DirtyNeverLost
CHECK_DEADLOCK FALSE
