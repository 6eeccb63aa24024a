\* A delete is refused because somebody works in the worktree.
SPECIFICATION Spec
CONSTANTS
    p = p
    r = r
    s = s
    Main = Main
    None = None
    Calls = {c1, c2}
    Names = {p, r, s}
    Existing <- MCParentAndFork
    Running <- MCRunning
    Resumed <- MCResumed
    Suffixed <- MCSuffixed
    Ops = {"startWorktree", "delete", "edit"}
    Modes = {"worktree"}
    CopiedConfig = {"ignored"}
    MaxOpen = 1
    MaxFaults = 0
    MaxCrashes = 0
SYMMETRY MCSymmetry
PROPERTIES FailedDeleteKeepsConfig
CHECK_DEADLOCK FALSE
