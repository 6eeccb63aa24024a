SPECIFICATION Spec
CONSTANTS
    None = None
    Requests = {r1, r2}
    Models = {m1, m2}
    MaxRotations = 1
    MaxExpiries = 1
    MaxAttempts = 2
    Teammates = {c1, c2}
    Tasks = {t1, "idle"}
    MaxBlocks = 2
    MaxTeamFaults = 1
INVARIANTS RequestsAreAccounted
PROPERTIES AnsweredUnlessRefreshing GateEnds
CHECK_DEADLOCK FALSE
