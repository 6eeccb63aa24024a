SPECIFICATION Spec
CONSTANTS
    None = None
    Requests = {r1}
    Models = {m1}
    MaxRotations = 1
    MaxExpiries = 1
    MaxAttempts = 2
    Teammates = {c1}
    Tasks = {t1, "idle"}
    MaxBlocks = 1
    MaxTeamFaults = 0
PROPERTIES EveryRequestIsAnswered
CHECK_DEADLOCK FALSE
