\* Two commands, up to two proxies of earlier commands that are running or
\* only configured, one server started by hand.
SPECIFICATION Spec
CONSTANTS
    Calls = {c1, c2}
    Ids = {1, 2}
    Ports = {1, 2}
    Templates = {t}
    t = t
    Pids = {p1, p2, p3, p4}
    None = None
    DefaultPort <- MCDefaultPort
    Requests <- MCRequests
    Settled = {1, 2}
    SettledAt <- MCSettledAt
    MaxManual = 1
    MaxFaults = 1
SYMMETRY MCSymmetry
INVARIANTS EntriesAreSound
PROPERTIES ServersAreSpared StartedIsServed
\* Commands end.
CHECK_DEADLOCK FALSE
