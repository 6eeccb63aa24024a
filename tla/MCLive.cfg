\* A sidecar session and a host session of the same name in two projects; two
\* launches or deletes and one cleanup.
SPECIFICATION Spec
CONSTANTS
    Calls = {l1, l2}
    Cleaners = {c1}
    Sessions = {s, t}
    ContainerOf <- MCContainerOf
    Sidecar = {s}
    Pids = {q1, q2}
    None = None
    MaxFaults = 1
    MaxBlind = 1
    MaxCrashes = 1
SYMMETRY MCSymmetry
PROPERTIES RegistryIsSound CleanupSparesTheRunning
\* Launches and cleanups end.
CHECK_DEADLOCK FALSE
