\* Two start-ups on two markers; nobody handles kind "handoff".  Two transcripts,
\* a handler for each, one command and one search at a time.
INIT SumInit
NEXT SumNext
CONSTANTS
    Procs = {p1, p2}
    Free = Free
    MarkerIds = {1, 2}
    KindOf <- MCKindOf
    Handled = {"stop"}
    Legacy = {"invalid", "old", "corrupt"}
    MaxAttempts = 2
    MaxItems = 1
    MaxEnqueues = 2
    MaxFaults = 1
    MaxCrashes = 1
    None = None
    Docs = {d1, d2}
    Terms = {"x", "y"}
    TermsIn <- MCTermsIn
    Attempts = 2
    MaxChanges = 3
    MaxStoreFaults = 1
    MaxIndexCommands = 1
SYMMETRY SumSymmetry
INVARIANTS TypeOK LockDiscipline HandledIsCurrent NoSilentLoss PoisonBound OnlyPoisonFails ExactlyOnceIsh
PROPERTIES IndexIsSound
CHECK_DEADLOCK FALSE
