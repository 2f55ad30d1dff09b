CONSTANTS
    Ops = {o1}
    Procs = {p1, p2}
    Inputs = {h1, h2}
    MaxAttempt = 3
    None = None
    Workers = {w1, w2}
    Jobs = {1, 2}
    GpuJobs = {1, 2}
    GpuSlots = 1
    MaxJobs = 2
    MaxCrash = 1
    CallIds = {c1, c2}
    Tools = {"read", "write", "hidden"}
    Args = {"x", "y"}
    SideEffects = {"write"}
    Visible = {"read", "write"}
    Valid <- ValidCalls
    MaxTurns = 2
    MaxCallsPerTurn = 1
    MaxRuns = 2
SPECIFICATION StoresSpec
INVARIANTS AuditMatchesSnapshot RunOnceUnlessTorn LedgerFollowsJournal
PROPERTIES ImplementsAtomicJournal JobsFinish NoBlindRepeat
CHECK_DEADLOCK FALSE
