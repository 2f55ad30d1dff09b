CONSTANTS
    None = None
    Failing = {"host_preflight", "verify"}
    Requested = {"analyze", "host_preflight"}
    Modes <- MixedModes
    agent_max_loop_iterations = 1
    max_attempts = 1
    preflight_fail_closed = TRUE
    MaxRuns = 3
    MaxCrashes = 1
SPECIFICATION Spec
INVARIANTS ReusedComplete TerminalAgrees
PROPERTIES ResumeAfterRepair CompletedVerified
CHECK_DEADLOCK FALSE
