CONSTANTS
    None = None
    Failing = {"host_preflight", "env_deploy", "verify"}
    Requested = {"analyze", "host_preflight"}
    Modes <- PipelineModes
    agent_max_loop_iterations = 1
    max_attempts = 1
    preflight_fail_closed = TRUE
    MaxRuns = 2
    MaxCrashes = 0
SPECIFICATION Spec
INVARIANTS DryRunInstallsNothing
CHECK_DEADLOCK FALSE
