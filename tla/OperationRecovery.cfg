SPECIFICATION FairSpec
CONSTANTS
    Procs = {p1, p2}
    Setups <- MCSetups
    Kinds = {"venv", "conda", "model_download", "local_process", "docker_service"}
    Worlds = {"absent", "foreign"}
    MaxCrash = 2
    MaxAttempt = 3
INVARIANTS
    CommittedIsComplete
    CommittedHasResult
PROPERTIES
    ReconcileBeforeRetry
    
    
    EventuallyDecided
CHECK_DEADLOCK FALSE
