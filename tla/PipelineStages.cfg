SPECIFICATION StagesSpec
CONSTANTS
    Tasks <- MCTasks
    Runs = {r1, r2}
    Backend = "docker"
    max_candidate_attempts = 2
    agent_verify_max_steps = 1
    Sites <- MCSites
    FirstPrefixes <- MCPrefixes
    MaxJobs = 3
INVARIANTS
    
    ApprovalOnce
    MarkerIsTrue
    PassedIsInstalled
    
PROPERTIES
    OwnServiceAnswers
    NoRetryOverUnowned
SYMMETRY RunSymmetry
CHECK_DEADLOCK FALSE
