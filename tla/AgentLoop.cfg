CONSTANTS
    Tools = {"add_runner_candidate", "apply_dependency_constraint", "resume_from_stage"}
    Positions = {"primary", "post_pipeline"}
    max_iterations = 3
    MaxRuns = 2
    MaxCrashes = 1
SPECIFICATION LoopFairSpec
PROPERTIES PassIsVerified LoopEnds
CHECK_DEADLOCK FALSE
