CONSTANTS
    Candidates = {1}
    Stale = TRUE
    MaxReplans = 0
    MaxDiagnoses = 2
    MaxRepairs = 2
    MaxSameFailure = 3
    MaxRounds = 1
    MaxCrash = 0
    MaxAnswers = 3
SPECIFICATION Spec
INVARIANTS ApprovedRepairsOnly
CHECK_DEADLOCK FALSE
