CONSTANTS
    Candidates = {1, 2}
    Stale = TRUE
    MaxReplans = 1
    MaxDiagnoses = 1
    MaxRepairs = 1
    MaxSameFailure = 2
    MaxRounds = 1
    MaxCrash = 1
    MaxAnswers = 2
SPECIFICATION FairSpec
INVARIANTS StageIsBegun  VerifiedLast
PROPERTIES Settles
CHECK_DEADLOCK FALSE
