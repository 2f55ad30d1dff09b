CONSTANTS
    Files <- MCFiles
    Facts <- MCFacts
    Plans <- MCPlans
    Requests <- MCRequests
    Categories = {"process_exited"}
    Configs <- MCConfigs
    max_replans = 3
    max_rounds = 2
    max_tokens = 4
    max_files = 2
    MaxRuns = 2
    MaxEdits = 1
    V4Window = 60
    V4Output = 20
    DefaultOutput = 5
    FallbackWindow = 16
    Calls <- MCCalls
    Requested = 6
    Margin = 4
    ProfileCap = 40
    CompactPercent = 85
    OverflowRetries = 1
    RequestOverhead = 1
    MessageOverhead = 1
    ShortMin = 3
    ShortMax = 8
    CutNote = 2
    RetryNote = 1
    JsonHint = 1
    DecisionTimeout = 6
    RequestTimeout = 4
    Statuses = {400, 401, 402, 404, 422, 429, 503}
    RetryAfters <- MCRetryAfters
    MaxDrip = 2
SPECIFICATION PlanningSpec
INVARIANTS  PassIsOfLastRevision SentFits SentInTime RequestsBounded
CHECK_DEADLOCK FALSE
