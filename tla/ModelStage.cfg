SPECIFICATION Spec
CONSTANTS
    t1 = t1
    t2 = t2
    Tasks = {t1, t2}
    Models <- MCModels
    Envs <- MCEnvs
    Answers <- MCAnswers
    Assets <- MCAssets
    Configs <- MCConfigs
    Worlds <- MCWorlds
    RetryCount = 1
    MaxRuns = 2
    MaxRounds = 1
    MaxCleans = 1
SYMMETRY Symmetry
INVARIANT
    PassedIsPrepared
CHECK_DEADLOCK FALSE
