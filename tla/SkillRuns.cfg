CONSTANTS
    w1 = w1
    w2 = w2
    Workers = {w1, w2}
    NoWorker = NoWorker
    Manifest <- MCManifest
    MaxAttempts = 2
    PauseBound = 3
    StartBound = 3
    CrashBound = 1
SYMMETRY RunnerSymmetry
SPECIFICATION SkillSpec
INVARIANTS FirstGateRespected  SuccessIsEarned
CHECK_DEADLOCK FALSE
