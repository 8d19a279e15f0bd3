CONSTANTS
    w1 = w1
    w2 = w2
    r1 = r1
    Workers = {w1, w2}
    NoWorker = NoWorker
    Runs = {r1}
    NoRun = NoRun
    Console = Console
    DriftWorkers = {w1}
    MaxAttemptsOf = {1, 2}
    AttemptBound = 3
    CrashBound = 1
    m1 = m1
    m2 = m2
    Messages = {m1, m2}
    DeathBound = 2
    FaultBound = 1
SPECIFICATION RestartSpec
INVARIANTS AttemptBudget LogFollowsStarts MemoryMirrorsTable AnswerIsDurable
PROPERTIES ImplementsLifecycle 
CHECK_DEADLOCK FALSE
