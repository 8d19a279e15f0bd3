CONSTANTS
    t1 = t1
    t2 = t2
    t3 = t3
    Turns = {t1, t2, t3}
    Streams = {t3}
    MaxModelCalls = 2
    MaxToolCalls = 1
    MaxToolRounds = 1
    MaxIntents = 1
    Threads = 2
SPECIFICATION FairSpec
INVARIANTS MachineRecoverable BudgetOvershoot 
PROPERTIES TurnEnds
CHECK_DEADLOCK FALSE
