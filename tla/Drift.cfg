CONSTANTS
    p1 = p1  p2 = p2  api = api
    Workers = {p1, p2}
    NoWorker = NoWorker
    RunBound = 3
    Skills <- MCSkills
    daily_budget = 1
    Bounds <- MCBounds
    Loops = {api}
    TaskBound = 2
    max_tasks = 2
SPECIFICATION FairSpec
INVARIANTS TicksAccounted
 
CHECK_DEADLOCK FALSE
