CONSTANTS
    p1 = p1
    p2 = p2
    e1 = e1
    e2 = e2
    a = a
    Procs = {p1, p2}
    None = None
    Events = {e1, e2}
    Topic <- MCTopic
    Priority <- MCPriority
    Tokened = {e1}
    DailyMax = 2
    HourlyMax = 1
    JudgeDailyMax = 3
    HoursPerDay = 2
    DedupHours = 1
    MaxRetries = 2
    MaxHour = 1
    EmitBound = 2
    CrashBound = 1
    DispatchBound = 1
    UserBound = 1
SYMMETRY ProcessSymmetry
SPECIFICATION Spec
INVARIANTS EnvelopeWhole SourceToldTruth 
CHECK_DEADLOCK FALSE
