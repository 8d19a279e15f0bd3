CONSTANTS
    e1 = e1
    e2 = e2
    j1 = j1
    Workers = {e1, e2}
    NoWorker = NoWorker
    Jobs = {j1}
    Never = Never
    Def <- MCRetryingInterval
    MaxTime = 1
    IncidentBound = 1
    AttemptBound = 2
SYMMETRY EngineSymmetry
SPECIFICATION Spec
INVARIANTS  RunningIsAttended
PROPERTIES CancelHolds
