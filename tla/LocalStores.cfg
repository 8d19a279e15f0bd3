\* Of each part the smallest instance in which two processes, or a process and the user, meet.
CONSTANTS
    Latest = 3
    Length <- MCLength
    Bare <- MCBare
    server = server  command = command
    Processes = {server, command}
    MaxArchives = 1
    MaxRestores = 1
    f1 = f1  f2 = f2  t1 = t1  t2 = t2  big = big  broken = broken  Absent = Absent
    Paths = {f1, f2}
    Texts = {t1, t2, big, broken}
    Oversized = {big}
    Unparsable = {broken}
    Embedding = {TRUE}
    Indexings <- MCIndexings
    h1 = h1  h2 = h2  None = None  Part = Part
    Holders = {h1, h2}
    Names = {n1, n2}
    Values = {v1, v2}
    Backends = {"env", "local", "encrypted", "keychain"}
    SecretCalls = {3}
    Defaults <- MCDefaults
    Options <- MCOptions
    KeyValues = {"p", "q"}
    Contents <- MCContents
    Environments <- MCEnvironments
    Overrides <- MCOverrides
    wr1 = wr1  wr2 = wr2  Nothing = Nothing  Torn = Torn  Failed = Failed
    Writers = {wr1, wr2}
    SetCalls = {3, 0}
SPECIFICATION Spec
INVARIANTS VersionsHold IndexTellsTruth SecretsKept 
SYMMETRY MCSymmetry
CHECK_DEADLOCK FALSE
