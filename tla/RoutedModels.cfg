\* Two threads share the router; candidate 1's adapter raises in a broken stream, candidate 2's is textual.
CONSTANTS
    Candidates = {1, 2}
    Profile <- MCProfile
    FailureThreshold = 2
    RecoverySeconds = 1
    Callers = {t1, t2}
    Requests <- MCRequests
    Textual = {2}
    Unstreamed = {}
    MaxChunks = 1
SPECIFICATION RouterSpec
INVARIANTS OneVoice EarnedOut
PROPERTY BreakerReleases
CHECK_DEADLOCK FALSE
