SPECIFICATION Spec
CONSTANTS
    N = 3
    Https = {{1, 2, 3}, {2, 3}}
    Workers = 2
    Attempts = 2
    MaxChunks = 1
    Heard <- MCHeard
INVARIANT AttemptsAreTotal
CHECK_DEADLOCK FALSE
