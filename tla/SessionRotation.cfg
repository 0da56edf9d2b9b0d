SPECIFICATION SessionSpec
CONSTANTS
    SessionIds = {s1, s2}
    NoSession = nosession
    MaxTokens = 2
    Calls = {q1, q2}
    MaxMishaps = 0
    Sockets = {k1}
INVARIANTS
    RotatedIsRefused
