SPECIFICATION AllSpec
CONSTANTS
    Users = {u1, u2}
    NoUser = nouser
    Emails = {e1, e2, e3}
    NoEmail = noemail
    AdminStatuses = {"active"}
    MaxCodes = 3
    MaxPasswords = 2
    Requests = {r1, r2}
    MaxFailures = 1
    SessionIds = {s1, s2}
    NoSession = nosession
    MaxTokens = 3
    Calls = {q1, q2}
    MaxMishaps = 1
    Sockets = {k1, k2}
SYMMETRY Symmetry
CONSTRAINTS
    FewerAtOnce
    FewerOnceMet
    FewerTokens
INVARIANTS
    TypesOK
    EmailProved
    ChosenPasswordHolds
    ShutStaysShut
    LogoutIsFinal
    NewestOnRecord
    PresenceSettles
