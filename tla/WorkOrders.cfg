SPECIFICATION Spec
CONSTANTS
    Orders = {w1, w2}
    NoOrder = noorder
    Sets = {"completed"}
    MaxRating = 1
    Requests = {r1, r2}
    MaxFailures = 1
SYMMETRY Symmetry
CONSTRAINT
    OneAstray
INVARIANTS
    TypeOK
    AverageExplained
    CompletedIsDated
    DeletionIsFinal
