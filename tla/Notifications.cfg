SPECIFICATION AllSpec
CONSTANTS
    MaxNotes = 3
    Requests = {r1, r2}
    MaxFailures = 1
    MaxNights = 2
    Plans = {p1}
    NoPlan = noplan
    Kinds <- KindsUsed
    Starts <- StartsUsed
    Ends <- EndsUsed
    NoEnd = noend
    MaxBehind = 3
    MaxAhead = 2
    MaxEdits = 3
    MaxFaults = 1
    Intervals = {1, 6, 12}
    MaxMonths = 60
INVARIANTS
    TypesOK
    CountExplained
    MonthlyRunsSlip
PROPERTIES
    RunsAnnounced
    CatchesUp
    SchedulesEnd
