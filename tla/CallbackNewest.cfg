\* No fault at all.
SPECIFICATION CallbackSpec
CONSTANTS
    Deliveries = {d1, d2, d3}
    BackoffSchedule <- OneGap
    BatchSize = 2
    Unstorable = {}
    MaxFaults = 0
    MaxPosts = 0
    MaxErrors = 0
INVARIANTS
    NewestIsTruth
CHECK_DEADLOCK FALSE
