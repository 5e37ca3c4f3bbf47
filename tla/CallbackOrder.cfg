\* One request and three rows of the queue, two attempts each; a database error
\* of a writer, and a crash or a failed update of the queue.
SPECIFICATION CallbackFairSpec
CONSTANTS
    Deliveries = {d1, d2, d3}
    BackoffSchedule <- OneGap
    BatchSize = 1
    Unstorable = {}
    MaxFaults = 1
    MaxPosts = 0
    MaxErrors = 1
INVARIANTS
    NewestIsLast
PROPERTIES
    FinalIsDelivered
CHECK_DEADLOCK FALSE
