\* Three deliveries, the failures of one of which cannot be stored, and a batch of
\* two; three attempts, one fault.
SPECIFICATION FairSpec
CONSTANTS
    Deliveries = {d1, d2, d3}
    BackoffSchedule <- TwoGaps
    BatchSize = 2
    Unstorable = {d3}
    MaxFaults = 1
    MaxPosts = 5
INVARIANTS
    TypeOK
    PostsBounded
    NotGivenUpEarly
PROPERTIES
    GapsKept
    EventuallySettled
