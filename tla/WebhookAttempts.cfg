\* One delivery; its receiver answers 500 with a body cut inside a character.
SPECIFICATION Spec
CONSTANTS
    Deliveries = {d1}
    BackoffSchedule <- FourGaps
    BatchSize = 1
    Unstorable = {d1}
    MaxFaults = 0
    MaxPosts = 7
INVARIANTS
    AttemptsAreBounded
