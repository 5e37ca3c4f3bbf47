\* Two apps, two transports, an interval three times the timeout; the process
\* dies once and a treasury runs low again once.
SPECIFICATION FairSpec
CONSTANTS
    Apps = {p1, p2}
    NoApp = NoApp
    NaN = NaN
    Policies <- SomePolicies
    Transports = 2
    Reliable = 2
    Interval = 3
    Timeout = 1
    MaxCrashes = 1
    MaxDrains = 1
INVARIANTS
    TypeOK
PROPERTIES
    AlertsSpaced
    LowIsAlerted
