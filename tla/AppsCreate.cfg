\* Two POSTs at the same time, pools of one or two signers, texts of every kind
\* for the amounts, two faults.
SPECIFICATION AppsSpec
CONSTANTS
    Calls = {c1, c2}
    KeyAddrs <- AllKeys
    Inputs <- SomeInputs
    MinPoolSize = 1
    MaxPoolSize = 2
    NoApp = NoApp
    NaN = NaN
    MaxFaults = 2
INVARIANTS
    AppsTypeOK
    RowsHaveKeys
    AnswerIsTrue
    ListedIsLoadable
    DecimalPolicies
PROPERTIES
    ImplementsRegistry
CHECK_DEADLOCK FALSE
