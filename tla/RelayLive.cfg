\* Two prices, so that a transaction can displace another; a crash and an
\* eviction.
SPECIFICATION FairSpec
CONSTANTS
    p1 = p1
    c1 = c1  c2 = c2  c3 = c3
    a1 = a1
    call = call  other = other
    NoSigner = NoSigner
    NoCaller = NoCaller
    NoTx = NoTx
    Apps = {p1}
    Callers = {c1, c2}
    Addresses = {a1}
    Accounts = {a1}
    AppOf <- OneApp
    ListSigners <- OneSigner
    Bodies = {call, other}
    Body <- OwnCall
    Prices = {1, 2}
    Hooked = {}
    BatchSize = 2
    Unstorable = {other}
    MaxFaults <- CrashAndEviction
    MaxKinds = 2
    NonceSpace = 8
    MaxNonce = 3
INVARIANTS
    AcknowledgedOnce
PROPERTIES
    SubmitReturns
    AcceptedResolves
CHECK_DEADLOCK FALSE
