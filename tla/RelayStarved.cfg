\* Two requests, a batch of one; one crash.
SPECIFICATION FairSpec
CONSTANTS
    p1 = p1
    c1 = c1  c2 = c2  c3 = c3
    a1 = a1
    call = call  other = other
    NoSigner = NoSigner
    NoCaller = NoCaller
    NoTx = NoTx
    Apps = {p1}
    Callers = {c1, c2}
    Addresses = {a1}
    Accounts = {a1}
    AppOf <- OneApp
    ListSigners <- OneSigner
    Bodies = {call, other}
    Body <- OwnCall
    Prices = {1}
    Hooked = {}
    BatchSize = 1
    Unstorable = {}
    MaxFaults <- OneCrash
    MaxKinds = 1
    NonceSpace = 8
    MaxNonce = 3
PROPERTIES
    WatcherFlips
CHECK_DEADLOCK FALSE
