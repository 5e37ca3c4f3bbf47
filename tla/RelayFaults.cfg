\* Two requests with calls of their own, one signer, two prices; one fault of every
\* kind, of two kinds at most.
SPECIFICATION Spec
CONSTANTS
    p1 = p1
    c1 = c1  c2 = c2  c3 = c3
    a1 = a1
    call = call  other = other
    NoSigner = NoSigner
    NoCaller = NoCaller
    NoTx = NoTx
    Apps = {p1}
    Callers = {c1, c2}
    Addresses = {a1}
    Accounts = {a1}
    AppOf <- OneApp
    ListSigners <- OneSigner
    Bodies = {call, other}
    Body <- OwnCall
    Prices = {1, 2}
    Hooked = {c1}
    BatchSize = 2
    Unstorable = {other}
    MaxFaults <- AllFaults
    MaxKinds = 2
    NonceSpace = 8
    MaxNonce = 3
INVARIANTS
    RelayTypeOK
    WriteAhead
    StatusIsTrue
    NoNonceGap
    NonceInSync
    AcceptedIsTracked
    FinalIsAnnounced
PROPERTIES
    FinalAfterReturn
CHECK_DEADLOCK FALSE
