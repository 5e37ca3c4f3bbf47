\* One request; one answer of the node is lost.
SPECIFICATION Spec
CONSTANTS
    p1 = p1
    c1 = c1  c2 = c2  c3 = c3
    a1 = a1
    call = call  other = other
    NoSigner = NoSigner
    NoCaller = NoCaller
    NoTx = NoTx
    Apps = {p1}
    Callers = {c1}
    Addresses = {a1}
    Accounts = {a1}
    AppOf <- OneApp
    ListSigners <- OneSigner
    Bodies = {call, other}
    Body <- SameCall
    Prices = {1}
    Hooked = {}
    BatchSize = 2
    Unstorable = {}
    MaxFaults <- OneLostAnswer
    MaxKinds = 1
    NonceSpace = 8
    MaxNonce = 3
INVARIANTS
    NothingOrphaned
CHECK_DEADLOCK FALSE
