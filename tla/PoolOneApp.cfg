\* Three concurrent callers of one app with two signers, fairly scheduled.
SPECIFICATION PoolFairSpec
CONSTANTS
    p1 = p1
    c1 = c1  c2 = c2  c3 = c3
    a1 = a1  a2 = a2
    NoSigner = NoSigner
    NoCaller = NoCaller
    Apps = {p1}
    Callers = {c1, c2, c3}
    Addresses = {a1, a2}
    AppOf <- OneApp
    ListSigners <- TwoSigners
    NonceSpace = 4
    MaxNonce = 2
INVARIANTS
    PoolTypeOK
    Exclusive
    Conserved
    ReleaseNeverBlocks
    RewindNeverWraps
PROPERTIES
    OnlyHolderMovesNonce
    ImplementsLease
    CheckoutReturns
