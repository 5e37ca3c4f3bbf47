\* An app with two signers and a sweep that competes with its top-ups;
\* one fault, one move of the gas price, or one signer that runs low again.
SPECIFICATION FairSpec
CONSTANTS
    p1 = p1  p2 = p2
    t1 = t1  t2 = t2
    s1 = s1  s2 = s2
    k1 = k1  k2 = k2
    NoApp = NoApp
    NoTx = NoTx
    Apps = {p1, p2}
    Managed = {p1}
    Accounts = {t1, t2}
    TreasuryOf <- OwnTreasury
    SweptApp <- SweepOne
    ListSigners <- TwoSigners
    Bodies = {s1, s2, k1}
    Sweeps = {k1}
    Prices = {1, 2}
    FirstPrice = 1
    TopupWindow = 1
    MaxTroubles = 1
    MaxPending = 1
INVARIANTS
    TypeOK
    SentOrOutbid
    NoTreasuryGap
    TopupsSpaced
PROPERTIES
    LowIsRefilled
