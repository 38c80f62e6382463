CONSTANTS
    t1 = t1  t2 = t2  c1 = c1  c2 = c2  p1 = p1  p2 = p2  w1 = w1
    Null = Null
    TxIds = {t1}
    Wallets = {w1}
    Wallet <- OneWallet
    Procs = {p1}
    Calls = {c1, c2}
    Proc <- OneReplica
    Prices = {1}
    Configured = {t1}
    StartNonce <- FreshWallets
    MaxSends = 1
    MaxRequests = 4
    MaxCrashes = 0
SPECIFICATION FairSpec
PROPERTY CallsReturn
CHECK_DEADLOCK FALSE
