SPECIFICATION FairSpec
CONSTANTS
    t1 = t1
    t2 = t2
    t3 = t3
    w1 = w1
    w2 = w2
    None = None
    Txn = {t1, t2, t3}
    Wallet = {w1, w2}
    NonceOf <- NumberedNonces
    HashRank <- ReverseRank
    Deferred = {t3}
    Forged = {}
    Job = {j1}
    OncePerHash = TRUE
    MaxRestarts = 0
PROPERTY PoolProgress
