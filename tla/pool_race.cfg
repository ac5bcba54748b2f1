SPECIFICATION Spec
CONSTANTS
    t1 = t1
    t2 = t2
    t3 = t3
    w1 = w1
    w2 = w2
    None = None
    Txn = {t1, t2, t3}
    Wallet = {w1}
    NonceOf <- ConflictingNonces
    HashRank <- ReverseRank
    Deferred = {}
    Forged = {t2}
    Job = {j1, j2}
    OncePerHash = FALSE
    MaxRestarts = 0
INVARIANTS TypeOK AcceptedNotLost IncludedIsMarked
SYMMETRY JobSymmetry
