SPECIFICATION Spec
CONSTANTS
    t1 = t1
    t2 = t2
    t3 = t3
    w1 = w1
    w2 = w2
    None = None
    Txn = {t1, t2, t3}
    Wallet = {w1, w2}
    NonceOf <- NumberedNonces
    HashRank <- ReverseRank
    Deferred = {}
    Forged = {}
    Job = {j1, j2}
    OncePerHash = TRUE
    MaxRestarts = 1
SYMMETRY JobSymmetry
INVARIANTS NoTxnTwice TablesAgree
PROPERTY MarkedRefusedForGood
