SPECIFICATION Spec
CONSTANTS
    t1 = t1
    t2 = t2
    w1 = w1
    b1 = b1
    c1 = c1
    c2 = c2
    None = None
    Txn = {t1, t2}
    Wallet = {w1}
    NonceOf <- InTurn
    Deferred = {}
    Forged = {}
    Job = {j1}
    OncePerHash = TRUE
    Block = {b1, c1, c2}
    TxnsOf <- OneOrTwoBlocks
    Parent <- Parents
    Height <- Heights
    SlowRequests = TRUE
    MaxRestarts = 1
INVARIANTS OneChain ChainEffects CleanBlockTakenOver
