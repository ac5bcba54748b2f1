SPECIFICATION Spec
CONSTANTS
    t1 = t1
    t2 = t2
    t3 = t3
    t4 = t4
    t5 = t5
    alice = alice
    bob = bob
    carol = carol
    Placeholder = placeholder
    FeeAddress = feeAddress
    Foundation = foundation
    Burn = burn
    None = None
    Wallet = {alice, bob, carol, placeholder, feeAddress, foundation, burn}
    Whole = 100
    Modulus = 65536
    Txn = {t1, t2, t3, t4, t5}
    Inputs <- RaceInputs
    Outputs <- RaceOutputs
    Genesis <- RaceGenesis
    KeyRank <- Ranks
    Job = {j1, j2}
    MaxRestarts = 1
INVARIANTS BalancesAgree ChainCharged
PROPERTIES SupplyConserved
