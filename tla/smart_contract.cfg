SPECIFICATION Spec
CONSTANTS
    Instance = {"a", "b"}
    Missing = {"b"}
    User = {"u"}
    Fees = "fees"
    Txn <- MCTxn
    Payee = {"b"}
    Value = {"x"}
    NoKey = NoKey
    NoWallet = NoWallet
    FirstBalance <- MCBalance
    BaseFee = 1
    StorageFee = 1
    ChildFee = 1
    MaxDepth = 3
    MaxRestarts = 1
CHECK_DEADLOCK FALSE
INVARIANTS StateAllOrNothing GasPaid ActsForCaller BlockAccounted
PROPERTY ExecutionEnds
