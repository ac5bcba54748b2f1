SPECIFICATION RulesSpec
CONSTANTS
    Whole = 100
    Modulus = 65536
    MaxFee = 40
    PercentStep = 20
    Growing = {"calendar", "stakes", "merkle", "compliance", "allowance"}
    Length <- Lengths
    LastDay = 430
    None = None
    HeldTxn = {x, y}
    QuashKey = {k, l}
SYMMETRY Alike
INVARIANTS FeesAccounted WeighedExactly StagesFitCycle RootBindsBlock PermissionsKept
PROPERTY HeldKept
